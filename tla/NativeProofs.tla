---------------------------- MODULE NativeProofs ----------------------------
(***************************************************************************)
(* Proofs of the safety of NativeRecovery, the three acceptance workflows  *)
(* on AWS beside the guard that cleans up after them.                      *)
(*                                                                         *)
(* Calls and steps. Workflows and tasks are lists, and a proof about       *)
(* a call first has to know where in its list it stands. ProgramAt and     *)
(* StepAt tabulate the lists once; ApplicationPlace, FixturePlace and      *)
(* StepPlace are what the rest of the module uses of them.                 *)
(*                                                                         *)
(* Steps of the system. StepCases puts every step of Next into one of nine *)
(* classes by what it does to the run and its ledgers, so an invariant     *)
(* about these has nine cases to consider, and not those of the guard.     *)
(*                                                                         *)
(* Invariants. TypeInv first. GuardInv is about resources and the guard,   *)
(* and needs nothing of the workflows. EffectInv says that each task of an  *)
(* application run is launched once (Since, SoleRun) and from it what the  *)
(* ledgers hold while a task is at a step. Upon it rest, independently,    *)
(* SourceInv (what was prepared before the source is deleted), ResultInv   *)
(* (what tasks reported remains true) and PointInv (commit times and the   *)
(* points of a restore).                                                   *)
(***************************************************************************)
EXTENDS NativeRecovery, SequenceTheorems, TLAPS

-----------------------------------------------------------------------------
(* The calls of a workflow.                                                 *)

(* Names of the proof: the workflow in which the gates of the restored      *)
(* databases matter, and the ledgers a call may expect.                     *)
App == wf = "application"
Ledgers == (SUBSET Keys) \union {All}

(* The calls of tasks in any workflow (native_run.py:154-254): only a       *)
(* receipt task has a phase, only a verification looks at a restored        *)
(* database, and only that of the behind one is accepted with exit code 2.  *)
TaskCalls ==
    {c \in [name : {"none", "bootstrap", "baseline", "control", "receipt", "verify"},
            gen : {"control"} \union Restores,
            phase : {"none", "fixture", "source-preflight"} \union Restores, exit : {0, 2}] :
        /\ c.name = "receipt" <=> c.phase # "none"
        /\ c.phase \in Restores => c.gen = c.phase
        /\ (c.name # "verify" /\ c.phase \notin Restores) => c.gen = "control"
        /\ c.exit = IF c.name = "verify" /\ c.gen = "behind" THEN 2 ELSE 0}

(* Every call a workflow may make.                                          *)
CallSet ==
    {<<op>> : op \in {"claim", "each", "both", "mark", "freeze", "tag", "register",
                      "checkpoint", "retained"}}
    \union {<<op, i>> : op \in {"window", "select"}, i \in {1, 2}}
    \union {<<op, g>> : op \in {"available", "remember", "unprotect", "delete", "gone"},
                        g \in {"control"} \union Restores}
    \union {<<"restore", g, i>> : g \in Restores, i \in {1, 2}}
    \union {<<"run", c, l, r>> : c \in TaskCalls, l \in Ledgers, r \in Ledgers}

(* A task call with the ledgers it must report.                             *)
Asks(name, gen, phase, exit, l, r) ==
    <<"run", [name |-> name, gen |-> gen, phase |-> phase, exit |-> exit], l, r>>

(* Run of the model is a list of one such call.                             *)
LEMMA RunIs ==
    ASSUME NEW name, NEW gen, NEW phase, NEW exit, NEW l, NEW r
    PROVE  Run(name, gen, phase, exit, l, r) = <<Asks(name, gen, phase, exit, l, r)>>
  BY DEF Run, Asks

(* A task call with fitting name, generation, phase and exit code is one of *)
(* CallSet.                                                                 *)
LEMMA AsksCall ==
    ASSUME NEW name \in {"none", "bootstrap", "baseline", "control", "receipt", "verify"},
           NEW gen \in {"control"} \union Restores,
           NEW phase \in {"none", "fixture", "source-preflight"} \union Restores,
           NEW exit \in {0, 2}, NEW l \in Ledgers, NEW r \in Ledgers,
           name = "receipt" <=> phase # "none", phase \in Restores => gen = phase,
           (name # "verify" /\ phase \notin Restores) => gen = "control",
           exit = IF name = "verify" /\ gen = "behind" THEN 2 ELSE 0
    PROVE  Asks(name, gen, phase, exit, l, r) \in CallSet
  <1>1. [name |-> name, gen |-> gen, phase |-> phase, exit |-> exit] \in TaskCalls
    BY DEF TaskCalls
  <1> QED BY <1>1 DEF Asks, CallSet

(* The calls that the workflows are made of, one by one, are calls of       *)
(* CallSet.                                                                 *)
LEMMA Members ==
    /\ <<"available", "behind">> \in CallSet
    /\ <<"available", "matching">> \in CallSet
    /\ <<"each">> \in CallSet /\ <<"both">> \in CallSet
    /\ <<"checkpoint">> \in CallSet
    /\ <<"claim">> \in CallSet
    /\ <<"delete", "behind">> \in CallSet
    /\ <<"delete", "control">> \in CallSet
    /\ <<"freeze">> \in CallSet
    /\ <<"gone", "behind">> \in CallSet
    /\ <<"gone", "control">> \in CallSet
    /\ <<"mark">> \in CallSet
    /\ <<"register">> \in CallSet
    /\ <<"remember", "behind">> \in CallSet
    /\ <<"remember", "control">> \in CallSet
    /\ <<"restore", "behind", 1>> \in CallSet
    /\ <<"restore", "matching", 2>> \in CallSet
    /\ <<"retained">> \in CallSet
    /\ <<"select", 1>> \in CallSet
    /\ <<"select", 2>> \in CallSet
    /\ <<"tag">> \in CallSet
    /\ <<"unprotect", "behind">> \in CallSet
    /\ <<"unprotect", "control">> \in CallSet
    /\ <<"window", 1>> \in CallSet
    /\ Asks("baseline", "control", "none", 0, All, All) \in CallSet
    /\ Asks("baseline", "control", "none", 0, All, {"base"}) \in CallSet
    /\ Asks("bootstrap", "control", "none", 0, All, All) \in CallSet
    /\ Asks("control", "control", "none", 0, All, All) \in CallSet
    /\ Asks("control", "control", "none", 0, All, {"base", "more"}) \in CallSet
    /\ Asks("receipt", "behind", "behind", 0, {"base"}, {"base", "more"}) \in CallSet
    /\ Asks("receipt", "control", "fixture", 0, All, {"base"}) \in CallSet
    /\ Asks("receipt", "control", "source-preflight", 0, All, All) \in CallSet
    /\ Asks("receipt", "matching", "matching", 0, All, All) \in CallSet
    /\ Asks("verify", "behind", "none", 2, {"base"}, {"base", "more"}) \in CallSet
    /\ Asks("verify", "behind", "none", 2, {}, {"base"}) \in CallSet
    /\ Asks("verify", "control", "none", 0, All, All) \in CallSet
    /\ Asks("verify", "control", "none", 0, {"base", "more"}, {"base", "more"}) \in CallSet
    /\ Asks("verify", "control", "none", 0, {"base"}, {"base"}) \in CallSet
    /\ Asks("verify", "control", "none", 0, {}, {}) \in CallSet
    /\ Asks("verify", "matching", "none", 0, Keys, Keys) \in CallSet
  <1>1. All \in Ledgers /\ {} \in Ledgers /\ {"base"} \in Ledgers /\ {"base", "more"} \in Ledgers
        /\ Keys \in Ledgers
    BY DEF Ledgers, Keys
  <1>2. <<"available", "behind">> \in CallSet
    BY DEF CallSet, Restores
  <1>3. <<"available", "matching">> \in CallSet
    BY DEF CallSet, Restores
  <1>4. <<"each">> \in CallSet /\ <<"both">> \in CallSet
    BY DEF CallSet, Restores
  <1>5. <<"checkpoint">> \in CallSet
    BY DEF CallSet, Restores
  <1>6. <<"claim">> \in CallSet
    BY DEF CallSet, Restores
  <1>7. <<"delete", "behind">> \in CallSet
    BY DEF CallSet, Restores
  <1>8. <<"delete", "control">> \in CallSet
    BY DEF CallSet, Restores
  <1>9. <<"freeze">> \in CallSet
    BY DEF CallSet, Restores
  <1>10. <<"gone", "behind">> \in CallSet
    BY DEF CallSet, Restores
  <1>11. <<"gone", "control">> \in CallSet
    BY DEF CallSet, Restores
  <1>12. <<"mark">> \in CallSet
    BY DEF CallSet, Restores
  <1>13. <<"register">> \in CallSet
    BY DEF CallSet, Restores
  <1>14. <<"remember", "behind">> \in CallSet
    BY DEF CallSet, Restores
  <1>15. <<"remember", "control">> \in CallSet
    BY DEF CallSet, Restores
  <1>16. <<"restore", "behind", 1>> \in CallSet
    BY DEF CallSet, Restores
  <1>17. <<"restore", "matching", 2>> \in CallSet
    BY DEF CallSet, Restores
  <1>18. <<"retained">> \in CallSet
    BY DEF CallSet, Restores
  <1>19. <<"select", 1>> \in CallSet
    BY DEF CallSet, Restores
  <1>20. <<"select", 2>> \in CallSet
    BY DEF CallSet, Restores
  <1>21. <<"tag">> \in CallSet
    BY DEF CallSet, Restores
  <1>22. <<"unprotect", "behind">> \in CallSet
    BY DEF CallSet, Restores
  <1>23. <<"unprotect", "control">> \in CallSet
    BY DEF CallSet, Restores
  <1>24. <<"window", 1>> \in CallSet
    BY DEF CallSet, Restores
  <1>25. Asks("baseline", "control", "none", 0, All, All) \in CallSet
    BY <1>1, AsksCall DEF Restores
  <1>26. Asks("baseline", "control", "none", 0, All, {"base"}) \in CallSet
    BY <1>1, AsksCall DEF Restores
  <1>27. Asks("bootstrap", "control", "none", 0, All, All) \in CallSet
    BY <1>1, AsksCall DEF Restores
  <1>28. Asks("control", "control", "none", 0, All, All) \in CallSet
    BY <1>1, AsksCall DEF Restores
  <1>29. Asks("control", "control", "none", 0, All, {"base", "more"}) \in CallSet
    BY <1>1, AsksCall DEF Restores
  <1>30. Asks("receipt", "behind", "behind", 0, {"base"}, {"base", "more"}) \in CallSet
    BY <1>1, AsksCall DEF Restores
  <1>31. Asks("receipt", "control", "fixture", 0, All, {"base"}) \in CallSet
    BY <1>1, AsksCall DEF Restores
  <1>32. Asks("receipt", "control", "source-preflight", 0, All, All) \in CallSet
    BY <1>1, AsksCall DEF Restores
  <1>33. Asks("receipt", "matching", "matching", 0, All, All) \in CallSet
    BY <1>1, AsksCall DEF Restores
  <1>34. Asks("verify", "behind", "none", 2, {"base"}, {"base", "more"}) \in CallSet
    BY <1>1, AsksCall DEF Restores
  <1>35. Asks("verify", "behind", "none", 2, {}, {"base"}) \in CallSet
    BY <1>1, AsksCall DEF Restores
  <1>36. Asks("verify", "control", "none", 0, All, All) \in CallSet
    BY <1>1, AsksCall DEF Restores
  <1>37. Asks("verify", "control", "none", 0, {"base", "more"}, {"base", "more"}) \in CallSet
    BY <1>1, AsksCall DEF Restores
  <1>38. Asks("verify", "control", "none", 0, {"base"}, {"base"}) \in CallSet
    BY <1>1, AsksCall DEF Restores
  <1>39. Asks("verify", "control", "none", 0, {}, {}) \in CallSet
    BY <1>1, AsksCall DEF Restores
  <1>40. Asks("verify", "matching", "none", 0, Keys, Keys) \in CallSet
    BY <1>1, AsksCall DEF Restores
  <1> QED
    BY <1>2, <1>3, <1>4, <1>5, <1>6, <1>7, <1>8, <1>9, <1>10, <1>11, <1>12, <1>13,
       <1>14, <1>15, <1>16, <1>17, <1>18, <1>19, <1>20, <1>21, <1>22, <1>23, <1>24, <1>25,
       <1>26, <1>27, <1>28, <1>29, <1>30, <1>31, <1>32, <1>33, <1>34, <1>35, <1>36, <1>37,
       <1>38, <1>39, <1>40

(* The Flat lemmas: lists of the lengths that the name gives, joined, are   *)
(* one list of their elements. SMT decides them for literals only, so they  *)
(* are stated for any elements and instantiated below.                      *)
LEMMA Flat1_1_1_1_1 ==
    ASSUME NEW c1, NEW c2, NEW c3, NEW c4, NEW c5
    PROVE  <<c1>> \o <<c2>>
           \o <<c3>> \o <<c4>>
           \o <<c5>>
           = <<c1, c2, c3, c4, c5>>
  <1> DEFINE S == {c1, c2, c3, c4, c5}
             x == <<c1>> \o <<c2>>
           \o <<c3>> \o <<c4>>
           \o <<c5>>
             y == <<c1, c2, c3, c4, c5>>
  <1>0. c1 \in S /\ c2 \in S /\ c3 \in S /\ c4 \in S /\ c5 \in S
    OBVIOUS
  <1> HIDE DEF S
  <1>1. /\ x \in Seq(S) /\ Len(x) = 5
        /\ x[1] = c1 /\ x[2] = c2 /\ x[3] = c3 /\ x[4] = c4 /\ x[5] = c5
    BY <1>0
  <1>2. /\ y \in Seq(S) /\ Len(y) = 5
        /\ y[1] = c1 /\ y[2] = c2 /\ y[3] = c3 /\ y[4] = c4 /\ y[5] = c5
    BY <1>0
  <1> HIDE DEF x, y
  <1>3. ASSUME NEW i \in 1 .. Len(x) PROVE x[i] = y[i]
    <2>1. i = 1 \/ i = 2 \/ i = 3 \/ i = 4 \/ i = 5
      BY <1>1
    <2> QED BY <2>1, <1>1, <1>2
  <1>4. x = y BY <1>1, <1>2, <1>3, SeqEqual
  <1> QED BY <1>4 DEF x, y

LEMMA Flat1_1_1_1 ==
    ASSUME NEW c1, NEW c2, NEW c3, NEW c4
    PROVE  <<c1>> \o <<c2>>
           \o <<c3>> \o <<c4>>
           = <<c1, c2, c3, c4>>
  <1> DEFINE S == {c1, c2, c3, c4}
             x == <<c1>> \o <<c2>>
           \o <<c3>> \o <<c4>>
             y == <<c1, c2, c3, c4>>
  <1>0. c1 \in S /\ c2 \in S /\ c3 \in S /\ c4 \in S
    OBVIOUS
  <1> HIDE DEF S
  <1>1. /\ x \in Seq(S) /\ Len(x) = 4
        /\ x[1] = c1 /\ x[2] = c2 /\ x[3] = c3 /\ x[4] = c4
    BY <1>0
  <1>2. /\ y \in Seq(S) /\ Len(y) = 4
        /\ y[1] = c1 /\ y[2] = c2 /\ y[3] = c3 /\ y[4] = c4
    BY <1>0
  <1> HIDE DEF x, y
  <1>3. ASSUME NEW i \in 1 .. Len(x) PROVE x[i] = y[i]
    <2>1. i = 1 \/ i = 2 \/ i = 3 \/ i = 4
      BY <1>1
    <2> QED BY <2>1, <1>1, <1>2
  <1>4. x = y BY <1>1, <1>2, <1>3, SeqEqual
  <1> QED BY <1>4 DEF x, y

LEMMA Flat1_2_1_1 ==
    ASSUME NEW c1, NEW c2, NEW c3, NEW c4, NEW c5
    PROVE  <<c1>> \o <<c2, c3>>
           \o <<c4>> \o <<c5>>
           = <<c1, c2, c3, c4, c5>>
  <1> DEFINE S == {c1, c2, c3, c4, c5}
             x == <<c1>> \o <<c2, c3>>
           \o <<c4>> \o <<c5>>
             y == <<c1, c2, c3, c4, c5>>
  <1>0. c1 \in S /\ c2 \in S /\ c3 \in S /\ c4 \in S /\ c5 \in S
    OBVIOUS
  <1> HIDE DEF S
  <1>1. /\ x \in Seq(S) /\ Len(x) = 5
        /\ x[1] = c1 /\ x[2] = c2 /\ x[3] = c3 /\ x[4] = c4 /\ x[5] = c5
    BY <1>0
  <1>2. /\ y \in Seq(S) /\ Len(y) = 5
        /\ y[1] = c1 /\ y[2] = c2 /\ y[3] = c3 /\ y[4] = c4 /\ y[5] = c5
    BY <1>0
  <1> HIDE DEF x, y
  <1>3. ASSUME NEW i \in 1 .. Len(x) PROVE x[i] = y[i]
    <2>1. i = 1 \/ i = 2 \/ i = 3 \/ i = 4 \/ i = 5
      BY <1>1
    <2> QED BY <2>1, <1>1, <1>2
  <1>4. x = y BY <1>1, <1>2, <1>3, SeqEqual
  <1> QED BY <1>4 DEF x, y

LEMMA Flat5_4_5 ==
    ASSUME NEW c1, NEW c2, NEW c3, NEW c4, NEW c5,
           NEW c6, NEW c7, NEW c8, NEW c9, NEW c10,
           NEW c11, NEW c12, NEW c13, NEW c14
    PROVE  <<c1, c2, c3, c4, c5>> \o <<c6, c7, c8, c9>>
           \o <<c10, c11, c12, c13, c14>>
           = <<c1, c2, c3, c4, c5, c6, c7, c8, c9, c10, c11, c12, c13, c14>>
  <1> DEFINE S == {c1, c2, c3, c4, c5, c6, c7, c8, c9, c10, c11, c12, c13, c14}
             x == <<c1, c2, c3, c4, c5>> \o <<c6, c7, c8, c9>>
           \o <<c10, c11, c12, c13, c14>>
             y == <<c1, c2, c3, c4, c5, c6, c7, c8, c9, c10, c11, c12, c13, c14>>
  <1>0. c1 \in S /\ c2 \in S /\ c3 \in S /\ c4 \in S /\ c5 \in S /\ c6 \in S
        /\ c7 \in S /\ c8 \in S /\ c9 \in S /\ c10 \in S /\ c11 \in S /\ c12 \in S
        /\ c13 \in S /\ c14 \in S
    OBVIOUS
  <1> HIDE DEF S
  <1>1. /\ x \in Seq(S) /\ Len(x) = 14
        /\ x[1] = c1 /\ x[2] = c2 /\ x[3] = c3 /\ x[4] = c4 /\ x[5] = c5 /\ x[6] = c6
        /\ x[7] = c7 /\ x[8] = c8 /\ x[9] = c9 /\ x[10] = c10 /\ x[11] = c11 /\ x[12] = c12
        /\ x[13] = c13 /\ x[14] = c14
    BY <1>0
  <1>2. /\ y \in Seq(S) /\ Len(y) = 14
        /\ y[1] = c1 /\ y[2] = c2 /\ y[3] = c3 /\ y[4] = c4 /\ y[5] = c5 /\ y[6] = c6
        /\ y[7] = c7 /\ y[8] = c8 /\ y[9] = c9 /\ y[10] = c10 /\ y[11] = c11 /\ y[12] = c12
        /\ y[13] = c13 /\ y[14] = c14
    BY <1>0
  <1> HIDE DEF x, y
  <1>3. ASSUME NEW i \in 1 .. Len(x) PROVE x[i] = y[i]
    <2>1. i = 1 \/ i = 2 \/ i = 3 \/ i = 4 \/ i = 5 \/ i = 6 \/ i = 7 \/ i = 8
          \/ i = 9 \/ i = 10 \/ i = 11 \/ i = 12 \/ i = 13 \/ i = 14
      BY <1>1
    <2> QED BY <2>1, <1>1, <1>2
  <1>4. x = y BY <1>1, <1>2, <1>3, SeqEqual
  <1> QED BY <1>4 DEF x, y

LEMMA Flat5_1_4_1_1 ==
    ASSUME NEW c1, NEW c2, NEW c3, NEW c4, NEW c5,
           NEW c6, NEW c7, NEW c8, NEW c9, NEW c10,
           NEW c11, NEW c12
    PROVE  <<c1, c2, c3, c4, c5>> \o <<c6>>
           \o <<c7, c8, c9, c10>> \o <<c11>>
           \o <<c12>>
           = <<c1, c2, c3, c4, c5, c6, c7, c8, c9, c10, c11, c12>>
  <1> DEFINE S == {c1, c2, c3, c4, c5, c6, c7, c8, c9, c10, c11, c12}
             x == <<c1, c2, c3, c4, c5>> \o <<c6>>
           \o <<c7, c8, c9, c10>> \o <<c11>>
           \o <<c12>>
             y == <<c1, c2, c3, c4, c5, c6, c7, c8, c9, c10, c11, c12>>
  <1>0. c1 \in S /\ c2 \in S /\ c3 \in S /\ c4 \in S /\ c5 \in S /\ c6 \in S
        /\ c7 \in S /\ c8 \in S /\ c9 \in S /\ c10 \in S /\ c11 \in S /\ c12 \in S
    OBVIOUS
  <1> HIDE DEF S
  <1>1. /\ x \in Seq(S) /\ Len(x) = 12
        /\ x[1] = c1 /\ x[2] = c2 /\ x[3] = c3 /\ x[4] = c4 /\ x[5] = c5 /\ x[6] = c6
        /\ x[7] = c7 /\ x[8] = c8 /\ x[9] = c9 /\ x[10] = c10 /\ x[11] = c11 /\ x[12] = c12
    BY <1>0
  <1>2. /\ y \in Seq(S) /\ Len(y) = 12
        /\ y[1] = c1 /\ y[2] = c2 /\ y[3] = c3 /\ y[4] = c4 /\ y[5] = c5 /\ y[6] = c6
        /\ y[7] = c7 /\ y[8] = c8 /\ y[9] = c9 /\ y[10] = c10 /\ y[11] = c11 /\ y[12] = c12
    BY <1>0
  <1> HIDE DEF x, y
  <1>3. ASSUME NEW i \in 1 .. Len(x) PROVE x[i] = y[i]
    <2>1. i = 1 \/ i = 2 \/ i = 3 \/ i = 4 \/ i = 5 \/ i = 6 \/ i = 7 \/ i = 8
          \/ i = 9 \/ i = 10 \/ i = 11 \/ i = 12
      BY <1>1
    <2> QED BY <2>1, <1>1, <1>2
  <1>4. x = y BY <1>1, <1>2, <1>3, SeqEqual
  <1> QED BY <1>4 DEF x, y

LEMMA Flat12_1_4_3_1 ==
    ASSUME NEW c1, NEW c2, NEW c3, NEW c4, NEW c5,
           NEW c6, NEW c7, NEW c8, NEW c9, NEW c10,
           NEW c11, NEW c12, NEW c13, NEW c14, NEW c15,
           NEW c16, NEW c17, NEW c18, NEW c19, NEW c20,
           NEW c21
    PROVE  <<c1, c2, c3, c4, c5, c6, c7, c8, c9, c10, c11, c12>> \o <<c13>>
           \o <<c14, c15, c16, c17>> \o <<c18, c19, c20>>
           \o <<c21>>
           = <<c1, c2, c3, c4, c5, c6, c7, c8, c9, c10, c11, c12, c13, c14,
               c15, c16, c17, c18, c19, c20, c21>>
  <1> DEFINE S == {c1, c2, c3, c4, c5, c6, c7, c8, c9, c10, c11, c12, c13, c14,
               c15, c16, c17, c18, c19, c20, c21}
             x == <<c1, c2, c3, c4, c5, c6, c7, c8, c9, c10, c11, c12>> \o <<c13>>
           \o <<c14, c15, c16, c17>> \o <<c18, c19, c20>>
           \o <<c21>>
             y == <<c1, c2, c3, c4, c5, c6, c7, c8, c9, c10, c11, c12, c13, c14,
               c15, c16, c17, c18, c19, c20, c21>>
  <1>0. c1 \in S /\ c2 \in S /\ c3 \in S /\ c4 \in S /\ c5 \in S /\ c6 \in S
        /\ c7 \in S /\ c8 \in S /\ c9 \in S /\ c10 \in S /\ c11 \in S /\ c12 \in S
        /\ c13 \in S /\ c14 \in S /\ c15 \in S /\ c16 \in S /\ c17 \in S /\ c18 \in S
        /\ c19 \in S /\ c20 \in S /\ c21 \in S
    OBVIOUS
  <1> HIDE DEF S
  <1>1. /\ x \in Seq(S) /\ Len(x) = 21
        /\ x[1] = c1 /\ x[2] = c2 /\ x[3] = c3 /\ x[4] = c4 /\ x[5] = c5 /\ x[6] = c6
        /\ x[7] = c7 /\ x[8] = c8 /\ x[9] = c9 /\ x[10] = c10 /\ x[11] = c11 /\ x[12] = c12
        /\ x[13] = c13 /\ x[14] = c14 /\ x[15] = c15 /\ x[16] = c16 /\ x[17] = c17 /\ x[18] = c18
        /\ x[19] = c19 /\ x[20] = c20 /\ x[21] = c21
    BY <1>0
  <1>2. /\ y \in Seq(S) /\ Len(y) = 21
        /\ y[1] = c1 /\ y[2] = c2 /\ y[3] = c3 /\ y[4] = c4 /\ y[5] = c5 /\ y[6] = c6
        /\ y[7] = c7 /\ y[8] = c8 /\ y[9] = c9 /\ y[10] = c10 /\ y[11] = c11 /\ y[12] = c12
        /\ y[13] = c13 /\ y[14] = c14 /\ y[15] = c15 /\ y[16] = c16 /\ y[17] = c17 /\ y[18] = c18
        /\ y[19] = c19 /\ y[20] = c20 /\ y[21] = c21
    BY <1>0
  <1> HIDE DEF x, y
  <1>3. ASSUME NEW i \in 1 .. Len(x) PROVE x[i] = y[i]
    <2>1. i = 1 \/ i = 2 \/ i = 3 \/ i = 4 \/ i = 5 \/ i = 6 \/ i = 7 \/ i = 8
          \/ i = 9 \/ i = 10 \/ i = 11 \/ i = 12 \/ i = 13 \/ i = 14 \/ i = 15 \/ i = 16
          \/ i = 17 \/ i = 18 \/ i = 19 \/ i = 20 \/ i = 21
      BY <1>1
    <2> QED BY <2>1, <1>1, <1>2
  <1>4. x = y BY <1>1, <1>2, <1>3, SeqEqual
  <1> QED BY <1>4 DEF x, y

LEMMA Flat21_2_1_1 ==
    ASSUME NEW c1, NEW c2, NEW c3, NEW c4, NEW c5,
           NEW c6, NEW c7, NEW c8, NEW c9, NEW c10,
           NEW c11, NEW c12, NEW c13, NEW c14, NEW c15,
           NEW c16, NEW c17, NEW c18, NEW c19, NEW c20,
           NEW c21, NEW c22, NEW c23, NEW c24, NEW c25
    PROVE  <<c1, c2, c3, c4, c5, c6, c7, c8, c9, c10, c11, c12, c13, c14, c15,
             c16, c17, c18, c19, c20, c21>> \o <<c22, c23>>
           \o <<c24>> \o <<c25>>
           = <<c1, c2, c3, c4, c5, c6, c7, c8, c9, c10, c11, c12, c13, c14,
               c15, c16, c17, c18, c19, c20, c21, c22, c23, c24, c25>>
  <1> DEFINE S == {c1, c2, c3, c4, c5, c6, c7, c8, c9, c10, c11, c12, c13, c14,
               c15, c16, c17, c18, c19, c20, c21, c22, c23, c24, c25}
             x == <<c1, c2, c3, c4, c5, c6, c7, c8, c9, c10, c11, c12, c13, c14, c15,
                    c16, c17, c18, c19, c20, c21>> \o <<c22, c23>>
           \o <<c24>> \o <<c25>>
             y == <<c1, c2, c3, c4, c5, c6, c7, c8, c9, c10, c11, c12, c13, c14,
               c15, c16, c17, c18, c19, c20, c21, c22, c23, c24, c25>>
  <1>0. c1 \in S /\ c2 \in S /\ c3 \in S /\ c4 \in S /\ c5 \in S /\ c6 \in S
        /\ c7 \in S /\ c8 \in S /\ c9 \in S /\ c10 \in S /\ c11 \in S /\ c12 \in S
        /\ c13 \in S /\ c14 \in S /\ c15 \in S /\ c16 \in S /\ c17 \in S /\ c18 \in S
        /\ c19 \in S /\ c20 \in S /\ c21 \in S /\ c22 \in S /\ c23 \in S /\ c24 \in S
        /\ c25 \in S
    OBVIOUS
  <1> HIDE DEF S
  <1>1. /\ x \in Seq(S) /\ Len(x) = 25
        /\ x[1] = c1 /\ x[2] = c2 /\ x[3] = c3 /\ x[4] = c4 /\ x[5] = c5 /\ x[6] = c6
        /\ x[7] = c7 /\ x[8] = c8 /\ x[9] = c9 /\ x[10] = c10 /\ x[11] = c11 /\ x[12] = c12
        /\ x[13] = c13 /\ x[14] = c14 /\ x[15] = c15 /\ x[16] = c16 /\ x[17] = c17 /\ x[18] = c18
        /\ x[19] = c19 /\ x[20] = c20 /\ x[21] = c21 /\ x[22] = c22 /\ x[23] = c23 /\ x[24] = c24
        /\ x[25] = c25
    BY <1>0
  <1>2. /\ y \in Seq(S) /\ Len(y) = 25
        /\ y[1] = c1 /\ y[2] = c2 /\ y[3] = c3 /\ y[4] = c4 /\ y[5] = c5 /\ y[6] = c6
        /\ y[7] = c7 /\ y[8] = c8 /\ y[9] = c9 /\ y[10] = c10 /\ y[11] = c11 /\ y[12] = c12
        /\ y[13] = c13 /\ y[14] = c14 /\ y[15] = c15 /\ y[16] = c16 /\ y[17] = c17 /\ y[18] = c18
        /\ y[19] = c19 /\ y[20] = c20 /\ y[21] = c21 /\ y[22] = c22 /\ y[23] = c23 /\ y[24] = c24
        /\ y[25] = c25
    BY <1>0
  <1> HIDE DEF x, y
  <1>3. ASSUME NEW i \in 1 .. Len(x) PROVE x[i] = y[i]
    <2>1. i = 1 \/ i = 2 \/ i = 3 \/ i = 4 \/ i = 5 \/ i = 6 \/ i = 7 \/ i = 8
          \/ i = 9 \/ i = 10 \/ i = 11 \/ i = 12 \/ i = 13 \/ i = 14 \/ i = 15 \/ i = 16
          \/ i = 17 \/ i = 18 \/ i = 19 \/ i = 20 \/ i = 21 \/ i = 22 \/ i = 23 \/ i = 24
          \/ i = 25
      BY <1>1
    <2> QED BY <2>1, <1>1, <1>2
  <1>4. x = y BY <1>1, <1>2, <1>3, SeqEqual
  <1> QED BY <1>4 DEF x, y

LEMMA Flat1_3 ==
    ASSUME NEW c1, NEW c2, NEW c3, NEW c4
    PROVE  <<c1>> \o <<c2, c3, c4>>
           = <<c1, c2, c3, c4>>
  <1> DEFINE S == {c1, c2, c3, c4}
             x == <<c1>> \o <<c2, c3, c4>>
             y == <<c1, c2, c3, c4>>
  <1>0. c1 \in S /\ c2 \in S /\ c3 \in S /\ c4 \in S
    OBVIOUS
  <1> HIDE DEF S
  <1>1. /\ x \in Seq(S) /\ Len(x) = 4
        /\ x[1] = c1 /\ x[2] = c2 /\ x[3] = c3 /\ x[4] = c4
    BY <1>0
  <1>2. /\ y \in Seq(S) /\ Len(y) = 4
        /\ y[1] = c1 /\ y[2] = c2 /\ y[3] = c3 /\ y[4] = c4
    BY <1>0
  <1> HIDE DEF x, y
  <1>3. ASSUME NEW i \in 1 .. Len(x) PROVE x[i] = y[i]
    <2>1. i = 1 \/ i = 2 \/ i = 3 \/ i = 4
      BY <1>1
    <2> QED BY <2>1, <1>1, <1>2
  <1>4. x = y BY <1>1, <1>2, <1>3, SeqEqual
  <1> QED BY <1>4 DEF x, y

LEMMA Flat5_1_1_1_1 ==
    ASSUME NEW c1, NEW c2, NEW c3, NEW c4, NEW c5,
           NEW c6, NEW c7, NEW c8, NEW c9
    PROVE  <<c1, c2, c3, c4, c5>> \o <<c6>>
           \o <<c7>> \o <<c8>>
           \o <<c9>>
           = <<c1, c2, c3, c4, c5, c6, c7, c8, c9>>
  <1> DEFINE S == {c1, c2, c3, c4, c5, c6, c7, c8, c9}
             x == <<c1, c2, c3, c4, c5>> \o <<c6>>
           \o <<c7>> \o <<c8>>
           \o <<c9>>
             y == <<c1, c2, c3, c4, c5, c6, c7, c8, c9>>
  <1>0. c1 \in S /\ c2 \in S /\ c3 \in S /\ c4 \in S /\ c5 \in S /\ c6 \in S
        /\ c7 \in S /\ c8 \in S /\ c9 \in S
    OBVIOUS
  <1> HIDE DEF S
  <1>1. /\ x \in Seq(S) /\ Len(x) = 9
        /\ x[1] = c1 /\ x[2] = c2 /\ x[3] = c3 /\ x[4] = c4 /\ x[5] = c5 /\ x[6] = c6
        /\ x[7] = c7 /\ x[8] = c8 /\ x[9] = c9
    BY <1>0
  <1>2. /\ y \in Seq(S) /\ Len(y) = 9
        /\ y[1] = c1 /\ y[2] = c2 /\ y[3] = c3 /\ y[4] = c4 /\ y[5] = c5 /\ y[6] = c6
        /\ y[7] = c7 /\ y[8] = c8 /\ y[9] = c9
    BY <1>0
  <1> HIDE DEF x, y
  <1>3. ASSUME NEW i \in 1 .. Len(x) PROVE x[i] = y[i]
    <2>1. i = 1 \/ i = 2 \/ i = 3 \/ i = 4 \/ i = 5 \/ i = 6 \/ i = 7 \/ i = 8
          \/ i = 9
      BY <1>1
    <2> QED BY <2>1, <1>1, <1>2
  <1>4. x = y BY <1>1, <1>2, <1>3, SeqEqual
  <1> QED BY <1>4 DEF x, y

LEMMA Flat9_4_4_1_2 ==
    ASSUME NEW c1, NEW c2, NEW c3, NEW c4, NEW c5,
           NEW c6, NEW c7, NEW c8, NEW c9, NEW c10,
           NEW c11, NEW c12, NEW c13, NEW c14, NEW c15,
           NEW c16, NEW c17, NEW c18, NEW c19, NEW c20
    PROVE  <<c1, c2, c3, c4, c5, c6, c7, c8, c9>> \o <<c10, c11, c12, c13>>
           \o <<c14, c15, c16, c17>> \o <<c18>>
           \o <<c19, c20>>
           = <<c1, c2, c3, c4, c5, c6, c7, c8, c9, c10, c11, c12, c13, c14,
               c15, c16, c17, c18, c19, c20>>
  <1> DEFINE S == {c1, c2, c3, c4, c5, c6, c7, c8, c9, c10, c11, c12, c13, c14,
               c15, c16, c17, c18, c19, c20}
             x == <<c1, c2, c3, c4, c5, c6, c7, c8, c9>> \o <<c10, c11, c12, c13>>
           \o <<c14, c15, c16, c17>> \o <<c18>>
           \o <<c19, c20>>
             y == <<c1, c2, c3, c4, c5, c6, c7, c8, c9, c10, c11, c12, c13, c14,
               c15, c16, c17, c18, c19, c20>>
  <1>0. c1 \in S /\ c2 \in S /\ c3 \in S /\ c4 \in S /\ c5 \in S /\ c6 \in S
        /\ c7 \in S /\ c8 \in S /\ c9 \in S /\ c10 \in S /\ c11 \in S /\ c12 \in S
        /\ c13 \in S /\ c14 \in S /\ c15 \in S /\ c16 \in S /\ c17 \in S /\ c18 \in S
        /\ c19 \in S /\ c20 \in S
    OBVIOUS
  <1> HIDE DEF S
  <1>1. /\ x \in Seq(S) /\ Len(x) = 20
        /\ x[1] = c1 /\ x[2] = c2 /\ x[3] = c3 /\ x[4] = c4 /\ x[5] = c5 /\ x[6] = c6
        /\ x[7] = c7 /\ x[8] = c8 /\ x[9] = c9 /\ x[10] = c10 /\ x[11] = c11 /\ x[12] = c12
        /\ x[13] = c13 /\ x[14] = c14 /\ x[15] = c15 /\ x[16] = c16 /\ x[17] = c17 /\ x[18] = c18
        /\ x[19] = c19 /\ x[20] = c20
    BY <1>0
  <1>2. /\ y \in Seq(S) /\ Len(y) = 20
        /\ y[1] = c1 /\ y[2] = c2 /\ y[3] = c3 /\ y[4] = c4 /\ y[5] = c5 /\ y[6] = c6
        /\ y[7] = c7 /\ y[8] = c8 /\ y[9] = c9 /\ y[10] = c10 /\ y[11] = c11 /\ y[12] = c12
        /\ y[13] = c13 /\ y[14] = c14 /\ y[15] = c15 /\ y[16] = c16 /\ y[17] = c17 /\ y[18] = c18
        /\ y[19] = c19 /\ y[20] = c20
    BY <1>0
  <1> HIDE DEF x, y
  <1>3. ASSUME NEW i \in 1 .. Len(x) PROVE x[i] = y[i]
    <2>1. i = 1 \/ i = 2 \/ i = 3 \/ i = 4 \/ i = 5 \/ i = 6 \/ i = 7 \/ i = 8
          \/ i = 9 \/ i = 10 \/ i = 11 \/ i = 12 \/ i = 13 \/ i = 14 \/ i = 15 \/ i = 16
          \/ i = 17 \/ i = 18 \/ i = 19 \/ i = 20
      BY <1>1
    <2> QED BY <2>1, <1>1, <1>2
  <1>4. x = y BY <1>1, <1>2, <1>3, SeqEqual
  <1> QED BY <1>4 DEF x, y

LEMMA Flat20_1_1_4_2 ==
    ASSUME NEW c1, NEW c2, NEW c3, NEW c4, NEW c5,
           NEW c6, NEW c7, NEW c8, NEW c9, NEW c10,
           NEW c11, NEW c12, NEW c13, NEW c14, NEW c15,
           NEW c16, NEW c17, NEW c18, NEW c19, NEW c20,
           NEW c21, NEW c22, NEW c23, NEW c24, NEW c25,
           NEW c26, NEW c27, NEW c28
    PROVE  <<c1, c2, c3, c4, c5, c6, c7, c8, c9, c10, c11, c12, c13, c14, c15,
             c16, c17, c18, c19, c20>> \o <<c21>>
           \o <<c22>> \o <<c23, c24, c25, c26>>
           \o <<c27, c28>>
           = <<c1, c2, c3, c4, c5, c6, c7, c8, c9, c10, c11, c12, c13, c14,
               c15, c16, c17, c18, c19, c20, c21, c22, c23, c24, c25, c26, c27, c28>>
  <1> DEFINE S == {c1, c2, c3, c4, c5, c6, c7, c8, c9, c10, c11, c12, c13, c14,
               c15, c16, c17, c18, c19, c20, c21, c22, c23, c24, c25, c26, c27, c28}
             x == <<c1, c2, c3, c4, c5, c6, c7, c8, c9, c10, c11, c12, c13, c14, c15,
                    c16, c17, c18, c19, c20>> \o <<c21>>
           \o <<c22>> \o <<c23, c24, c25, c26>>
           \o <<c27, c28>>
             y == <<c1, c2, c3, c4, c5, c6, c7, c8, c9, c10, c11, c12, c13, c14,
               c15, c16, c17, c18, c19, c20, c21, c22, c23, c24, c25, c26, c27, c28>>
  <1>0. c1 \in S /\ c2 \in S /\ c3 \in S /\ c4 \in S /\ c5 \in S /\ c6 \in S
        /\ c7 \in S /\ c8 \in S /\ c9 \in S /\ c10 \in S /\ c11 \in S /\ c12 \in S
        /\ c13 \in S /\ c14 \in S /\ c15 \in S /\ c16 \in S /\ c17 \in S /\ c18 \in S
        /\ c19 \in S /\ c20 \in S /\ c21 \in S /\ c22 \in S /\ c23 \in S /\ c24 \in S
        /\ c25 \in S /\ c26 \in S /\ c27 \in S /\ c28 \in S
    OBVIOUS
  <1> HIDE DEF S
  <1>1. /\ x \in Seq(S) /\ Len(x) = 28
        /\ x[1] = c1 /\ x[2] = c2 /\ x[3] = c3 /\ x[4] = c4 /\ x[5] = c5 /\ x[6] = c6
        /\ x[7] = c7 /\ x[8] = c8 /\ x[9] = c9 /\ x[10] = c10 /\ x[11] = c11 /\ x[12] = c12
        /\ x[13] = c13 /\ x[14] = c14 /\ x[15] = c15 /\ x[16] = c16 /\ x[17] = c17 /\ x[18] = c18
        /\ x[19] = c19 /\ x[20] = c20 /\ x[21] = c21 /\ x[22] = c22 /\ x[23] = c23 /\ x[24] = c24
        /\ x[25] = c25 /\ x[26] = c26 /\ x[27] = c27 /\ x[28] = c28
    BY <1>0
  <1>2. /\ y \in Seq(S) /\ Len(y) = 28
        /\ y[1] = c1 /\ y[2] = c2 /\ y[3] = c3 /\ y[4] = c4 /\ y[5] = c5 /\ y[6] = c6
        /\ y[7] = c7 /\ y[8] = c8 /\ y[9] = c9 /\ y[10] = c10 /\ y[11] = c11 /\ y[12] = c12
        /\ y[13] = c13 /\ y[14] = c14 /\ y[15] = c15 /\ y[16] = c16 /\ y[17] = c17 /\ y[18] = c18
        /\ y[19] = c19 /\ y[20] = c20 /\ y[21] = c21 /\ y[22] = c22 /\ y[23] = c23 /\ y[24] = c24
        /\ y[25] = c25 /\ y[26] = c26 /\ y[27] = c27 /\ y[28] = c28
    BY <1>0
  <1> HIDE DEF x, y
  <1>3. ASSUME NEW i \in 1 .. Len(x) PROVE x[i] = y[i]
    <2>1. i = 1 \/ i = 2 \/ i = 3 \/ i = 4 \/ i = 5 \/ i = 6 \/ i = 7 \/ i = 8
          \/ i = 9 \/ i = 10 \/ i = 11 \/ i = 12 \/ i = 13 \/ i = 14 \/ i = 15 \/ i = 16
          \/ i = 17 \/ i = 18 \/ i = 19 \/ i = 20 \/ i = 21 \/ i = 22 \/ i = 23 \/ i = 24
          \/ i = 25 \/ i = 26 \/ i = 27 \/ i = 28
      BY <1>1
    <2> QED BY <2>1, <1>1, <1>2, ZenonT(60)
  <1>4. x = y BY <1>1, <1>2, <1>3, SeqEqual
  <1> QED BY <1>4 DEF x, y

LEMMA Flat28_1_1 ==
    ASSUME NEW c1, NEW c2, NEW c3, NEW c4, NEW c5,
           NEW c6, NEW c7, NEW c8, NEW c9, NEW c10,
           NEW c11, NEW c12, NEW c13, NEW c14, NEW c15,
           NEW c16, NEW c17, NEW c18, NEW c19, NEW c20,
           NEW c21, NEW c22, NEW c23, NEW c24, NEW c25,
           NEW c26, NEW c27, NEW c28, NEW c29, NEW c30
    PROVE  <<c1, c2, c3, c4, c5, c6, c7, c8, c9, c10, c11, c12, c13, c14, c15,
             c16, c17, c18, c19, c20, c21, c22, c23, c24, c25, c26, c27, c28>> \o <<c29>>
           \o <<c30>>
           = <<c1, c2, c3, c4, c5, c6, c7, c8, c9, c10, c11, c12, c13, c14,
               c15, c16, c17, c18, c19, c20, c21, c22, c23, c24, c25, c26, c27, c28,
               c29, c30>>
  <1> DEFINE S == {c1, c2, c3, c4, c5, c6, c7, c8, c9, c10, c11, c12, c13, c14,
               c15, c16, c17, c18, c19, c20, c21, c22, c23, c24, c25, c26, c27, c28,
               c29, c30}
             x == <<c1, c2, c3, c4, c5, c6, c7, c8, c9, c10, c11, c12, c13, c14, c15,
                    c16, c17, c18, c19, c20, c21, c22, c23, c24, c25, c26, c27, c28>> \o <<c29>>
           \o <<c30>>
             y == <<c1, c2, c3, c4, c5, c6, c7, c8, c9, c10, c11, c12, c13, c14,
               c15, c16, c17, c18, c19, c20, c21, c22, c23, c24, c25, c26, c27, c28,
               c29, c30>>
  <1>0. c1 \in S /\ c2 \in S /\ c3 \in S /\ c4 \in S /\ c5 \in S /\ c6 \in S
        /\ c7 \in S /\ c8 \in S /\ c9 \in S /\ c10 \in S /\ c11 \in S /\ c12 \in S
        /\ c13 \in S /\ c14 \in S /\ c15 \in S /\ c16 \in S /\ c17 \in S /\ c18 \in S
        /\ c19 \in S /\ c20 \in S /\ c21 \in S /\ c22 \in S /\ c23 \in S /\ c24 \in S
        /\ c25 \in S /\ c26 \in S /\ c27 \in S /\ c28 \in S /\ c29 \in S /\ c30 \in S
    OBVIOUS
  <1> HIDE DEF S
  <1>1. /\ x \in Seq(S) /\ Len(x) = 30
        /\ x[1] = c1 /\ x[2] = c2 /\ x[3] = c3 /\ x[4] = c4 /\ x[5] = c5 /\ x[6] = c6
        /\ x[7] = c7 /\ x[8] = c8 /\ x[9] = c9 /\ x[10] = c10 /\ x[11] = c11 /\ x[12] = c12
        /\ x[13] = c13 /\ x[14] = c14 /\ x[15] = c15 /\ x[16] = c16 /\ x[17] = c17 /\ x[18] = c18
        /\ x[19] = c19 /\ x[20] = c20 /\ x[21] = c21 /\ x[22] = c22 /\ x[23] = c23 /\ x[24] = c24
        /\ x[25] = c25 /\ x[26] = c26 /\ x[27] = c27 /\ x[28] = c28 /\ x[29] = c29 /\ x[30] = c30
    BY <1>0
  <1>2. /\ y \in Seq(S) /\ Len(y) = 30
        /\ y[1] = c1 /\ y[2] = c2 /\ y[3] = c3 /\ y[4] = c4 /\ y[5] = c5 /\ y[6] = c6
        /\ y[7] = c7 /\ y[8] = c8 /\ y[9] = c9 /\ y[10] = c10 /\ y[11] = c11 /\ y[12] = c12
        /\ y[13] = c13 /\ y[14] = c14 /\ y[15] = c15 /\ y[16] = c16 /\ y[17] = c17 /\ y[18] = c18
        /\ y[19] = c19 /\ y[20] = c20 /\ y[21] = c21 /\ y[22] = c22 /\ y[23] = c23 /\ y[24] = c24
        /\ y[25] = c25 /\ y[26] = c26 /\ y[27] = c27 /\ y[28] = c28 /\ y[29] = c29 /\ y[30] = c30
    BY <1>0
  <1> HIDE DEF x, y
  <1>3. ASSUME NEW i \in 1 .. Len(x) PROVE x[i] = y[i]
    <2>1. i = 1 \/ i = 2 \/ i = 3 \/ i = 4 \/ i = 5 \/ i = 6 \/ i = 7 \/ i = 8
          \/ i = 9 \/ i = 10 \/ i = 11 \/ i = 12 \/ i = 13 \/ i = 14 \/ i = 15 \/ i = 16
          \/ i = 17 \/ i = 18 \/ i = 19 \/ i = 20 \/ i = 21 \/ i = 22 \/ i = 23 \/ i = 24
          \/ i = 25 \/ i = 26 \/ i = 27 \/ i = 28 \/ i = 29 \/ i = 30
      BY <1>1
    <2> QED BY <2>1, <1>1, <1>2, ZenonT(60)
  <1>4. x = y BY <1>1, <1>2, <1>3, SeqEqual
  <1> QED BY <1>4 DEF x, y

LEMMA Flat2_3 ==
    ASSUME NEW c1, NEW c2, NEW c3, NEW c4, NEW c5
    PROVE  <<c1, c2>> \o <<c3, c4, c5>>
           = <<c1, c2, c3, c4, c5>>
  <1> DEFINE S == {c1, c2, c3, c4, c5}
             x == <<c1, c2>> \o <<c3, c4, c5>>
             y == <<c1, c2, c3, c4, c5>>
  <1>0. c1 \in S /\ c2 \in S /\ c3 \in S /\ c4 \in S /\ c5 \in S
    OBVIOUS
  <1> HIDE DEF S
  <1>1. /\ x \in Seq(S) /\ Len(x) = 5
        /\ x[1] = c1 /\ x[2] = c2 /\ x[3] = c3 /\ x[4] = c4 /\ x[5] = c5
    BY <1>0
  <1>2. /\ y \in Seq(S) /\ Len(y) = 5
        /\ y[1] = c1 /\ y[2] = c2 /\ y[3] = c3 /\ y[4] = c4 /\ y[5] = c5
    BY <1>0
  <1> HIDE DEF x, y
  <1>3. ASSUME NEW i \in 1 .. Len(x) PROVE x[i] = y[i]
    <2>1. i = 1 \/ i = 2 \/ i = 3 \/ i = 4 \/ i = 5
      BY <1>1
    <2> QED BY <2>1, <1>1, <1>2
  <1>4. x = y BY <1>1, <1>2, <1>3, SeqEqual
  <1> QED BY <1>4 DEF x, y

LEMMA Flat2_5 ==
    ASSUME NEW c1, NEW c2, NEW c3, NEW c4, NEW c5,
           NEW c6, NEW c7
    PROVE  <<c1, c2>> \o <<c3, c4, c5, c6, c7>>
           = <<c1, c2, c3, c4, c5, c6, c7>>
  <1> DEFINE S == {c1, c2, c3, c4, c5, c6, c7}
             x == <<c1, c2>> \o <<c3, c4, c5, c6, c7>>
             y == <<c1, c2, c3, c4, c5, c6, c7>>
  <1>0. c1 \in S /\ c2 \in S /\ c3 \in S /\ c4 \in S /\ c5 \in S /\ c6 \in S
        /\ c7 \in S
    OBVIOUS
  <1> HIDE DEF S
  <1>1. /\ x \in Seq(S) /\ Len(x) = 7
        /\ x[1] = c1 /\ x[2] = c2 /\ x[3] = c3 /\ x[4] = c4 /\ x[5] = c5 /\ x[6] = c6
        /\ x[7] = c7
    BY <1>0
  <1>2. /\ y \in Seq(S) /\ Len(y) = 7
        /\ y[1] = c1 /\ y[2] = c2 /\ y[3] = c3 /\ y[4] = c4 /\ y[5] = c5 /\ y[6] = c6
        /\ y[7] = c7
    BY <1>0
  <1> HIDE DEF x, y
  <1>3. ASSUME NEW i \in 1 .. Len(x) PROVE x[i] = y[i]
    <2>1. i = 1 \/ i = 2 \/ i = 3 \/ i = 4 \/ i = 5 \/ i = 6 \/ i = 7
      BY <1>1
    <2> QED BY <2>1, <1>1, <1>2
  <1>4. x = y BY <1>1, <1>2, <1>3, SeqEqual
  <1> QED BY <1>4 DEF x, y

(* The parts of the workflows and the workflows themselves, as literal      *)
(* lists (native_run.py, native_retained.py, native_application.py).        *)
LEMMA FixtureCalls ==
    Fixture =
       << <<"each">>, Asks("bootstrap", "control", "none", 0, All, All),
          Asks("verify", "control", "none", 0, {}, {}),
          Asks("baseline", "control", "none", 0, All, All), <<"mark">> >>
  <1>1. << <<"each">> >>
       \o << Asks("bootstrap", "control", "none", 0, All, All) >>
       \o << Asks("verify", "control", "none", 0, {}, {}) >>
       \o << Asks("baseline", "control", "none", 0, All, All) >>
       \o << <<"mark">> >>
      = << <<"each">>, Asks("bootstrap", "control", "none", 0, All, All),
           Asks("verify", "control", "none", 0, {}, {}),
           Asks("baseline", "control", "none", 0, All, All), <<"mark">> >>
    BY Flat1_1_1_1_1, ZenonT(60)
  <1>2. Fixture =
       << <<"each">> >>
       \o << Asks("bootstrap", "control", "none", 0, All, All) >>
       \o << Asks("verify", "control", "none", 0, {}, {}) >>
       \o << Asks("baseline", "control", "none", 0, All, All) >>
       \o << <<"mark">> >>
    BY RunIs DEF Fixture, Each, Verify
  <1> QED BY ONLY <1>1, <1>2

LEMMA EffectsCalls ==
    Effects =
       << Asks("control", "control", "none", 0, All, All),
          Asks("receipt", "control", "fixture", 0, All, {"base"}),
          Asks("receipt", "control", "fixture", 0, All, {"base"}),
          Asks("verify", "control", "none", 0, {"base"}, {"base"}) >>
  <1>1. << Asks("control", "control", "none", 0, All, All) >>
       \o << Asks("receipt", "control", "fixture", 0, All, {"base"}) >>
       \o << Asks("receipt", "control", "fixture", 0, All, {"base"}) >>
       \o << Asks("verify", "control", "none", 0, {"base"}, {"base"}) >>
      = << Asks("control", "control", "none", 0, All, All),
           Asks("receipt", "control", "fixture", 0, All, {"base"}),
           Asks("receipt", "control", "fixture", 0, All, {"base"}),
           Asks("verify", "control", "none", 0, {"base"}, {"base"}) >>
    BY Flat1_1_1_1, SMTT(30)
  <1>2. Effects =
       << Asks("control", "control", "none", 0, All, All) >>
       \o << Asks("receipt", "control", "fixture", 0, All, {"base"}) >>
       \o << Asks("receipt", "control", "fixture", 0, All, {"base"}) >>
       \o << Asks("verify", "control", "none", 0, {"base"}, {"base"}) >>
    BY RunIs DEF Effects, Verify
  <1> QED BY ONLY <1>1, <1>2

LEMMA BesideCalls ==
    Beside =
       << <<"window", 1>>, <<"restore", "behind", 1>>, <<"available", "behind">>,
          Asks("verify", "behind", "none", 2, {}, {"base"}),
          Asks("verify", "control", "none", 0, All, All) >>
  <1>1. << <<"window", 1>> >>
       \o << <<"restore", "behind", 1>>, <<"available", "behind">> >>
       \o << Asks("verify", "behind", "none", 2, {}, {"base"}) >>
       \o << Asks("verify", "control", "none", 0, All, All) >>
      = << <<"window", 1>>, <<"restore", "behind", 1>>, <<"available", "behind">>,
           Asks("verify", "behind", "none", 2, {}, {"base"}),
           Asks("verify", "control", "none", 0, All, All) >>
    BY Flat1_2_1_1, SMTT(30)
  <1>2. Beside =
       << <<"window", 1>> >>
       \o << <<"restore", "behind", 1>>, <<"available", "behind">> >>
       \o << Asks("verify", "behind", "none", 2, {}, {"base"}) >>
       \o << Asks("verify", "control", "none", 0, All, All) >>
    BY RunIs DEF Beside, Verify, Restore
  <1> QED BY ONLY <1>1, <1>2

LEMMA SqlCalls ==
    Sql =
       << <<"each">>, Asks("bootstrap", "control", "none", 0, All, All),
          Asks("verify", "control", "none", 0, {}, {}),
          Asks("baseline", "control", "none", 0, All, All), <<"mark">>,
          Asks("control", "control", "none", 0, All, All),
          Asks("receipt", "control", "fixture", 0, All, {"base"}),
          Asks("receipt", "control", "fixture", 0, All, {"base"}),
          Asks("verify", "control", "none", 0, {"base"}, {"base"}), <<"window", 1>>,
          <<"restore", "behind", 1>>, <<"available", "behind">>,
          Asks("verify", "behind", "none", 2, {}, {"base"}),
          Asks("verify", "control", "none", 0, All, All) >>
  <1>1. << <<"each">>, Asks("bootstrap", "control", "none", 0, All, All),
              Asks("verify", "control", "none", 0, {}, {}),
              Asks("baseline", "control", "none", 0, All, All), <<"mark">> >>
       \o << Asks("control", "control", "none", 0, All, All),
              Asks("receipt", "control", "fixture", 0, All, {"base"}),
              Asks("receipt", "control", "fixture", 0, All, {"base"}),
              Asks("verify", "control", "none", 0, {"base"}, {"base"}) >>
       \o << <<"window", 1>>, <<"restore", "behind", 1>>, <<"available", "behind">>,
              Asks("verify", "behind", "none", 2, {}, {"base"}),
              Asks("verify", "control", "none", 0, All, All) >>
      = << <<"each">>, Asks("bootstrap", "control", "none", 0, All, All),
           Asks("verify", "control", "none", 0, {}, {}),
           Asks("baseline", "control", "none", 0, All, All), <<"mark">>,
           Asks("control", "control", "none", 0, All, All),
           Asks("receipt", "control", "fixture", 0, All, {"base"}),
           Asks("receipt", "control", "fixture", 0, All, {"base"}),
           Asks("verify", "control", "none", 0, {"base"}, {"base"}), <<"window", 1>>,
           <<"restore", "behind", 1>>, <<"available", "behind">>,
           Asks("verify", "behind", "none", 2, {}, {"base"}),
           Asks("verify", "control", "none", 0, All, All) >>
    BY Flat5_4_5, SMTT(30)
  <1>2. Sql =
       << <<"each">>, Asks("bootstrap", "control", "none", 0, All, All),
              Asks("verify", "control", "none", 0, {}, {}),
              Asks("baseline", "control", "none", 0, All, All), <<"mark">> >>
       \o << Asks("control", "control", "none", 0, All, All),
              Asks("receipt", "control", "fixture", 0, All, {"base"}),
              Asks("receipt", "control", "fixture", 0, All, {"base"}),
              Asks("verify", "control", "none", 0, {"base"}, {"base"}) >>
       \o << <<"window", 1>>, <<"restore", "behind", 1>>, <<"available", "behind">>,
              Asks("verify", "behind", "none", 2, {}, {"base"}),
              Asks("verify", "control", "none", 0, All, All) >>
    BY FixtureCalls, EffectsCalls, BesideCalls DEF Sql
  <1> QED BY ONLY <1>1, <1>2

LEMMA RetainedCalls ==
    Retained =
       << <<"each">>, Asks("bootstrap", "control", "none", 0, All, All),
          Asks("verify", "control", "none", 0, {}, {}),
          Asks("baseline", "control", "none", 0, All, All), <<"mark">>, <<"window", 1>>,
          Asks("control", "control", "none", 0, All, All),
          Asks("receipt", "control", "fixture", 0, All, {"base"}),
          Asks("receipt", "control", "fixture", 0, All, {"base"}),
          Asks("verify", "control", "none", 0, {"base"}, {"base"}), <<"both">>,
          <<"window", 1>>, Asks("verify", "control", "none", 0, {"base"}, {"base"}),
          <<"freeze">>, <<"tag">>, <<"register">>, <<"checkpoint">>,
          <<"unprotect", "control">>, <<"delete", "control">>, <<"gone", "control">>,
          <<"retained">>, <<"restore", "behind", 1>>, <<"available", "behind">>,
          Asks("verify", "behind", "none", 2, {}, {"base"}),
          Asks("verify", "behind", "none", 2, {}, {"base"}) >>
  <1>1. << <<"each">>, Asks("bootstrap", "control", "none", 0, All, All),
              Asks("verify", "control", "none", 0, {}, {}),
              Asks("baseline", "control", "none", 0, All, All), <<"mark">> >>
       \o << <<"window", 1>> >>
       \o << Asks("control", "control", "none", 0, All, All),
              Asks("receipt", "control", "fixture", 0, All, {"base"}),
              Asks("receipt", "control", "fixture", 0, All, {"base"}),
              Asks("verify", "control", "none", 0, {"base"}, {"base"}) >>
       \o << <<"both">> >>
       \o << <<"window", 1>> >>
      = << <<"each">>, Asks("bootstrap", "control", "none", 0, All, All),
           Asks("verify", "control", "none", 0, {}, {}),
           Asks("baseline", "control", "none", 0, All, All), <<"mark">>, <<"window", 1>>,
           Asks("control", "control", "none", 0, All, All),
           Asks("receipt", "control", "fixture", 0, All, {"base"}),
           Asks("receipt", "control", "fixture", 0, All, {"base"}),
           Asks("verify", "control", "none", 0, {"base"}, {"base"}), <<"both">>,
           <<"window", 1>> >>
    BY Flat5_1_4_1_1, SMTT(30)
  <1>2. << <<"each">>, Asks("bootstrap", "control", "none", 0, All, All),
              Asks("verify", "control", "none", 0, {}, {}),
              Asks("baseline", "control", "none", 0, All, All), <<"mark">>, <<"window", 1>>,
              Asks("control", "control", "none", 0, All, All),
              Asks("receipt", "control", "fixture", 0, All, {"base"}),
              Asks("receipt", "control", "fixture", 0, All, {"base"}),
              Asks("verify", "control", "none", 0, {"base"}, {"base"}), <<"both">>,
              <<"window", 1>> >>
       \o << Asks("verify", "control", "none", 0, {"base"}, {"base"}) >>
       \o << <<"freeze">>, <<"tag">>, <<"register">>, <<"checkpoint">> >>
       \o << <<"unprotect", "control">>, <<"delete", "control">>, <<"gone", "control">> >>
       \o << <<"retained">> >>
      = << <<"each">>, Asks("bootstrap", "control", "none", 0, All, All),
           Asks("verify", "control", "none", 0, {}, {}),
           Asks("baseline", "control", "none", 0, All, All), <<"mark">>, <<"window", 1>>,
           Asks("control", "control", "none", 0, All, All),
           Asks("receipt", "control", "fixture", 0, All, {"base"}),
           Asks("receipt", "control", "fixture", 0, All, {"base"}),
           Asks("verify", "control", "none", 0, {"base"}, {"base"}), <<"both">>,
           <<"window", 1>>, Asks("verify", "control", "none", 0, {"base"}, {"base"}),
           <<"freeze">>, <<"tag">>, <<"register">>, <<"checkpoint">>,
           <<"unprotect", "control">>, <<"delete", "control">>, <<"gone", "control">>,
           <<"retained">> >>
    BY Flat12_1_4_3_1, SMTT(60)
  <1>3. << <<"each">>, Asks("bootstrap", "control", "none", 0, All, All),
              Asks("verify", "control", "none", 0, {}, {}),
              Asks("baseline", "control", "none", 0, All, All), <<"mark">>, <<"window", 1>>,
              Asks("control", "control", "none", 0, All, All),
              Asks("receipt", "control", "fixture", 0, All, {"base"}),
              Asks("receipt", "control", "fixture", 0, All, {"base"}),
              Asks("verify", "control", "none", 0, {"base"}, {"base"}), <<"both">>,
              <<"window", 1>>, Asks("verify", "control", "none", 0, {"base"}, {"base"}),
              <<"freeze">>, <<"tag">>, <<"register">>, <<"checkpoint">>,
              <<"unprotect", "control">>, <<"delete", "control">>, <<"gone", "control">>,
              <<"retained">> >>
       \o << <<"restore", "behind", 1>>, <<"available", "behind">> >>
       \o << Asks("verify", "behind", "none", 2, {}, {"base"}) >>
       \o << Asks("verify", "behind", "none", 2, {}, {"base"}) >>
      = << <<"each">>, Asks("bootstrap", "control", "none", 0, All, All),
           Asks("verify", "control", "none", 0, {}, {}),
           Asks("baseline", "control", "none", 0, All, All), <<"mark">>, <<"window", 1>>,
           Asks("control", "control", "none", 0, All, All),
           Asks("receipt", "control", "fixture", 0, All, {"base"}),
           Asks("receipt", "control", "fixture", 0, All, {"base"}),
           Asks("verify", "control", "none", 0, {"base"}, {"base"}), <<"both">>,
           <<"window", 1>>, Asks("verify", "control", "none", 0, {"base"}, {"base"}),
           <<"freeze">>, <<"tag">>, <<"register">>, <<"checkpoint">>,
           <<"unprotect", "control">>, <<"delete", "control">>, <<"gone", "control">>,
           <<"retained">>, <<"restore", "behind", 1>>, <<"available", "behind">>,
           Asks("verify", "behind", "none", 2, {}, {"base"}),
           Asks("verify", "behind", "none", 2, {}, {"base"}) >>
    BY Flat21_2_1_1, SMTT(60)
  <1>4. Retained =
       << <<"each">>, Asks("bootstrap", "control", "none", 0, All, All),
              Asks("verify", "control", "none", 0, {}, {}),
              Asks("baseline", "control", "none", 0, All, All), <<"mark">> >>
       \o << <<"window", 1>> >>
       \o << Asks("control", "control", "none", 0, All, All),
              Asks("receipt", "control", "fixture", 0, All, {"base"}),
              Asks("receipt", "control", "fixture", 0, All, {"base"}),
              Asks("verify", "control", "none", 0, {"base"}, {"base"}) >>
       \o << <<"both">> >>
       \o << <<"window", 1>> >>
       \o << Asks("verify", "control", "none", 0, {"base"}, {"base"}) >>
       \o << <<"freeze">>, <<"tag">>, <<"register">>, <<"checkpoint">> >>
       \o << <<"unprotect", "control">>, <<"delete", "control">>, <<"gone", "control">> >>
       \o << <<"retained">> >>
       \o << <<"restore", "behind", 1>>, <<"available", "behind">> >>
       \o << Asks("verify", "behind", "none", 2, {}, {"base"}) >>
       \o << Asks("verify", "behind", "none", 2, {}, {"base"}) >>
    BY RunIs, FixtureCalls, EffectsCalls DEF Retained, Both, Verify, Retain, Delete, Restore
  <1> QED BY ONLY <1>1, <1>2, <1>3, <1>4

(* Deleting a database is four calls (native_retained.py:178-228).          *)
LEMMA OwnedControl ==
    DeleteOwned("control") =
       << <<"remember", "control">>, <<"unprotect", "control">>, <<"delete", "control">>,
          <<"gone", "control">> >>
  <1>1. << <<"remember", "control">> >>
       \o << <<"unprotect", "control">>, <<"delete", "control">>, <<"gone", "control">> >>
      = << <<"remember", "control">>, <<"unprotect", "control">>, <<"delete", "control">>,
           <<"gone", "control">> >>
    BY Flat1_3, SMTT(30)
  <1>2. DeleteOwned("control") =
       << <<"remember", "control">> >>
       \o << <<"unprotect", "control">>, <<"delete", "control">>, <<"gone", "control">> >>
    BY RunIs DEF DeleteOwned, Delete
  <1> QED BY ONLY <1>1, <1>2

LEMMA OwnedBehind ==
    DeleteOwned("behind") =
       << <<"remember", "behind">>, <<"unprotect", "behind">>, <<"delete", "behind">>,
          <<"gone", "behind">> >>
  <1>1. << <<"remember", "behind">> >>
       \o << <<"unprotect", "behind">>, <<"delete", "behind">>, <<"gone", "behind">> >>
      = << <<"remember", "behind">>, <<"unprotect", "behind">>, <<"delete", "behind">>,
           <<"gone", "behind">> >>
    BY Flat1_3, SMTT(30)
  <1>2. DeleteOwned("behind") =
       << <<"remember", "behind">> >>
       \o << <<"unprotect", "behind">>, <<"delete", "behind">>, <<"gone", "behind">> >>
    BY RunIs DEF DeleteOwned, Delete
  <1> QED BY ONLY <1>1, <1>2

LEMMA ApplicationCalls ==
    Application =
       << <<"claim">>, <<"both">>, Asks("bootstrap", "control", "none", 0, All, All),
          Asks("receipt", "control", "source-preflight", 0, All, All),
          Asks("baseline", "control", "none", 0, All, {"base"}), <<"select", 1>>,
          Asks("control", "control", "none", 0, All, {"base", "more"}), <<"select", 2>>,
          Asks("verify", "control", "none", 0, {"base", "more"}, {"base", "more"}),
          <<"freeze">>, <<"tag">>, <<"register">>, <<"checkpoint">>, <<"remember", "control">>,
          <<"unprotect", "control">>, <<"delete", "control">>, <<"gone", "control">>,
          <<"retained">>, <<"restore", "behind", 1>>, <<"available", "behind">>,
          Asks("receipt", "behind", "behind", 0, {"base"}, {"base", "more"}),
          Asks("verify", "behind", "none", 2, {"base"}, {"base", "more"}),
          <<"remember", "behind">>, <<"unprotect", "behind">>, <<"delete", "behind">>,
          <<"gone", "behind">>, <<"restore", "matching", 2>>, <<"available", "matching">>,
          Asks("receipt", "matching", "matching", 0, All, All),
          Asks("verify", "matching", "none", 0, Keys, Keys) >>
  <1>1. << <<"claim">> >>
       \o << <<"both">> >>
       \o << Asks("bootstrap", "control", "none", 0, All, All) >>
       \o << Asks("receipt", "control", "source-preflight", 0, All, All) >>
       \o << Asks("baseline", "control", "none", 0, All, {"base"}) >>
      = << <<"claim">>, <<"both">>, Asks("bootstrap", "control", "none", 0, All, All),
           Asks("receipt", "control", "source-preflight", 0, All, All),
           Asks("baseline", "control", "none", 0, All, {"base"}) >>
    BY Flat1_1_1_1_1, ZenonT(60)
  <1>2. << <<"claim">>, <<"both">>, Asks("bootstrap", "control", "none", 0, All, All),
              Asks("receipt", "control", "source-preflight", 0, All, All),
              Asks("baseline", "control", "none", 0, All, {"base"}) >>
       \o << <<"select", 1>> >>
       \o << Asks("control", "control", "none", 0, All, {"base", "more"}) >>
       \o << <<"select", 2>> >>
       \o << Asks("verify", "control", "none", 0, {"base", "more"}, {"base", "more"}) >>
      = << <<"claim">>, <<"both">>, Asks("bootstrap", "control", "none", 0, All, All),
           Asks("receipt", "control", "source-preflight", 0, All, All),
           Asks("baseline", "control", "none", 0, All, {"base"}), <<"select", 1>>,
           Asks("control", "control", "none", 0, All, {"base", "more"}), <<"select", 2>>,
           Asks("verify", "control", "none", 0, {"base", "more"}, {"base", "more"}) >>
    BY Flat5_1_1_1_1, SMTT(30)
  <1>3. << <<"claim">>, <<"both">>, Asks("bootstrap", "control", "none", 0, All, All),
              Asks("receipt", "control", "source-preflight", 0, All, All),
              Asks("baseline", "control", "none", 0, All, {"base"}), <<"select", 1>>,
              Asks("control", "control", "none", 0, All, {"base", "more"}), <<"select", 2>>,
              Asks("verify", "control", "none", 0, {"base", "more"}, {"base", "more"}) >>
       \o << <<"freeze">>, <<"tag">>, <<"register">>, <<"checkpoint">> >>
       \o << <<"remember", "control">>, <<"unprotect", "control">>,
              <<"delete", "control">>, <<"gone", "control">> >>
       \o << <<"retained">> >>
       \o << <<"restore", "behind", 1>>, <<"available", "behind">> >>
      = << <<"claim">>, <<"both">>, Asks("bootstrap", "control", "none", 0, All, All),
           Asks("receipt", "control", "source-preflight", 0, All, All),
           Asks("baseline", "control", "none", 0, All, {"base"}), <<"select", 1>>,
           Asks("control", "control", "none", 0, All, {"base", "more"}), <<"select", 2>>,
           Asks("verify", "control", "none", 0, {"base", "more"}, {"base", "more"}),
           <<"freeze">>, <<"tag">>, <<"register">>, <<"checkpoint">>,
           <<"remember", "control">>, <<"unprotect", "control">>, <<"delete", "control">>,
           <<"gone", "control">>, <<"retained">>, <<"restore", "behind", 1>>,
           <<"available", "behind">> >>
    BY Flat9_4_4_1_2, SMTT(30)
  <1>4. << <<"claim">>, <<"both">>, Asks("bootstrap", "control", "none", 0, All, All),
              Asks("receipt", "control", "source-preflight", 0, All, All),
              Asks("baseline", "control", "none", 0, All, {"base"}), <<"select", 1>>,
              Asks("control", "control", "none", 0, All, {"base", "more"}), <<"select", 2>>,
              Asks("verify", "control", "none", 0, {"base", "more"}, {"base", "more"}),
              <<"freeze">>, <<"tag">>, <<"register">>, <<"checkpoint">>,
              <<"remember", "control">>, <<"unprotect", "control">>, <<"delete", "control">>,
              <<"gone", "control">>, <<"retained">>, <<"restore", "behind", 1>>,
              <<"available", "behind">> >>
       \o << Asks("receipt", "behind", "behind", 0, {"base"}, {"base", "more"}) >>
       \o << Asks("verify", "behind", "none", 2, {"base"}, {"base", "more"}) >>
       \o << <<"remember", "behind">>, <<"unprotect", "behind">>, <<"delete", "behind">>,
              <<"gone", "behind">> >>
       \o << <<"restore", "matching", 2>>, <<"available", "matching">> >>
      = << <<"claim">>, <<"both">>, Asks("bootstrap", "control", "none", 0, All, All),
           Asks("receipt", "control", "source-preflight", 0, All, All),
           Asks("baseline", "control", "none", 0, All, {"base"}), <<"select", 1>>,
           Asks("control", "control", "none", 0, All, {"base", "more"}), <<"select", 2>>,
           Asks("verify", "control", "none", 0, {"base", "more"}, {"base", "more"}),
           <<"freeze">>, <<"tag">>, <<"register">>, <<"checkpoint">>,
           <<"remember", "control">>, <<"unprotect", "control">>, <<"delete", "control">>,
           <<"gone", "control">>, <<"retained">>, <<"restore", "behind", 1>>,
           <<"available", "behind">>,
           Asks("receipt", "behind", "behind", 0, {"base"}, {"base", "more"}),
           Asks("verify", "behind", "none", 2, {"base"}, {"base", "more"}),
           <<"remember", "behind">>, <<"unprotect", "behind">>, <<"delete", "behind">>,
           <<"gone", "behind">>, <<"restore", "matching", 2>>, <<"available", "matching">> >>
    BY Flat20_1_1_4_2, SMTT(120)
  <1>5. << <<"claim">>, <<"both">>, Asks("bootstrap", "control", "none", 0, All, All),
              Asks("receipt", "control", "source-preflight", 0, All, All),
              Asks("baseline", "control", "none", 0, All, {"base"}), <<"select", 1>>,
              Asks("control", "control", "none", 0, All, {"base", "more"}), <<"select", 2>>,
              Asks("verify", "control", "none", 0, {"base", "more"}, {"base", "more"}),
              <<"freeze">>, <<"tag">>, <<"register">>, <<"checkpoint">>,
              <<"remember", "control">>, <<"unprotect", "control">>, <<"delete", "control">>,
              <<"gone", "control">>, <<"retained">>, <<"restore", "behind", 1>>,
              <<"available", "behind">>,
              Asks("receipt", "behind", "behind", 0, {"base"}, {"base", "more"}),
              Asks("verify", "behind", "none", 2, {"base"}, {"base", "more"}),
              <<"remember", "behind">>, <<"unprotect", "behind">>, <<"delete", "behind">>,
              <<"gone", "behind">>, <<"restore", "matching", 2>>, <<"available", "matching">> >>
       \o << Asks("receipt", "matching", "matching", 0, All, All) >>
       \o << Asks("verify", "matching", "none", 0, Keys, Keys) >>
      = << <<"claim">>, <<"both">>, Asks("bootstrap", "control", "none", 0, All, All),
           Asks("receipt", "control", "source-preflight", 0, All, All),
           Asks("baseline", "control", "none", 0, All, {"base"}), <<"select", 1>>,
           Asks("control", "control", "none", 0, All, {"base", "more"}), <<"select", 2>>,
           Asks("verify", "control", "none", 0, {"base", "more"}, {"base", "more"}),
           <<"freeze">>, <<"tag">>, <<"register">>, <<"checkpoint">>,
           <<"remember", "control">>, <<"unprotect", "control">>, <<"delete", "control">>,
           <<"gone", "control">>, <<"retained">>, <<"restore", "behind", 1>>,
           <<"available", "behind">>,
           Asks("receipt", "behind", "behind", 0, {"base"}, {"base", "more"}),
           Asks("verify", "behind", "none", 2, {"base"}, {"base", "more"}),
           <<"remember", "behind">>, <<"unprotect", "behind">>, <<"delete", "behind">>,
           <<"gone", "behind">>, <<"restore", "matching", 2>>, <<"available", "matching">>,
           Asks("receipt", "matching", "matching", 0, All, All),
           Asks("verify", "matching", "none", 0, Keys, Keys) >>
    BY Flat28_1_1, SMTT(60)
  <1>6. Application =
       << <<"claim">> >>
       \o << <<"both">> >>
       \o << Asks("bootstrap", "control", "none", 0, All, All) >>
       \o << Asks("receipt", "control", "source-preflight", 0, All, All) >>
       \o << Asks("baseline", "control", "none", 0, All, {"base"}) >>
       \o << <<"select", 1>> >>
       \o << Asks("control", "control", "none", 0, All, {"base", "more"}) >>
       \o << <<"select", 2>> >>
       \o << Asks("verify", "control", "none", 0, {"base", "more"}, {"base", "more"}) >>
       \o << <<"freeze">>, <<"tag">>, <<"register">>, <<"checkpoint">> >>
       \o << <<"remember", "control">>, <<"unprotect", "control">>,
              <<"delete", "control">>, <<"gone", "control">> >>
       \o << <<"retained">> >>
       \o << <<"restore", "behind", 1>>, <<"available", "behind">> >>
       \o << Asks("receipt", "behind", "behind", 0, {"base"}, {"base", "more"}) >>
       \o << Asks("verify", "behind", "none", 2, {"base"}, {"base", "more"}) >>
       \o << <<"remember", "behind">>, <<"unprotect", "behind">>, <<"delete", "behind">>,
              <<"gone", "behind">> >>
       \o << <<"restore", "matching", 2>>, <<"available", "matching">> >>
       \o << Asks("receipt", "matching", "matching", 0, All, All) >>
       \o << Asks("verify", "matching", "none", 0, Keys, Keys) >>
    BY RunIs, OwnedControl, OwnedBehind DEF Application, Both, Verify, Retain, Restore
  <1> QED BY ONLY <1>1, <1>2, <1>3, <1>4, <1>5, <1>6, ZenonT(60)

(* The place at which the application workflow calls a task.                *)
Turn(c) ==
    CASE c.name = "bootstrap" -> 3
      [] c.phase = "source-preflight" -> 4
      [] c.name = "baseline" -> 5
      [] c.name = "control" -> 7
      [] c.name = "verify" /\ c.gen = "control" -> 9
      [] c.phase = "behind" -> 21
      [] c.name = "verify" /\ c.gen = "behind" -> 22
      [] c.phase = "matching" -> 29
      [] c.name = "verify" /\ c.gen = "matching" -> 30
      [] OTHER -> 31

(* Where a call of the application workflow stands.                         *)
ApplicationPlace(c, i) ==
    /\ c[1] = "claim" <=> i = 1
    /\ c[1] = "run" => Turn(c[2]) = i
    /\ i \in {5, 7} => c[1] = "run" /\ c[2].name \in {"baseline", "control"}
    /\ c[1] = "select" => i \in {6, 8}
    /\ c[1] # "mark"
    /\ i = 12 => c[1] = "register"
    /\ i = 13 => c[1] = "checkpoint"
    /\ c[1] = "restore" => \/ i = 19 /\ c[2] = "behind"
                           \/ i = 27 /\ c[2] = "matching"
    /\ c[1] = "delete" => \/ i = 16 /\ c[2] = "control"
                          \/ i = 25 /\ c[2] = "behind"
    /\ i = 21 => c = Asks("receipt", "behind", "behind", 0, {"base"}, {"base", "more"})
    /\ i = 30 => c = Asks("verify", "matching", "none", 0, Keys, Keys)

(* Where a call of the two SQL workflows stands: n is where the control     *)
(* task is called, m where the restored database has been verified, r where *)
(* it is restored, d where the source is deleted.                           *)
FixturePlace(c, i, n, r, m, d) ==
    /\ c[1] \notin {"claim", "select"}
    /\ c[1] = "run" => c[2].phase \notin Restores
    /\ (c[1] = "run" /\ c[2].name = "receipt") => n < i
    /\ i = n => c[1] = "run" /\ c[2].name = "control" /\ c[2].exit = 0
    /\ (c[1] = "run" /\ c[2].name = "control") => i = n
    /\ i = 4 => c[1] = "run" /\ c[2].name = "baseline"
    /\ c[1] = "mark" => i = 5
    /\ c[1] = "restore" => i = r /\ c[2] = "behind"
    /\ c[1] = "delete" => i = d /\ c[2] = "control"
    /\ i = m => c = Asks("verify", "behind", "none", 2, {}, {"base"})

(* The three workflows, call by call.                                       *)
LEMMA SqlIndexed ==
    /\ Len(Sql) = 14
    /\ Sql[1] = <<"each">>
    /\ Sql[2] = Asks("bootstrap", "control", "none", 0, All, All)
    /\ Sql[3] = Asks("verify", "control", "none", 0, {}, {})
    /\ Sql[4] = Asks("baseline", "control", "none", 0, All, All)
    /\ Sql[5] = <<"mark">>
    /\ Sql[6] = Asks("control", "control", "none", 0, All, All)
    /\ Sql[7] = Asks("receipt", "control", "fixture", 0, All, {"base"})
    /\ Sql[8] = Asks("receipt", "control", "fixture", 0, All, {"base"})
    /\ Sql[9] = Asks("verify", "control", "none", 0, {"base"}, {"base"})
    /\ Sql[10] = <<"window", 1>>
    /\ Sql[11] = <<"restore", "behind", 1>>
    /\ Sql[12] = <<"available", "behind">>
    /\ Sql[13] = Asks("verify", "behind", "none", 2, {}, {"base"})
    /\ Sql[14] = Asks("verify", "control", "none", 0, All, All)
  BY SqlCalls, SMTT(30)

LEMMA RetainedIndexed ==
    /\ Len(Retained) = 25
    /\ Retained[1] = <<"each">>
    /\ Retained[2] = Asks("bootstrap", "control", "none", 0, All, All)
    /\ Retained[3] = Asks("verify", "control", "none", 0, {}, {})
    /\ Retained[4] = Asks("baseline", "control", "none", 0, All, All)
    /\ Retained[5] = <<"mark">>
    /\ Retained[6] = <<"window", 1>>
    /\ Retained[7] = Asks("control", "control", "none", 0, All, All)
    /\ Retained[8] = Asks("receipt", "control", "fixture", 0, All, {"base"})
    /\ Retained[9] = Asks("receipt", "control", "fixture", 0, All, {"base"})
    /\ Retained[10] = Asks("verify", "control", "none", 0, {"base"}, {"base"})
    /\ Retained[11] = <<"both">>
    /\ Retained[12] = <<"window", 1>>
    /\ Retained[13] = Asks("verify", "control", "none", 0, {"base"}, {"base"})
    /\ Retained[14] = <<"freeze">>
    /\ Retained[15] = <<"tag">>
    /\ Retained[16] = <<"register">>
    /\ Retained[17] = <<"checkpoint">>
    /\ Retained[18] = <<"unprotect", "control">>
    /\ Retained[19] = <<"delete", "control">>
    /\ Retained[20] = <<"gone", "control">>
    /\ Retained[21] = <<"retained">>
    /\ Retained[22] = <<"restore", "behind", 1>>
    /\ Retained[23] = <<"available", "behind">>
    /\ Retained[24] = Asks("verify", "behind", "none", 2, {}, {"base"})
    /\ Retained[25] = Asks("verify", "behind", "none", 2, {}, {"base"})
  BY RetainedCalls, SMTT(30)

LEMMA ApplicationIndexed ==
    /\ Len(Application) = 30
    /\ Application[1] = <<"claim">>
    /\ Application[2] = <<"both">>
    /\ Application[3] = Asks("bootstrap", "control", "none", 0, All, All)
    /\ Application[4] = Asks("receipt", "control", "source-preflight", 0, All, All)
    /\ Application[5] = Asks("baseline", "control", "none", 0, All, {"base"})
    /\ Application[6] = <<"select", 1>>
    /\ Application[7] = Asks("control", "control", "none", 0, All, {"base", "more"})
    /\ Application[8] = <<"select", 2>>
    /\ Application[9] = Asks("verify", "control", "none", 0, {"base", "more"}, {"base", "more"})
    /\ Application[10] = <<"freeze">>
    /\ Application[11] = <<"tag">>
    /\ Application[12] = <<"register">>
    /\ Application[13] = <<"checkpoint">>
    /\ Application[14] = <<"remember", "control">>
    /\ Application[15] = <<"unprotect", "control">>
    /\ Application[16] = <<"delete", "control">>
    /\ Application[17] = <<"gone", "control">>
    /\ Application[18] = <<"retained">>
    /\ Application[19] = <<"restore", "behind", 1>>
    /\ Application[20] = <<"available", "behind">>
    /\ Application[21] = Asks("receipt", "behind", "behind", 0, {"base"}, {"base", "more"})
    /\ Application[22] = Asks("verify", "behind", "none", 2, {"base"}, {"base", "more"})
    /\ Application[23] = <<"remember", "behind">>
    /\ Application[24] = <<"unprotect", "behind">>
    /\ Application[25] = <<"delete", "behind">>
    /\ Application[26] = <<"gone", "behind">>
    /\ Application[27] = <<"restore", "matching", 2>>
    /\ Application[28] = <<"available", "matching">>
    /\ Application[29] = Asks("receipt", "matching", "matching", 0, All, All)
    /\ Application[30] = Asks("verify", "matching", "none", 0, Keys, Keys)
  BY ApplicationCalls, SMTT(30)

(* Each call stands where the place operators say.                          *)
LEMMA ApplicationPlan ==
    /\ Len(Application) = 30
    /\ \A i \in 1 .. 30 : Application[i] \in CallSet /\ ApplicationPlace(Application[i], i)
  <1>1. ASSUME NEW i \in 1 .. 30
        PROVE  Application[i] \in CallSet
    <2>1. Application[1] \in CallSet BY ApplicationIndexed, Members
    <2>2. Application[2] \in CallSet BY ApplicationIndexed, Members
    <2>3. Application[3] \in CallSet BY ApplicationIndexed, Members
    <2>4. Application[4] \in CallSet BY ApplicationIndexed, Members
    <2>5. Application[5] \in CallSet BY ApplicationIndexed, Members
    <2>6. Application[6] \in CallSet BY ApplicationIndexed, Members
    <2>7. Application[7] \in CallSet BY ApplicationIndexed, Members
    <2>8. Application[8] \in CallSet BY ApplicationIndexed, Members
    <2>9. Application[9] \in CallSet BY ApplicationIndexed, Members
    <2>10. Application[10] \in CallSet BY ApplicationIndexed, Members
    <2>11. Application[11] \in CallSet BY ApplicationIndexed, Members
    <2>12. Application[12] \in CallSet BY ApplicationIndexed, Members
    <2>13. Application[13] \in CallSet BY ApplicationIndexed, Members
    <2>14. Application[14] \in CallSet BY ApplicationIndexed, Members
    <2>15. Application[15] \in CallSet BY ApplicationIndexed, Members
    <2>16. Application[16] \in CallSet BY ApplicationIndexed, Members
    <2>17. Application[17] \in CallSet BY ApplicationIndexed, Members
    <2>18. Application[18] \in CallSet BY ApplicationIndexed, Members
    <2>19. Application[19] \in CallSet BY ApplicationIndexed, Members
    <2>20. Application[20] \in CallSet BY ApplicationIndexed, Members
    <2>21. Application[21] \in CallSet BY ApplicationIndexed, Members
    <2>22. Application[22] \in CallSet BY ApplicationIndexed, Members
    <2>23. Application[23] \in CallSet BY ApplicationIndexed, Members
    <2>24. Application[24] \in CallSet BY ApplicationIndexed, Members
    <2>25. Application[25] \in CallSet BY ApplicationIndexed, Members
    <2>26. Application[26] \in CallSet BY ApplicationIndexed, Members
    <2>27. Application[27] \in CallSet BY ApplicationIndexed, Members
    <2>28. Application[28] \in CallSet BY ApplicationIndexed, Members
    <2>29. Application[29] \in CallSet BY ApplicationIndexed, Members
    <2>30. Application[30] \in CallSet BY ApplicationIndexed, Members
    <2> QED
      BY <2>1, <2>2, <2>3, <2>4, <2>5, <2>6, <2>7, <2>8, <2>9, <2>10, <2>11, <2>12, <2>13,
         <2>14, <2>15, <2>16, <2>17, <2>18, <2>19, <2>20, <2>21, <2>22, <2>23, <2>24, <2>25, <2>26,
         <2>27, <2>28, <2>29, <2>30
  <1>2. ASSUME NEW i \in 1 .. 30
        PROVE  ApplicationPlace(Application[i], i)
    <2> DEFINE c == Application[i]
    <2>1. c[1] = "claim" <=> i = 1
      BY ApplicationIndexed DEF Asks
    <2>2. c[1] = "run" => Turn(c[2]) = i
      BY ApplicationIndexed DEF Asks, Turn
    <2>3. /\ i \in {5, 7} => c[1] = "run" /\ c[2].name \in {"baseline", "control"}
          /\ c[1] = "select" => i \in {6, 8}
          /\ c[1] # "mark"
      BY ApplicationIndexed DEF Asks
    <2>4. /\ i = 12 => c[1] = "register"
          /\ i = 13 => c[1] = "checkpoint"
          /\ i = 21 => c = Asks("receipt", "behind", "behind", 0, {"base"}, {"base", "more"})
          /\ i = 30 => c = Asks("verify", "matching", "none", 0, Keys, Keys)
      BY ApplicationIndexed
    <2>5. c[1] = "restore" => \/ i = 19 /\ c[2] = "behind"
                              \/ i = 27 /\ c[2] = "matching"
      BY ApplicationIndexed DEF Asks
    <2>6. c[1] = "delete" => \/ i = 16 /\ c[2] = "control"
                             \/ i = 25 /\ c[2] = "behind"
      BY ApplicationIndexed DEF Asks
    <2> QED BY <2>1, <2>2, <2>3, <2>4, <2>5, <2>6 DEF ApplicationPlace
  <1> QED BY <1>1, <1>2, ApplicationIndexed

LEMMA SqlPlan ==
    /\ Len(Sql) = 14
    /\ \A i \in 1 .. 14 : Sql[i] \in CallSet /\ FixturePlace(Sql[i], i, 6, 11, 13, 0)
  <1>1. ASSUME NEW i \in 1 .. 14
        PROVE  Sql[i] \in CallSet
    BY SqlIndexed, Members, SMTT(30)
  <1>2. ASSUME NEW i \in 1 .. 14
        PROVE  FixturePlace(Sql[i], i, 6, 11, 13, 0)
    BY SqlIndexed DEF FixturePlace, Asks, Restores
  <1> QED BY <1>1, <1>2, SqlIndexed

LEMMA RetainedPlan ==
    /\ Len(Retained) = 25
    /\ \A i \in 1 .. 25 : /\ Retained[i] \in CallSet
                          /\ FixturePlace(Retained[i], i, 7, 22, 24, 19)
                          /\ i = 16 => Retained[i][1] = "register"
                          /\ i = 17 => Retained[i][1] = "checkpoint"
  <1>1. ASSUME NEW i \in 1 .. 25
        PROVE  Retained[i] \in CallSet
    <2>1. Retained[1] \in CallSet BY RetainedIndexed, Members
    <2>2. Retained[2] \in CallSet BY RetainedIndexed, Members
    <2>3. Retained[3] \in CallSet BY RetainedIndexed, Members
    <2>4. Retained[4] \in CallSet BY RetainedIndexed, Members
    <2>5. Retained[5] \in CallSet BY RetainedIndexed, Members
    <2>6. Retained[6] \in CallSet BY RetainedIndexed, Members
    <2>7. Retained[7] \in CallSet BY RetainedIndexed, Members
    <2>8. Retained[8] \in CallSet BY RetainedIndexed, Members
    <2>9. Retained[9] \in CallSet BY RetainedIndexed, Members
    <2>10. Retained[10] \in CallSet BY RetainedIndexed, Members
    <2>11. Retained[11] \in CallSet BY RetainedIndexed, Members
    <2>12. Retained[12] \in CallSet BY RetainedIndexed, Members
    <2>13. Retained[13] \in CallSet BY RetainedIndexed, Members
    <2>14. Retained[14] \in CallSet BY RetainedIndexed, Members
    <2>15. Retained[15] \in CallSet BY RetainedIndexed, Members
    <2>16. Retained[16] \in CallSet BY RetainedIndexed, Members
    <2>17. Retained[17] \in CallSet BY RetainedIndexed, Members
    <2>18. Retained[18] \in CallSet BY RetainedIndexed, Members
    <2>19. Retained[19] \in CallSet BY RetainedIndexed, Members
    <2>20. Retained[20] \in CallSet BY RetainedIndexed, Members
    <2>21. Retained[21] \in CallSet BY RetainedIndexed, Members
    <2>22. Retained[22] \in CallSet BY RetainedIndexed, Members
    <2>23. Retained[23] \in CallSet BY RetainedIndexed, Members
    <2>24. Retained[24] \in CallSet BY RetainedIndexed, Members
    <2>25. Retained[25] \in CallSet BY RetainedIndexed, Members
    <2> QED
      BY <2>1, <2>2, <2>3, <2>4, <2>5, <2>6, <2>7, <2>8, <2>9, <2>10, <2>11, <2>12, <2>13,
         <2>14, <2>15, <2>16, <2>17, <2>18, <2>19, <2>20, <2>21, <2>22, <2>23, <2>24, <2>25
  <1>2. ASSUME NEW i \in 1 .. 25
        PROVE  FixturePlace(Retained[i], i, 7, 22, 24, 19)
    <2> DEFINE c == Retained[i]
    <2>1. /\ c[1] \notin {"claim", "select"}
          /\ c[1] = "mark" => i = 5
          /\ c[1] = "restore" => i = 22 /\ c[2] = "behind"
          /\ c[1] = "delete" => i = 19 /\ c[2] = "control"
      BY RetainedIndexed DEF Asks
    <2>2. /\ c[1] = "run" => c[2].phase \notin Restores
          /\ (c[1] = "run" /\ c[2].name = "receipt") => 7 < i
      BY RetainedIndexed DEF Asks, Restores
    <2>3. /\ i = 7 => c[1] = "run" /\ c[2].name = "control" /\ c[2].exit = 0
          /\ (c[1] = "run" /\ c[2].name = "control") => i = 7
          /\ i = 4 => c[1] = "run" /\ c[2].name = "baseline"
      BY RetainedIndexed DEF Asks
    <2>4. i = 24 => c = Asks("verify", "behind", "none", 2, {}, {"base"})
      BY RetainedIndexed
    <2> QED BY <2>1, <2>2, <2>3, <2>4 DEF FixturePlace
  <1>3. Retained[16][1] = "register" /\ Retained[17][1] = "checkpoint"
    BY RetainedIndexed
  <1> QED BY <1>1, <1>2, <1>3, RetainedIndexed

(* The workflows that a manifest may name.                                  *)
Flows == {"sql", "retained", "application"}

(* The calls the tasks of this workflow may have been launched with.        *)
Requests == {c \in TaskCalls : c.phase \in Restores => App}

(* The parameters of a call are of their sorts.                             *)
LEMMA CallTyped ==
    ASSUME NEW c \in CallSet
    PROVE  /\ c[1] = "run" => c[2] \in TaskCalls /\ c[3] \in Ledgers /\ c[4] \in Ledgers
           /\ c[1] = "restore" => c[2] \in Restores /\ c[3] \in {1, 2}
           /\ c[1] \in {"window", "select"} => c[2] \in {1, 2}
           /\ c[1] \in {"available", "remember", "unprotect", "delete", "gone"} =>
                 c[2] \in {"control"} \union Restores
  BY DEF CallSet

(* What is known of the call at any place of the current workflow. Proofs   *)
(* below use the lists only through this lemma.                             *)
LEMMA ProgramAt ==
    ASSUME wf \in Flows, NEW i \in 1 .. Len(Program)
    PROVE  /\ Program[i] \in CallSet
           /\ Len(Program) \in Nat /\ Len(Program) > 1
           /\ App => Len(Program) = 30 /\ ApplicationPlace(Program[i], i)
           /\ wf = "sql" => Len(Program) = 14 /\ FixturePlace(Program[i], i, 6, 11, 13, 0)
           /\ wf = "retained" => /\ Len(Program) = 25
                                 /\ FixturePlace(Program[i], i, 7, 22, 24, 19)
                                 /\ i = 16 => Program[i][1] = "register"
                                 /\ i = 17 => Program[i][1] = "checkpoint"
  <1>1. CASE wf = "sql"
    <2>1. Program = Sql BY <1>1 DEF Program
    <2> QED BY <1>1, <2>1, SqlPlan DEF App
  <1>2. CASE wf = "retained"
    <2>1. Program = Retained BY <1>2 DEF Program
    <2> QED BY <1>2, <2>1, RetainedPlan DEF App
  <1>3. CASE wf = "application"
    <2>1. Program = Application BY <1>3 DEF Program
    <2> QED BY <1>3, <2>1, ApplicationPlan DEF App
  <1> QED BY <1>1, <1>2, <1>3 DEF Flows

(* A workflow launches only such tasks: recovery phases are of the          *)
(* application.                                                             *)
LEMMA RunRequests ==
    ASSUME wf \in Flows, NEW i \in 1 .. Len(Program), Program[i][1] = "run"
    PROVE  Program[i][2] \in Requests
  <1>1. Program[i][2] \in TaskCalls
    BY ProgramAt, CallTyped
  <1>2. Program[i][2].phase \in Restores => App
    BY ProgramAt DEF FixturePlace, Flows, App
  <1> QED BY <1>1, <1>2 DEF Requests

(* The steps a task may be made of (native_tasks.py, native_app_tasks.py).  *)
StepSet ==
    {<<op>> : op \in {"fill", "report", "empty", "close", "behind", "refused", "matches", "resume"}}
    \union {<<op, k>> : op \in {"intent", "effect", "propose", "once"}, k \in Keys}
    \union {<<"remote", s>> : s \in SUBSET Keys}

(* Where a step of a task stands, in a list of n steps.                     *)
StepPlace(s, c, i, n) ==
    /\ s \in StepSet
    /\ s[1] = "report" <=> i = n
    /\ s[1] = "fill" => c.name = "bootstrap"
    /\ s[1] = "intent" => ~ App /\ c.name = "control" /\ i = 1 /\ s[2] = "base"
    /\ s[1] = "effect" => ~ App /\ c.name = "receipt" /\ s[2] = "base"
    /\ s[1] = "propose" => /\ App
                           /\ \/ c.name = "baseline" /\ i = 3 /\ s[2] = "base"
                              \/ c.name = "control" /\ i = 2 /\ s[2] = "more"
                              \/ c.phase = "matching" /\ i = 5 /\ s[2] = "new"
    /\ s[1] = "once" => /\ App
                        /\ \/ c.name = "baseline" /\ i = 4 /\ s[2] = "base"
                           \/ c.name = "control" /\ i = 3 /\ s[2] = "more"
                           \/ c.phase = "matching" /\ i = 6 /\ s[2] = "new"
    /\ s[1] = "close" => App /\ c.phase \in Restores /\ i = 2
    /\ s[1] = "resume" => App /\ c.phase = "matching" /\ i = 4
    /\ s[1] = "remote" => /\ App /\ i = 1
                          /\ \/ c.name = "baseline" /\ s[2] = {}
                             \/ c.name = "control" /\ s[2] = {"base"}
                             \/ c.name = "receipt"
    /\ s[1] = "empty" => App /\ i = 2 /\ (c.name = "baseline" \/ c.phase = "source-preflight")
    /\ s[1] = "behind" => App /\ c.phase = "behind" /\ i = 3
    /\ s[1] = "refused" => App /\ c.phase = "behind" /\ i = 4
    /\ s[1] = "matches" => App /\ c.phase = "matching" /\ i = 3

(* The two recovery phases as literal lists (native_app_tasks.py:259-354).  *)
LEMMA RecoverCalls ==
    /\ RecoverBehind = << <<"remote", {"base", "more"}>>, <<"close">>, <<"behind">>, <<"refused">>, <<"report">> >>
    /\ RecoverMatching = << <<"remote", {"base", "more"}>>, <<"close">>, <<"matches">>, <<"resume">>,
                            <<"propose", "new">>, <<"once", "new">>, <<"report">> >>
  <1>1. Closing \o << <<"behind">>, <<"refused">>, <<"report">> >>
        = << <<"remote", {"base", "more"}>>, <<"close">>, <<"behind">>, <<"refused">>, <<"report">> >>
    BY Flat2_3, SMTT(30) DEF Closing
  <1>2. Closing \o << <<"matches">>, <<"resume">>, <<"propose", "new">>, <<"once", "new">>, <<"report">> >>
        = << <<"remote", {"base", "more"}>>, <<"close">>, <<"matches">>, <<"resume">>,
             <<"propose", "new">>, <<"once", "new">>, <<"report">> >>
    BY Flat2_5, SMTT(30) DEF Closing
  <1> QED BY <1>1, <1>2 DEF RecoverBehind, RecoverMatching

(* Any step of any task stands where StepPlace says.                        *)
LEMMA StepAt ==
    ASSUME NEW c \in Requests, NEW i \in 1 .. Len(Steps(c))
    PROVE  Len(Steps(c)) \in Nat /\ StepPlace(Steps(c)[i], c, i, Len(Steps(c)))
  <1> USE DEF StepPlace, StepSet, Keys
  <1>0. c \in TaskCalls /\ (c.name = "receipt" <=> c.phase # "none") /\ (c.phase \in Restores => App)
    BY DEF Requests, TaskCalls
  <1>1. CASE c.name = "bootstrap"
    <2>1. Steps(c) = << <<"fill">>, <<"report">> >>
      BY <1>1 DEF Steps, BootstrapSteps
    <2> QED BY <1>1, <2>1
  <1>2. CASE ~ App /\ c.name = "control"
    <2>1. Steps(c) = << <<"intent", "base">>, <<"report">> >>
      BY <1>2 DEF Steps, FixtureSteps, App
    <2> QED BY <1>2, <2>1
  <1>3. CASE ~ App /\ c.name = "receipt"
    <2>1. Steps(c) = << <<"effect", "base">>, <<"report">> >>
      BY <1>3 DEF Steps, FixtureSteps, App
    <2> QED BY <1>3, <2>1
  <1>4. CASE App /\ c.name = "baseline"
    <2>1. Steps(c) = << <<"remote", {}>>, <<"empty">>, <<"propose", "base">>, <<"once", "base">>, <<"report">> >>
      BY <1>0, <1>4 DEF Steps, ApplicationSteps, Seed, App
    <2> QED BY <1>4, <2>1
  <1>5. CASE App /\ c.name = "control"
    <2>1. Steps(c) = << <<"remote", {"base"}>>, <<"propose", "more">>, <<"once", "more">>, <<"report">> >>
      BY <1>0, <1>5 DEF Steps, ApplicationSteps, Advance, App
    <2> QED BY <1>5, <2>1
  <1>6. CASE App /\ c.phase = "source-preflight"
    <2>1. c.name = "receipt" BY <1>0, <1>6
    <2>2. Steps(c) = << <<"remote", {}>>, <<"empty">>, <<"report">> >>
      BY <1>6, <2>1 DEF Steps, ApplicationSteps, Preflight, App
    <2> QED BY <1>6, <2>1, <2>2
  <1>7. CASE App /\ c.phase = "behind"
    <2>1. c.name = "receipt" BY <1>0, <1>7
    <2>2. Steps(c) = RecoverBehind
      BY <1>7, <2>1 DEF Steps, ApplicationSteps, App
    <2> QED BY <1>7, <2>1, <2>2, RecoverCalls DEF Restores
  <1>8. CASE App /\ c.phase = "matching"
    <2>1. c.name = "receipt" BY <1>0, <1>8
    <2>2. Steps(c) = RecoverMatching
      BY <1>8, <2>1 DEF Steps, ApplicationSteps, App
    <2> QED BY <1>8, <2>1, <2>2, RecoverCalls DEF Restores
  <1>9. CASE /\ c.name # "bootstrap"
             /\ ~ App => c.name \notin {"control", "receipt"}
             /\ App => /\ c.name \notin {"baseline", "control"}
                       /\ c.phase \notin {"source-preflight", "behind", "matching"}
    <2>1. Steps(c) = << <<"report">> >>
      BY <1>9 DEF Steps, ApplicationSteps, FixtureSteps, App
    <2> QED BY <1>9, <2>1
  <1> QED BY <1>1, <1>2, <1>3, <1>4, <1>5, <1>6, <1>7, <1>8, <1>9

(* A task has a step to take.                                               *)
LEMMA StepsNonempty ==
    ASSUME NEW c \in Requests
    PROVE  Len(Steps(c)) \in Nat /\ Len(Steps(c)) >= 1
  BY RecoverCalls DEF Steps, BootstrapSteps, ApplicationSteps, FixtureSteps, Seed, Advance, Preflight

-----------------------------------------------------------------------------
(* Types.                                                                   *)

(* Shapes of the state.                                                     *)
Outcomes == [exit : {0, 1, 2}, at : Nat, local : SUBSET Keys, remote : SUBSET Keys,
             closed : BOOLEAN]
Tasks == [call : Requests, pc : Nat, st : {"none", "running", "stopping", "stopped"},
          out : Outcomes]
DbStates == {"absent", "creating", "available", "deleting", "gone"}
Backups == [st : {"none", "active", "retained"}, tag : BOOLEAN]
ResStates == {"gone", "present", "empty", "inactive", "closing"}
Stores == [registry : {"none", "written"}, secrets : SUBSET Gens, claim : BOOLEAN,
           prepared : BOOLEAN, fresh : BOOLEAN, logs : BOOLEAN, bucket : BOOLEAN]
Points == [1 .. 2 -> [at : Nat, held : SUBSET Keys]]
Controllers == [pc : Nat, st : {"none", "run", "await", "failed", "passed"}, gated : BOOLEAN,
                frozen : BOOLEAN, print : Ledgers, points : Points]
Views == [db : [Gens -> DbStates], prot : SUBSET Gens, backup : Backups, task : BOOLEAN,
          res : [Kinds -> ResStates]]
Watches == [pc : {"idle", "register", "list", "sweep"}, known : SUBSET Gens, view : Views]
Guards == [st : {"armed", "stopped", "gone", "erased"},
           fin : {"none", "archived", "stopped", "gone"},
           audit : {"none", "runtime", "residuals", "clear"}]
Deployments == [built : 0 .. 4, applying : BOOLEAN, unseen : SUBSET Gens]

(* The list of steps of a call in a given workflow, for outcomes recorded   *)
(* under it.                                                                *)
StepsOf(w, c) ==
    IF c.name = "bootstrap" THEN BootstrapSteps
    ELSE IF w = "application" THEN ApplicationSteps(c) ELSE FixtureSteps(c)

(* The conjuncts of the type invariant, one for each group of variables.    *)
DataType ==
    /\ led \in [Gens -> SUBSET Keys] /\ closed \subseteq Gens
    /\ at \in [Keys -> Nat] /\ now \in Nat

TaskType ==
    /\ task \in Tasks /\ task.pc \in 1 .. Len(StepsOf(wf, task.call))
    /\ ran \subseteq Requests \X Outcomes

CtlType == ctl \in Controllers /\ ctl.pc \in 1 .. Len(Program)

CloudType ==
    /\ db \in [Gens -> DbStates] /\ prot \subseteq Gens /\ backup \in Backups
    /\ res \in [Kinds -> ResStates] /\ late \in BOOLEAN /\ store \in Stores

GuardType == watch \in Watches /\ guard \in Guards /\ deploy \in Deployments

TypeInv ==
    /\ wf \in Flows
    /\ DataType /\ TaskType /\ CtlType /\ CloudType /\ GuardType

(* The controller is at work.                                               *)
Active == ctl.st \in {"run", "await"}

-----------------------------------------------------------------------------
(* Classes of steps.                                                        *)

(* What tasks write: ledgers, gates, commit times and the clock.            *)
data == <<led, closed, at, now>>

(* The facts in the bucket that only the controller records. Its secrets    *)
(* are erased by the guard alone, so after the deadline.                    *)
Keeps ==
    /\ store'.claim = store.claim /\ store'.prepared = store.prepared
    /\ late \/ store'.secrets = store.secrets

(* A step that leaves the acceptance run itself alone.                      *)
Aside == UNCHANGED <<wf, data, task, ran, late, ctl>> /\ Keeps

(* The deadline passes, and recorded outcomes are forgotten.                *)
Expires == /\ late' = TRUE /\ ran' = {}
           /\ UNCHANGED <<wf, db, data, task, ctl, store>>

(* A pass asks for the task to be stopped.                                  *)
StopsTask == /\ late /\ Listed /\ task' = [task EXCEPT !.st = "stopping"]
             /\ UNCHANGED <<wf, data, ran, late, ctl>> /\ Keeps

(* An operator starts a controller.                                         *)
Starts == /\ ctl.st \in {"none", "failed"} /\ ~ late /\ task.st # "stopping"
          /\ ctl' = [Idle EXCEPT !.st = "run"]
          /\ UNCHANGED <<wf, db, data, task, ran, late, store>>

(* The controller fails or is killed, maybe while it stops its task or      *)
(* between the launch and its answer.                                       *)
Breaks ==
    /\ Active /\ Fails
    /\ \/ UNCHANGED task
       \/ Listed /\ task' = [task EXCEPT !.st = "stopping"]
       \/ At("run") /\ ~ Alive /\ task' = [NoTask EXCEPT !.call = Call[2], !.st = "running"]
    /\ UNCHANGED <<wf, db, data, ran, late>> /\ Keeps

(* The controller passes its gate before a call.                            *)
Gates == ctl' = [ctl EXCEPT !.gated = TRUE] /\ ctl.st = "run"
         /\ UNCHANGED <<wf, db, data, task, ran, late, store>>

(* The controller launches a task, or its token is answered with a task     *)
(* that ran.                                                                *)
Launches ==
    /\ At("run") /\ ~ Alive /\ ctl' = [ctl EXCEPT !.st = "await", !.gated = FALSE]
    /\ \/ task' = [NoTask EXCEPT !.call = Call[2], !.st = "running"]
       \/ \E r \in ran : /\ r[1] = Call[2]
                         /\ task' = [NoTask EXCEPT !.call = Call[2], !.st = "stopped", !.out = r[2]]
    /\ UNCHANGED <<wf, db, data, ran, late>> /\ Keeps

(* The next call, or the end of the workflow.                               *)
Forward ==
    IF ctl.pc = Len(Program) THEN ctl'.st = "passed" /\ ctl'.pc = 1
                             ELSE ctl'.st = "run" /\ ctl'.pc = ctl.pc + 1

(* The controller goes on to the next call of its workflow.                 *)
Moves ==
    /\ Active /\ Forward
    /\ UNCHANGED <<wf, closed, at, task, ran, late>> /\ now' \in Nat /\ now' >= now
    /\ ctl.st = "await" => /\ task.st = "stopped" /\ Accepted(task.out)
                           /\ ctl'.points \in {ctl.points, NoPoints} /\ UNCHANGED <<db, led>>
    /\ ctl.st = "run" => Call[1] # "run"
    /\ UNCHANGED <<led, db>> \/ RestoreGeneration \/ (DeleteGeneration /\ UNCHANGED led)
    /\ ctl'.points \in {ctl.points, NoPoints} \/ Mark \/ SelectPoint
    /\ store.claim => store'.claim
    /\ At("claim") => ~ store.claim /\ store'.claim
    /\ store.prepared => store'.prepared
    /\ At("checkpoint") => store'.prepared
    /\ store.secrets \subseteq store'.secrets
    /\ At("register") => {"control", "receipts"} \subseteq store'.secrets

(* Passes are made only after the deadline (native_watchdog.py:169-187).    *)
WatchLate == watch.pc # "idle" => late

(* A deployment makes databases, their backup and other resources, and      *)
(* touches nothing else.                                                    *)
LEMMA DeployLeaves ==
    ASSUME Deploy
    PROVE  UNCHANGED <<wf, led, closed, at, now, task, ran, late, store, ctl, faults, watch, guard>>
  BY DEF Deploy, DeployStarts, DeployLayer, DeployDatabase, DeployFails, nativeVars, cloudVars,
     controllerVars

(* No step of the guard touches the run but by asking for the task to be    *)
(* stopped.                                                                 *)
LEMMA GuardCases ==
    ASSUME TypeInv, WatchLate, GuardNext
    PROVE  Aside \/ StopsTask
  <1> USE DEF Aside, Keeps, data, nativeVars, cloudVars, controllerVars, guardVars
  <1>0. store \in Stores BY DEF TypeInv, CloudType
  <1>1. CASE InitializeRegistry BY <1>0, <1>1 DEF InitializeRegistry, Stores
  <1>2. CASE Deploy BY <1>2, DeployLeaves
  <1>3. CASE PassReads BY <1>3 DEF PassReads
  <1>4. CASE PassRegisters BY <1>0, <1>4 DEF PassRegisters, Stores, WatchLate
  <1>5. CASE PassLists BY <1>5 DEF PassLists
  <1>6. ASSUME NEW failed, PassSweeps(failed)
        PROVE  Aside \/ StopsTask
    <2>1. late BY <1>6 DEF PassSweeps, WatchLate
    <2>2. Keeps BY <1>0, <1>6 DEF PassSweeps, Stores
    <2>3. UNCHANGED <<wf, data, ran, late, ctl>> BY <1>6 DEF PassSweeps
    <2>4. CASE watch.view.task /\ Listed
      BY <1>6, <2>1, <2>2, <2>3, <2>4 DEF PassSweeps, StopsTask
    <2>5. CASE ~ (watch.view.task /\ Listed)
      <3>1. UNCHANGED task BY <1>6, <2>5 DEF PassSweeps
      <3> QED BY <3>1, <2>2, <2>3
    <2> QED BY <2>4, <2>5
  <1>7. CASE Sweep BY <1>6, <1>7 DEF Sweep
  <1>8. CASE PassCutOff BY <1>8 DEF PassCutOff
  <1>9. CASE CheckerReports BY <1>0, <1>9 DEF CheckerReports, Stores
  <1>10. CASE FinalizeArchives BY <1>0, <1>10 DEF FinalizeArchives, Stores
  <1>11. CASE FinalizeStops BY <1>11 DEF FinalizeStops
  <1>12. CASE FinalizeDeletes BY <1>0, <1>12 DEF FinalizeDeletes, Stores
  <1>13. CASE WaitingEnds BY <1>13 DEF WaitingEnds
  <1>14. CASE AuditRuntime BY <1>14 DEF AuditRuntime
  <1>15. CASE AuditGuard BY <1>15 DEF AuditGuard
  <1> QED
    BY <1>1, <1>2, <1>3, <1>4, <1>5, <1>7, <1>8, <1>9, <1>10, <1>11, <1>12, <1>13, <1>14, <1>15
       DEF GuardNext, Pass

(* What AWS and time do is to leave the run alone, to let the deadline      *)
(* pass, or to run or kill the task.                                        *)
LEMMA CloudCases ==
    ASSUME TypeInv, Cloud, UNCHANGED <<controllerVars, guardVars>>
    PROVE  \/ Aside \/ Expires
           \/ Alive /\ (TaskRuns \/ TaskDies) /\ UNCHANGED ctl
  <1> USE DEF controllerVars, data
  <1>1. ASSUME NEW g, DatabaseSettles(g) PROVE Aside
    BY <1>1 DEF DatabaseSettles, Aside, Keeps
  <1>2. CASE EndpointSettles BY <1>2 DEF EndpointSettles, Aside, Keeps
  <1>3. CASE Deadline BY <1>3 DEF Deadline, Expires
  <1>4. CASE TaskDies BY <1>4 DEF TaskDies
  <1>5. CASE TaskRuns BY <1>5 DEF TaskRuns
  <1> QED BY <1>1, <1>2, <1>3, <1>4, <1>5 DEF Cloud, Settles

(* An idle controller is of its type.                                       *)
LEMMA IdleType ==
    /\ NoPoints \in Points
    /\ \A s \in {"run", "failed", "passed"} : [Idle EXCEPT !.st = s] \in Controllers
  <1>1. NoPoints \in Points BY DEF NoPoints, Points
  <1>2. Idle = [pc |-> 1, st |-> "none", gated |-> FALSE, frozen |-> FALSE, print |-> All, points |-> NoPoints]
    BY DEF Idle
  <1>3. All \in Ledgers BY DEF Ledgers
  <1> QED BY <1>1, <1>2, <1>3 DEF Controllers

(* Advancing leads to the next call.                                        *)
LEMMA AdvancesForward ==
    ASSUME wf \in Flows, wf' = wf, ctl \in Controllers, ctl.pc \in 1 .. Len(Program),
           NEW c \in Controllers, c.pc = ctl.pc, Advances(c)
    PROVE  /\ Forward /\ ctl'.points \in {c.points, NoPoints}
           /\ ctl' \in Controllers /\ ctl'.pc \in 1 .. Len(Program)
  <1>0. Len(Program) \in Nat /\ Len(Program) > 1 BY ProgramAt
  <1>1. CASE ctl.pc = Len(Program)
    <2>1. ctl' = [Idle EXCEPT !.st = "passed"] BY <1>1 DEF Advances
    <2> QED BY <1>0, <1>1, <2>1, IdleType DEF Forward, Idle
  <1>2. CASE ctl.pc # Len(Program)
    <2>1. ctl' = [c EXCEPT !.pc = @ + 1, !.gated = FALSE, !.st = "run"] BY <1>2 DEF Advances
    <2>2. ctl.pc \in Nat /\ c.pc + 1 \in 1 .. Len(Program) BY <1>0, <1>2
    <2>3. ctl' = [pc |-> c.pc + 1, st |-> "run", gated |-> FALSE, frozen |-> c.frozen,
                  print |-> c.print, points |-> c.points]
      BY <2>1 DEF Controllers
    <2>4. ctl' \in Controllers /\ ctl'.points = c.points /\ ctl'.st = "run" /\ ctl'.pc = c.pc + 1
      BY <2>2, <2>3 DEF Controllers
    <2> QED BY <1>2, <2>2, <2>4 DEF Forward
  <1> QED BY <1>1, <1>2

(* Selecting a point fails, or takes one that is later than what the task   *)
(* observed (native_application.py:37-69).                                  *)
LEMMA SelectedPoint ==
    ASSUME TypeInv, SelectPoint
    PROVE  \/ Fails /\ UNCHANGED <<now, store>>
           \/ \E p \in Nat :
                 /\ p >= (task.out.at \div 2) * 2 + 4 /\ (p \div 2) * 2 = p
                 /\ Advances([ctl EXCEPT !.points[Call[2]] = [at |-> p, held |-> task.out.local]])
                 /\ WaitsFor(p) /\ store' = [store EXCEPT !.fresh = TRUE]
  <1>1. task.out.at \in Nat /\ now \in Nat
    BY DEF TypeInv, TaskType, DataType, Tasks, Outcomes
  <1>2. PICK earliest \in 0 .. (now + MaxWindowLag) :
            LET p == QuiescentPoint(task.out.at, earliest)
            IN  \/ Fails /\ UNCHANGED <<now, store>>
                \/ /\ Advances([ctl EXCEPT !.points[Call[2]] = [at |-> p, held |-> task.out.local]])
                   /\ WaitsFor(p) /\ store' = [store EXCEPT !.fresh = TRUE]
    BY DEF SelectPoint
  <1> DEFINE p == QuiescentPoint(task.out.at, earliest)
  <1>3. earliest \in Nat BY <1>1, <1>2, LagAssumption
  <1>4. p \in Nat /\ p >= (task.out.at \div 2) * 2 + 4 /\ (p \div 2) * 2 = p
    BY <1>1, <1>3 DEF QuiescentPoint, Latest
  <1> HIDE DEF p
  <1> QED BY <1>2, <1>4 DEF p

(* What the controller does is one of five classes, and keeps its type.     *)
LEMMA ControlCases ==
    ASSUME TypeInv, ControllerNext
    PROVE  /\ Starts \/ Breaks \/ Gates \/ Launches \/ Moves
           /\ ctl' \in Controllers /\ ctl'.pc \in 1 .. Len(Program)
  <1> DEFINE Typed == ctl' \in Controllers /\ ctl'.pc \in 1 .. Len(Program)
  <1>0. /\ wf \in Flows /\ store \in Stores /\ now \in Nat /\ ctl \in Controllers
        /\ ctl.pc \in 1 .. Len(Program) /\ task \in Tasks
        /\ Len(Program) \in Nat /\ Len(Program) > 1
    BY ProgramAt DEF TypeInv, CloudType, DataType, CtlType, TaskType
  <1>c. Call \in CallSet BY <1>0, ProgramAt DEF Call
  <1>o. /\ task.out.at \in Nat /\ task.out.local \in SUBSET Keys /\ task.out.remote \in SUBSET Keys
    BY <1>0 DEF Tasks, Outcomes
  <1>f. ASSUME Fails PROVE Typed
    BY <1>0, <1>f, IdleType DEF Fails, Idle
  <1>b. ASSUME Fails, Active, UNCHANGED <<wf, db, led, closed, at, now, task, ran, late>>, Keeps
        PROVE  Breaks
    BY <1>b DEF Breaks, data
  <1>a. ASSUME Advances(ctl), wf' = wf
        PROVE  Forward /\ ctl'.points \in {ctl.points, NoPoints} /\ Typed
    BY <1>0, <1>a, AdvancesForward
  <1>s. UNCHANGED store => Keeps BY DEF Keeps
  <1>1. CASE Start
    <2>1. Starts BY <1>1 DEF Start, Starts, cloudVars, data
    <2> QED BY <1>0, <2>1, IdleType DEF Starts, Idle
  <1>2. CASE Gate
    <2>1. CASE late \/ Listed
      BY <1>f, <1>b, <1>s, <1>2, <2>1 DEF Gate, Active, cloudVars
    <2>2. CASE ~ (late \/ Listed)
      <3>1. Gates BY <1>2, <2>2 DEF Gate, Gates, cloudVars, data
      <3> QED BY <1>0, <3>1 DEF Gates, Controllers
    <2> QED BY <2>1, <2>2
  <1>3. CASE ControllerFails
    <2>1. Keeps BY <1>0, <1>3 DEF ControllerFails, PreserveObservation, Keeps, Stores
    <2>2. Breaks BY <1>3, <2>1 DEF ControllerFails, Breaks, Active, data
    <2> QED BY <1>f, <2>2 DEF Breaks
  <1>4. CASE Claim
    <2>1. CASE store.claim
      BY <1>f, <1>b, <1>s, <1>4, <2>1 DEF Claim, Active, At
    <2>2. CASE ~ store.claim
      <3>1. /\ Advances(ctl) /\ store' = [store EXCEPT !.claim = TRUE, !.fresh = TRUE]
            /\ At("claim") /\ UNCHANGED <<wf, db, led, closed, at, now, task, ran, late>>
        BY <1>4, <2>2 DEF Claim
      <3>2. Moves BY <1>0, <1>a, <2>2, <3>1 DEF Moves, At, Stores, Active
      <3> QED BY <1>a, <3>1, <3>2
    <2> QED BY <2>1, <2>2
  <1>5. CASE RequireBoth
    <2>0. /\ ctl.st = "run" /\ Call[1] \in {"each", "both"}
          /\ UNCHANGED <<wf, db, led, closed, at, now, task, ran, late, store>>
      BY <1>5 DEF RequireBoth, cloudVars
    <2>1. CASE Fails BY <1>f, <1>b, <1>s, <2>0, <2>1 DEF Active
    <2>2. CASE Advances(ctl)
      <3>2. Moves BY <1>0, <1>a, <2>2, <2>0 DEF Moves, At, Active
      <3> QED BY <1>a, <2>0, <2>2, <3>2
    <2> QED BY <1>5, <2>1, <2>2 DEF RequireBoth
  <1>6. CASE Launch
    <2>1. Keeps BY <1>0, <1>6 DEF Launch, PreserveObservation, Keeps, Stores
    <2>2. Launches BY <1>6, <2>1 DEF Launch, Launches, data
    <2> QED BY <1>0, <2>2 DEF Launches, Controllers
  <1>7. CASE AwaitResult
    <2>0. /\ ctl.st = "await" /\ task.st = "stopped" /\ UNCHANGED <<wf, db, led, closed, at, now, task, ran, late>>
          /\ store' = [store EXCEPT !.fresh = TRUE]
      BY <1>7 DEF AwaitResult, PreserveObservation
    <2>1. CASE ~ Accepted(task.out)
      <3>1. Keeps BY <1>0, <2>0 DEF Keeps, Stores
      <3>2. Fails BY <1>7, <2>1 DEF AwaitResult
      <3> QED BY <1>f, <1>b, <2>0, <3>1, <3>2 DEF Active
    <2>2. CASE Accepted(task.out)
      <3>1. Advances(ctl) BY <1>7, <2>2 DEF AwaitResult
      <3>2. Moves BY <1>0, <1>a, <2>0, <2>2, <3>1 DEF Moves, Active, At, Stores
      <3> QED BY <1>a, <2>0, <3>1, <3>2
    <2> QED BY <2>1, <2>2
  <1>8. CASE Mark
    <2> DEFINE c == [ctl EXCEPT !.points[1] = [at |-> task.out.at, held |-> task.out.local]]
    <2>0. At("mark") /\ Advances(c) /\ UNCHANGED <<wf, db, led, closed, at, now, task, ran, late, store>>
      BY <1>8 DEF Mark, cloudVars
    <2>1. c \in Controllers /\ c.pc = ctl.pc
      <3>1. ctl.points \in Points BY <1>0 DEF Controllers
      <3>2. [ctl.points EXCEPT ![1] = [at |-> task.out.at, held |-> task.out.local]] \in Points
        BY <1>o, <3>1 DEF Points
      <3>3. c = [ctl EXCEPT !.points = [ctl.points EXCEPT ![1] = [at |-> task.out.at, held |-> task.out.local]]]
        BY <1>0 DEF Controllers
      <3> QED BY <1>0, <3>2, <3>3 DEF Controllers
    <2> HIDE DEF c
    <2>2. Forward /\ Typed BY <1>0, <2>0, <2>1, AdvancesForward
    <2>3. Moves BY <1>0, <1>8, <2>0, <2>2 DEF Moves, At, Active
    <2> QED BY <2>2, <2>3
  <1>9. CASE Window
    <2>0. At("window") /\ UNCHANGED <<wf, db, led, closed, at, task, ran, late, store>>
      BY <1>9 DEF Window
    <2>1. CASE Fails /\ UNCHANGED now BY <1>f, <1>b, <1>s, <2>0, <2>1 DEF Active, At
    <2>2. CASE WaitsFor(ctl.points[Call[2]].at) /\ Advances(ctl)
      <3>1. now' \in Nat /\ now' >= now
        <4>1. Call[2] \in {1, 2} BY <1>c, <2>0, CallTyped DEF At
        <4>2. ctl.points[Call[2]].at \in Nat BY <1>0, <4>1 DEF Controllers, Points
        <4> QED BY <1>0, <2>2, <4>2 DEF WaitsFor
      <3>2. Moves BY <1>0, <1>a, <2>0, <2>2, <3>1 DEF Moves, At, Active
      <3> QED BY <1>a, <2>0, <2>2, <3>2
    <2> QED BY <1>9, <2>1, <2>2 DEF Window
  <1>10. CASE SelectPoint
    <2>0. At("select") /\ UNCHANGED <<wf, db, led, closed, at, task, ran, late>>
      BY <1>10 DEF SelectPoint
    <2>1. CASE Fails /\ UNCHANGED <<now, store>> BY <1>f, <1>b, <1>s, <2>0, <2>1 DEF Active, At
    <2>2. ASSUME NEW p \in Nat,
                 Advances([ctl EXCEPT !.points[Call[2]] = [at |-> p, held |-> task.out.local]]),
                 WaitsFor(p), store' = [store EXCEPT !.fresh = TRUE]
          PROVE  Moves /\ Typed
      <3> DEFINE c == [ctl EXCEPT !.points[Call[2]] = [at |-> p, held |-> task.out.local]]
      <3>1. now' \in Nat /\ now' >= now BY <1>0, <2>2 DEF WaitsFor
      <3>2. c \in Controllers /\ c.pc = ctl.pc
        <4>1. ctl.points \in Points /\ Call[2] \in {1, 2}
          BY <1>0, <1>c, <2>0, CallTyped DEF At, Controllers
        <4>2. [ctl.points EXCEPT ![Call[2]] = [at |-> p, held |-> task.out.local]] \in Points
          BY <1>o, <4>1 DEF Points
        <4>3. c = [ctl EXCEPT !.points = [ctl.points EXCEPT ![Call[2]] = [at |-> p, held |-> task.out.local]]]
          BY <1>0 DEF Controllers
        <4> QED BY <1>0, <4>2, <4>3 DEF Controllers
      <3>3. Advances(c) BY <2>2
      <3> HIDE DEF c
      <3>4. Forward /\ Typed BY <1>0, <2>0, <3>2, <3>3, AdvancesForward
      <3>5. Moves BY <1>0, <1>10, <2>0, <2>2, <3>1, <3>4 DEF Moves, At, Active, Stores
      <3> QED BY <3>4, <3>5
    <2> QED BY <1>10, <2>1, <2>2, SelectedPoint
  <1>11. CASE Freeze
    <2> DEFINE c == [ctl EXCEPT !.frozen = TRUE, !.print = task.out.remote]
    <2>0. At("freeze") /\ UNCHANGED <<wf, db, led, closed, at, now, task, ran, late, store>>
      BY <1>11 DEF Freeze, cloudVars
    <2>1. CASE Fails BY <1>f, <1>b, <1>s, <2>0, <2>1 DEF Active, At
    <2>2. CASE Advances(c)
      <3>1. c \in Controllers /\ c.pc = ctl.pc /\ c.points = ctl.points
        BY <1>0, <1>o DEF Controllers, Ledgers
      <3> HIDE DEF c
      <3>2. Forward /\ ctl'.points \in {ctl.points, NoPoints} /\ Typed
        BY <1>0, <2>0, <2>2, <3>1, AdvancesForward
      <3>3. Moves BY <1>0, <2>0, <3>2 DEF Moves, At, Active
      <3> QED BY <3>2, <3>3
    <2> QED BY <1>11, <2>1, <2>2 DEF Freeze
  <1>12. CASE TagBackup
    <2>0. At("tag") /\ UNCHANGED <<wf, db, led, closed, at, now, task, ran, late, store>>
      BY <1>12 DEF TagBackup
    <2>1. CASE Fails BY <1>f, <1>b, <1>s, <2>0, <2>1 DEF Active, At
    <2>2. CASE Advances(ctl)
      <3>1. Moves BY <1>0, <1>a, <2>0, <2>2 DEF Moves, At, Active
      <3> QED BY <1>a, <2>0, <2>2, <3>1
    <2> QED BY <1>12, <2>1, <2>2 DEF TagBackup
  <1>13. CASE Register
    <2>0. At("register") /\ UNCHANGED <<wf, db, led, closed, at, now, task, ran, late>> /\ Advances(ctl)
          /\ store' = [store EXCEPT !.secrets = @ \union {"control", "receipts"}, !.fresh = TRUE]
      BY <1>13 DEF Register
    <2>1. Moves BY <1>0, <1>a, <2>0 DEF Moves, At, Active, Stores
    <2> QED BY <1>a, <2>0, <2>1
  <1>14. CASE Checkpoint
    <2>0. At("checkpoint") /\ UNCHANGED <<wf, db, led, closed, at, now, task, ran, late>> /\ Advances(ctl)
          /\ store' = [store EXCEPT !.prepared = TRUE, !.fresh = TRUE]
      BY <1>14 DEF Checkpoint
    <2>1. Moves BY <1>0, <1>a, <2>0 DEF Moves, At, Active, Stores
    <2> QED BY <1>a, <2>0, <2>1
  <1>15. CASE Remember
    <2>0. At("remember") /\ UNCHANGED <<wf, db, led, closed, at, now, task, ran, late>> /\ Advances(ctl)
          /\ store' = [store EXCEPT !.secrets = @ \union ({Call[2]} \ Restores), !.fresh = TRUE]
      BY <1>15 DEF Remember
    <2>1. Moves BY <1>0, <1>a, <2>0 DEF Moves, At, Active, Stores
    <2> QED BY <1>a, <2>0, <2>1
  <1>16. CASE Unprotect
    <2>0. At("unprotect") /\ UNCHANGED <<wf, db, led, closed, at, now, task, ran, late, store>>
      BY <1>16 DEF Unprotect
    <2>1. CASE Fails BY <1>f, <1>b, <1>s, <2>0, <2>1 DEF Active, At
    <2>2. CASE Advances(ctl)
      <3>1. Moves BY <1>0, <1>a, <2>0, <2>2 DEF Moves, At, Active
      <3> QED BY <1>a, <2>0, <2>2, <3>1
    <2> QED BY <1>16, <2>1, <2>2 DEF Unprotect
  <1>17. CASE DeleteGeneration
    <2>0. At("delete") /\ UNCHANGED <<wf, led, closed, at, now, task, ran, late, store>>
      BY <1>17 DEF DeleteGeneration
    <2>1. CASE Fails /\ UNCHANGED <<db, backup>>
      BY <1>f, <1>b, <1>s, <2>0, <2>1 DEF Active, At
    <2>2. CASE Advances(ctl)
      <3>1. Moves BY <1>0, <1>a, <1>17, <2>0, <2>2 DEF Moves, At, Active
      <3> QED BY <1>a, <2>0, <2>2, <3>1
    <2> QED BY <1>17, <2>1, <2>2 DEF DeleteGeneration
  <1>18. CASE Poll
    <2>0. /\ ctl.st = "run" /\ Call[1] \in {"gone", "retained", "available"}
          /\ UNCHANGED <<wf, db, led, closed, at, now, task, ran, late, store>>
      BY <1>18 DEF Poll, cloudVars
    <2>1. CASE Fails BY <1>f, <1>b, <1>s, <2>0, <2>1 DEF Active
    <2>2. CASE Advances(ctl)
      <3>1. Moves BY <1>0, <1>a, <2>0, <2>2 DEF Moves, At, Active
      <3> QED BY <1>a, <2>0, <2>2, <3>1
    <2> QED BY <1>18, <2>1, <2>2 DEF Poll
  <1>19. CASE RestoreGeneration
    <2>0. At("restore") /\ Advances(ctl) /\ UNCHANGED <<wf, closed, at, now, task, ran, late, store>>
      BY <1>19 DEF RestoreGeneration
    <2>1. Moves BY <1>0, <1>a, <1>19, <2>0 DEF Moves, At, Active
    <2> QED BY <1>a, <2>0, <2>1
  <1> QED
    BY <1>1, <1>2, <1>3, <1>4, <1>5, <1>6, <1>7, <1>8, <1>9, <1>10, <1>11, <1>12, <1>13, <1>14,
       <1>15, <1>16, <1>17, <1>18, <1>19
       DEF ControllerNext

(* What the one-off task of the run may do in a step.                       *)
Quits == Ended(NoOutcome) /\ UNCHANGED data

(* It ends with what it has found.                                          *)
Reports == /\ Ended(Outcome) /\ UNCHANGED data
           /\ db[Gen] = "available" /\ task.pc = Len(Steps(task.call))

(* It passes a check and changes nothing.                                   *)
Passes ==
    /\ Continue /\ UNCHANGED data /\ task.pc # Len(Steps(task.call))
    /\ (App /\ task.call.name = "baseline") => \/ task.pc = 1 /\ led["receipts"] = {}
                                               \/ task.pc = 2 /\ led["control"] = {}
    /\ (App /\ task.call.name = "control") => task.pc = 1 /\ led["receipts"] = {"base"}
    /\ ~ App => task.call.name # "control"
    /\ task.call.phase = "behind" => task.pc # 2
    /\ task.call.phase = "matching" => task.pc = 1 \/ (task.pc = 3 /\ Comparable("matching"))

(* The fixture of the SQL workflows commits its one intent.                 *)
Intends ==
    /\ ~ App /\ task.call.name = "control" /\ Gen = "control" /\ task.pc = 1 /\ Continue
    /\ \/ "base" \in led["control"] /\ UNCHANGED data
       \/ "base" \notin led["control"] /\ Recorded("base") /\ UNCHANGED closed

(* It delivers the effect of the fixture.                                   *)
Supplies ==
    /\ ~ App /\ task.call.name = "receipt" /\ Gen = "control" /\ Continue
    /\ led' = [led EXCEPT !["receipts"] = @ \union {"base"}] /\ UNCHANGED <<closed, at, now>>

(* An application task commits an intent.                                   *)
Proposes(k) ==
    /\ App /\ Continue /\ Recorded(k) /\ UNCHANGED closed
    /\ \/ task.call.name = "baseline" /\ task.pc = 3 /\ k = "base" /\ Gen = "control"
       \/ task.call.name = "control" /\ task.pc = 2 /\ k = "more" /\ Gen = "control"
       \/ task.call.phase = "matching" /\ task.pc = 5 /\ k = "new" /\ Gen = "matching"

(* It delivers the effect of an intent that its database knows.             *)
Delivers(k) ==
    /\ App /\ Continue /\ k \in led[Gen]
    /\ led' = [led EXCEPT !["receipts"] = @ \union {k}] /\ UNCHANGED <<closed, at, now>>
    /\ \/ task.call.name = "baseline" /\ task.pc = 4 /\ k = "base" /\ Gen = "control"
       \/ task.call.name = "control" /\ task.pc = 3 /\ k = "more" /\ Gen = "control"
       \/ task.call.phase = "matching" /\ task.pc = 6 /\ k = "new" /\ Gen = "matching"

(* It closes the gate of the restored database, or opens it.                *)
Closes ==
    /\ App /\ task.call.phase \in Restores /\ Gen = task.call.phase /\ task.pc = 2 /\ Continue
    /\ closed' = closed \union {Gen} /\ UNCHANGED <<led, at, now>>

Reopens ==
    /\ App /\ task.call.phase = "matching" /\ Gen = "matching" /\ task.pc = 4 /\ Continue
    /\ closed' = closed \ {Gen} /\ UNCHANGED <<led, at, now>>

(* A step after which the task goes on.                                     *)
TaskMoves == \/ Passes \/ Intends \/ Supplies \/ Closes \/ Reopens
             \/ \E k \in Keys : Proposes(k) \/ Delivers(k)

(* Every step of a task is of these kinds, at the step of its list that     *)
(* fits.                                                                    *)
LEMMA TaskCases ==
    ASSUME TypeInv, Alive, TaskRuns \/ TaskDies
    PROVE  /\ UNCHANGED <<wf, db, late, store>>
           /\ \/ Quits \/ Reports
              \/ TaskMoves /\ task.pc # Len(Steps(task.call))
  <1> DEFINE Goal == Quits \/ Reports \/ (TaskMoves /\ task.pc # Len(Steps(task.call)))
             n == Len(Steps(task.call))
             c == task.call
  <1>0. /\ wf \in Flows /\ c \in Requests /\ task.pc \in 1 .. n /\ task \in Tasks
        /\ led \in [Gens -> SUBSET Keys]
    BY DEF TypeInv, TaskType, DataType, Tasks, Steps, StepsOf
  <1>1. StepPlace(Step, c, task.pc, n)
    BY <1>0, StepAt DEF Step
  <1>2. /\ c.name = "receipt" <=> c.phase # "none"
        /\ c.phase \in Restores => Gen = c.phase /\ App
        /\ (c.name # "verify" /\ c.phase \notin Restores) => Gen = "control"
        /\ c.phase \in {"none", "fixture", "source-preflight"} \union Restores
    BY <1>0 DEF Requests, TaskCalls, Gen
  <1> HIDE DEF n, c
  <1>q. ASSUME Ended(NoOutcome), UNCHANGED <<led, closed, at, now>> PROVE Goal
    BY <1>q DEF Quits, data
  <1>3. CASE TaskDies
    BY <1>3 DEF TaskDies, Quits, data
  <1>4. CASE TaskRuns
    <2>0. db[Gen] = "available" /\ UNCHANGED <<wf, db, late, store>>
      BY <1>4 DEF TaskRuns
    <2>s. SUFFICES Goal BY <2>0
    <2>p. ASSUME Op # "report", Passes PROVE Goal
      BY <1>1, <2>p DEF StepPlace, Op, TaskMoves, n, c
    <2>r. Op # "report" => task.pc # n BY <1>1 DEF StepPlace, Op
    <2>1. CASE Unconfigured BY <1>q, <2>1 DEF Unconfigured
    <2>2. CASE FillSecrets
      <3>1. Op = "fill" /\ UNCHANGED <<led, closed, at, now>> /\ (Continue \/ Ended(NoOutcome))
        BY <2>2 DEF FillSecrets, Requires
      <3>2. c.name = "bootstrap" BY <1>1, <3>1 DEF StepPlace, Op
      <3>3. Continue => Passes
        BY <1>2, <2>r, <3>1, <3>2 DEF Passes, data, n, c, Restores
      <3> QED BY <1>q, <2>p, <3>1, <3>3
    <2>3. CASE CommitIntent
      <3>1. Op = "intent" /\ Continue /\ UNCHANGED closed BY <2>3 DEF CommitIntent
      <3>2. ~ App /\ c.name = "control" /\ task.pc = 1 /\ Operand = "base"
        BY <1>1, <3>1 DEF StepPlace, Op, Operand
      <3>3. Gen = "control" BY <1>2, <3>2
      <3>4. Intends BY <2>3, <3>1, <3>2, <3>3 DEF CommitIntent, Intends, c, data
      <3> QED BY <2>r, <3>1, <3>4 DEF TaskMoves, n
    <2>4. CASE CommitEffect
      <3>1. Op = "effect" /\ Continue BY <2>4 DEF CommitEffect
      <3>2. ~ App /\ c.name = "receipt" /\ Operand = "base"
        BY <1>1, <3>1 DEF StepPlace, Op, Operand
      <3>3. Gen = "control" BY <1>2, <3>2
      <3>4. Supplies BY <2>4, <3>1, <3>2, <3>3 DEF CommitEffect, Supplies, c
      <3> QED BY <2>r, <3>1, <3>4 DEF TaskMoves, n
    <2>5. CASE Propose
      <3>1. Op = "propose" BY <2>5 DEF Propose
      <3>2. /\ App
            /\ \/ c.name = "baseline" /\ task.pc = 3 /\ Operand = "base" /\ Gen = "control"
               \/ c.name = "control" /\ task.pc = 2 /\ Operand = "more" /\ Gen = "control"
               \/ c.phase = "matching" /\ task.pc = 5 /\ Operand = "new" /\ Gen = "matching"
        BY <1>1, <1>2, <3>1 DEF StepPlace, Op, Operand, Restores
      <3>3. CASE Gen \in closed BY <1>q, <2>5, <3>3 DEF Propose, Requires
      <3>4. CASE Gen \notin closed
        <4>1. Continue /\ Recorded(Operand) /\ UNCHANGED closed
          BY <2>5, <3>4 DEF Propose, Requires
        <4>2. Proposes(Operand) BY <3>2, <4>1 DEF Proposes, c
        <4>3. Operand \in Keys BY <3>2 DEF Keys
        <4> QED BY <2>r, <3>1, <4>2, <4>3 DEF TaskMoves, n
      <3> QED BY <3>3, <3>4
    <2>6. CASE Once
      <3>1. Op = "once" BY <2>6 DEF Once
      <3>2. /\ App
            /\ \/ c.name = "baseline" /\ task.pc = 4 /\ Operand = "base" /\ Gen = "control"
               \/ c.name = "control" /\ task.pc = 3 /\ Operand = "more" /\ Gen = "control"
               \/ c.phase = "matching" /\ task.pc = 6 /\ Operand = "new" /\ Gen = "matching"
        BY <1>1, <1>2, <3>1 DEF StepPlace, Op, Operand, Restores
      <3>3. CASE ~ (Gen \notin closed /\ Operand \in led[Gen])
        BY <1>q, <2>6, <3>3 DEF Once, Requires
      <3>4. CASE Gen \notin closed /\ Operand \in led[Gen]
        <4>1. /\ Continue /\ led' = [led EXCEPT !["receipts"] = @ \union {Operand}]
              /\ UNCHANGED <<closed, at, now>>
          BY <2>6, <3>4 DEF Once, Requires
        <4>2. Delivers(Operand) BY <3>2, <3>4, <4>1 DEF Delivers, c
        <4>3. Operand \in Keys BY <3>2 DEF Keys
        <4> QED BY <2>r, <3>1, <4>2, <4>3 DEF TaskMoves, n
      <3> QED BY <3>3, <3>4
    <2>7. CASE CloseGate
      <3>1. /\ Op = "close" /\ Continue /\ closed' = closed \union {Gen}
            /\ UNCHANGED <<led, at, now>>
        BY <2>7 DEF CloseGate
      <3>2. App /\ c.phase \in Restores /\ task.pc = 2 BY <1>1, <3>1 DEF StepPlace, Op
      <3>3. Closes BY <1>2, <3>1, <3>2 DEF Closes, c
      <3> QED BY <2>r, <3>1, <3>3 DEF TaskMoves, n
    <2>8. CASE ReopenGate
      <3>1. /\ Op = "resume" /\ Continue /\ closed' = closed \ {Gen}
            /\ UNCHANGED <<led, at, now>>
        BY <2>8 DEF ReopenGate
      <3>2. App /\ c.phase = "matching" /\ task.pc = 4 BY <1>1, <3>1 DEF StepPlace, Op
      <3>3. Reopens BY <1>2, <3>1, <3>2 DEF Reopens, c, Restores
      <3> QED BY <2>r, <3>1, <3>3 DEF TaskMoves, n
    <2>9. CASE Checks
      <3>1. UNCHANGED <<led, closed, at, now>> /\ (Continue \/ Ended(NoOutcome))
        BY <2>9 DEF Checks, Requires
      <3>2. CASE Ended(NoOutcome) BY <1>q, <3>1, <3>2
      <3>3. CASE Op = "remote" /\ led["receipts"] = Operand /\ Continue
        <4>1. /\ App /\ task.pc = 1
              /\ \/ c.name = "baseline" /\ Operand = {}
                 \/ c.name = "control" /\ Operand = {"base"}
                 \/ c.name = "receipt"
          BY <1>1, <3>3 DEF StepPlace, Op, Operand
        <4>2. Passes BY <2>r, <3>1, <3>3, <4>1 DEF Passes, data, n, c
        <4> QED BY <2>p, <3>3, <4>2
      <3>4. CASE Op = "empty" /\ led[Gen] = {} /\ Continue
        <4>1. App /\ task.pc = 2 /\ (c.name = "baseline" \/ c.phase = "source-preflight")
          BY <1>1, <3>4 DEF StepPlace, Op
        <4>2. c.name # "control" /\ (c.name = "baseline" => Gen = "control" /\ c.phase = "none")
          BY <1>2, <4>1 DEF Restores
        <4>3. Passes BY <2>r, <3>1, <3>4, <4>1, <4>2 DEF Passes, data, n, c
        <4> QED BY <2>p, <3>4, <4>3
      <3>5. CASE Op = "behind" /\ Continue
        <4>1. App /\ task.pc = 3 /\ c.phase = "behind" BY <1>1, <3>5 DEF StepPlace, Op
        <4>2. c.name = "receipt" BY <1>2, <4>1
        <4>3. Passes BY <2>r, <3>1, <3>5, <4>1, <4>2 DEF Passes, data, n, c
        <4> QED BY <2>p, <3>5, <4>3
      <3>6. CASE Op = "refused" /\ Continue
        <4>1. App /\ task.pc = 4 /\ c.phase = "behind" BY <1>1, <3>6 DEF StepPlace, Op
        <4>2. c.name = "receipt" BY <1>2, <4>1
        <4>3. Passes BY <2>r, <3>1, <3>6, <4>1, <4>2 DEF Passes, data, n, c
        <4> QED BY <2>p, <3>6, <4>3
      <3>7. CASE Op = "matches" /\ Comparable(Gen) /\ Continue
        <4>1. App /\ task.pc = 3 /\ c.phase = "matching" BY <1>1, <3>7 DEF StepPlace, Op
        <4>2. c.name = "receipt" /\ Gen = "matching" BY <1>2, <4>1 DEF Restores
        <4>3. Passes BY <2>r, <3>1, <3>7, <4>1, <4>2 DEF Passes, data, n, c
        <4> QED BY <2>p, <3>7, <4>3
      <3> QED BY <2>9, <3>2, <3>3, <3>4, <3>5, <3>6, <3>7 DEF Checks, Requires
    <2>10. CASE Report
      <3>1. Op = "report" /\ Ended(Outcome) /\ UNCHANGED <<led, closed, at, now>>
        BY <2>10 DEF Report
      <3>2. task.pc = n BY <1>1, <3>1 DEF StepPlace, Op
      <3> QED BY <2>0, <3>1, <3>2 DEF Reports, data, n
    <2> QED
      BY <1>4, <2>0, <2>1, <2>2, <2>3, <2>4, <2>5, <2>6, <2>7, <2>8, <2>9, <2>10 DEF TaskRuns, n
  <1> QED BY <1>3, <1>4 DEF n

(* The task takes a step, and its outcome is recorded when it ends.         *)
Works ==
    /\ Alive /\ UNCHANGED <<wf, db, late, store, ctl>>
    /\ Quits \/ Reports \/ (TaskMoves /\ task.pc # Len(Steps(task.call)))

(* The nine classes of steps.                                               *)
StepKinds ==
    \/ Aside \/ Expires \/ StopsTask \/ Works
    \/ Starts \/ Breaks \/ Gates \/ Launches \/ Moves

(* Every step of the system is of one of these classes.                     *)
LEMMA StepCases ==
    ASSUME TypeInv, WatchLate, [Next]_vars
    PROVE  StepKinds
  <1>1. CASE Cloud /\ UNCHANGED <<controllerVars, guardVars>>
    BY <1>1, CloudCases, TaskCases DEF StepKinds, Works
  <1>2. CASE ControllerNext
    BY <1>2, ControlCases DEF StepKinds
  <1>3. CASE GuardNext
    BY <1>3, GuardCases DEF StepKinds
  <1>4. CASE UNCHANGED vars
    BY <1>4 DEF StepKinds, Aside, Keeps, vars, nativeVars, cloudVars, controllerVars, data
  <1> QED BY <1>1, <1>2, <1>3, <1>4 DEF Next

(* The workflow and all that is derived from it never changes.              *)
LEMMA FlowConstant ==
    ASSUME StepKinds
    PROVE  wf' = wf /\ App' = App /\ Program' = Program /\ Requests' = Requests
  <1>1. wf' = wf
    BY DEF StepKinds, Aside, Expires, StopsTask, Works, Starts, Breaks, Gates, Launches, Moves
  <1> QED BY <1>1 DEF App, Program, Requests

-----------------------------------------------------------------------------
(* Type correctness.                                                        *)

(* The type of outcomes.                                                    *)
LEMMA NoTaskType == NoOutcome \in Outcomes
  BY DEF NoOutcome, Outcomes, Keys

LEMMA OutcomeType == TypeInv => Outcome \in Outcomes
  BY DEF TypeInv, TaskType, DataType, Tasks, Outcome, Outcomes, Requests, TaskCalls, Restores, Gens

(* One lemma for each conjunct of TypeInv.                                  *)
LEMMA DataTyped ==
    ASSUME TypeInv, StepKinds
    PROVE  DataType'
  <1>0. DataType /\ TaskType /\ wf \in Flows /\ CtlType BY DEF TypeInv
  <1>u. UNCHANGED data => DataType' BY <1>0 DEF DataType, data
  <1>g. Gen \in Gens /\ "control" \in Gens /\ "receipts" \in Gens
    BY <1>0 DEF TaskType, Tasks, Requests, TaskCalls, Gens, Gen, Restores
  <1>r. ASSUME NEW k \in Keys, Recorded(k), UNCHANGED closed PROVE DataType'
    BY <1>0, <1>r, <1>g DEF Recorded, DataType
  <1>e. ASSUME NEW k \in Keys, led' = [led EXCEPT !["receipts"] = @ \union {k}], UNCHANGED <<closed, at, now>>
        PROVE  DataType'
    BY <1>0, <1>e, <1>g DEF DataType
  <1>1. CASE Works
    <2>1. CASE Quits \/ Reports BY <1>u, <2>1 DEF Quits, Reports
    <2>2. CASE Passes BY <1>u, <2>2 DEF Passes
    <2>3. CASE Intends BY <1>u, <1>r, <2>3 DEF Intends, Keys
    <2>4. CASE Supplies BY <1>e, <2>4 DEF Supplies, Keys
    <2>5. CASE Closes \/ Reopens BY <1>0, <1>g, <2>5 DEF Closes, Reopens, DataType
    <2>6. ASSUME NEW k \in Keys, Proposes(k) \/ Delivers(k) PROVE DataType'
      BY <1>r, <1>e, <2>6 DEF Proposes, Delivers
    <2> QED BY <1>1, <2>1, <2>2, <2>3, <2>4, <2>5, <2>6 DEF Works, TaskMoves
  <1>2. CASE Moves
    <2>1. now' \in Nat /\ at' = at /\ closed' = closed BY <1>2 DEF Moves
    <2>2. CASE led' = led BY <1>0, <2>1, <2>2 DEF DataType
    <2>3. CASE RestoreGeneration
      <3>1. led' = [led EXCEPT ![Call[2]] = ContentAt(ctl.points[Call[3]].at)]
        BY <2>3 DEF RestoreGeneration, RestoreTo
      <3>2. ContentAt(ctl.points[Call[3]].at) \in SUBSET Keys
        BY <1>0 DEF ContentAt, DataType, Gens
      <3> QED BY <1>0, <2>1, <3>1, <3>2 DEF DataType
    <2> QED BY <1>2, <2>2, <2>3 DEF Moves
  <1>3. CASE ~ Works /\ ~ Moves
    BY <1>3, <1>u DEF StepKinds, Aside, Expires, StopsTask, Starts, Breaks, Gates, Launches
  <1> QED BY <1>1, <1>2, <1>3

LEMMA TaskTyped ==
    ASSUME TypeInv, StepKinds
    PROVE  TaskType'
  <1>0. /\ task \in Tasks /\ task.pc \in 1 .. Len(StepsOf(wf, task.call))
        /\ ran \subseteq Requests \X Outcomes /\ wf \in Flows
        /\ Outcome \in Outcomes /\ NoOutcome \in Outcomes /\ NoCall \in Requests
        /\ task.call \in Requests
    <2>1. NoCall \in Requests BY DEF NoCall, Requests, TaskCalls, Restores
    <2> QED BY <2>1, OutcomeType, NoTaskType DEF TypeInv, TaskType, Tasks
  <1>c. wf' = wf /\ Requests' = Requests BY FlowConstant
  <1>n. \A c \in Requests : Len(StepsOf(wf, c)) \in Nat /\ Len(StepsOf(wf, c)) >= 1
    BY StepsNonempty DEF Steps, StepsOf
  <1>t. ASSUME NEW t \in Tasks, task' = t, t.pc \in 1 .. Len(StepsOf(wf, t.call)),
               ran' \subseteq Requests \X Outcomes
        PROVE  TaskType'
    <2>1. Tasks' = Tasks BY <1>c DEF Tasks
    <2> QED BY <1>c, <1>t, <2>1 DEF TaskType
  <1>u. ASSUME UNCHANGED task, ran' \subseteq ran PROVE TaskType'
    BY <1>0, <1>t, <1>u
  <1>s. ASSUME task' = [task EXCEPT !.st = "stopping"], UNCHANGED ran PROVE TaskType'
    <2>1. /\ [task EXCEPT !.st = "stopping"] \in Tasks
          /\ [task EXCEPT !.st = "stopping"].pc = task.pc
          /\ [task EXCEPT !.st = "stopping"].call = task.call
      BY <1>0 DEF Tasks
    <2> QED BY <1>0, <1>t, <1>s, <2>1
  <1>l. ASSUME NEW c \in Requests, NEW o \in Outcomes, NEW s \in {"running", "stopped"},
               UNCHANGED ran, task' = [call |-> c, pc |-> 1, st |-> s, out |-> o]
        PROVE  TaskType'
    <2>1. [call |-> c, pc |-> 1, st |-> s, out |-> o] \in Tasks BY DEF Tasks
    <2>2. 1 \in 1 .. Len(StepsOf(wf, c)) BY <1>n
    <2> QED BY <1>0, <1>t, <1>l, <2>1, <2>2
  <1>e. ASSUME NEW o \in Outcomes, Ended(o) PROVE TaskType'
    <2>1. /\ [task EXCEPT !.st = "stopped", !.pc = 1, !.out = o] \in Tasks
          /\ [task EXCEPT !.st = "stopped", !.pc = 1, !.out = o].pc = 1
          /\ [task EXCEPT !.st = "stopped", !.pc = 1, !.out = o].call = task.call
      BY <1>0 DEF Tasks
    <2>2. 1 \in 1 .. Len(StepsOf(wf, task.call)) BY <1>0, <1>n
    <2>3. ran' \subseteq Requests \X Outcomes BY <1>0, <1>e DEF Ended
    <2> QED BY <1>e, <1>t, <2>1, <2>2, <2>3 DEF Ended
  <1>p. ASSUME Continue, task.pc # Len(Steps(task.call)) PROVE TaskType'
    <2>1. task.pc + 1 \in 1 .. Len(StepsOf(wf, task.call))
      BY <1>0, <1>n, <1>p DEF Steps, StepsOf
    <2>2. /\ [task EXCEPT !.pc = @ + 1] \in Tasks
          /\ [task EXCEPT !.pc = @ + 1].pc = task.pc + 1
          /\ [task EXCEPT !.pc = @ + 1].call = task.call
      BY <1>0, <2>1 DEF Tasks
    <2> QED BY <1>0, <1>p, <1>t, <2>1, <2>2 DEF Continue
  <1>1. CASE Works
    <2>1. CASE Quits BY <1>0, <1>e, <2>1 DEF Quits
    <2>2. CASE Reports BY <1>0, <1>e, <2>2 DEF Reports
    <2>3. CASE TaskMoves /\ task.pc # Len(Steps(task.call))
      BY <1>p, <2>3 DEF TaskMoves, Passes, Intends, Supplies, Closes, Reopens, Proposes, Delivers
    <2> QED BY <1>1, <2>1, <2>2, <2>3 DEF Works
  <1>r. At("run") => Call[2] \in Requests BY <1>0, RunRequests DEF At, Call, TypeInv, CtlType
  <1>2. CASE Breaks
    <2>1. CASE At("run") /\ task' = [NoTask EXCEPT !.call = Call[2], !.st = "running"]
      BY <1>0, <1>2, <1>l, <1>r, <2>1 DEF Breaks, NoTask
    <2> QED BY <1>2, <1>u, <1>s, <2>1 DEF Breaks
  <1>3. CASE Launches
    <2>1. CASE task' = [NoTask EXCEPT !.call = Call[2], !.st = "running"]
      BY <1>0, <1>3, <1>l, <1>r, <2>1 DEF Launches, NoTask
    <2>2. ASSUME NEW r \in ran, task' = [NoTask EXCEPT !.call = Call[2], !.st = "stopped", !.out = r[2]]
          PROVE  TaskType'
      <3>1. r[2] \in Outcomes BY <1>0
      <3> QED BY <1>0, <1>3, <1>l, <1>r, <2>2, <3>1 DEF Launches, NoTask
    <2> QED BY <1>3, <2>1, <2>2 DEF Launches
  <1>4. CASE ~ Works /\ ~ Breaks /\ ~ Launches
    BY <1>4, <1>u, <1>s DEF StepKinds, Aside, Expires, StopsTask, Starts, Gates, Moves
  <1> QED BY <1>1, <1>2, <1>3, <1>4

LEMMA CtlTyped ==
    ASSUME TypeInv, StepKinds, Next \/ UNCHANGED vars
    PROVE  CtlType'
  <1>1. Program' = Program BY FlowConstant
  <1>2. ctl' \in Controllers /\ ctl'.pc \in 1 .. Len(Program)
    BY ControlCases, DeployLeaves
       DEF TypeInv, CtlType, Next, GuardNext, vars, nativeVars, controllerVars, cloudVars, guardVars,
           InitializeRegistry, Pass, PassReads, PassRegisters, PassLists, Sweep,
           PassSweeps, PassCutOff, CheckerReports, FinalizeArchives, FinalizeStops,
           FinalizeDeletes, WaitingEnds, AuditRuntime, AuditGuard
  <1> QED BY <1>1, <1>2 DEF CtlType

LEMMA CloudTyped ==
    ASSUME TypeInv, Next \/ UNCHANGED vars
    PROVE  CloudType'
  <1>0. /\ CloudType /\ GuardType /\ wf \in Flows /\ ctl.pc \in 1 .. Len(Program)
        /\ Restores \subseteq Gens /\ "control" \in Gens /\ "receipts" \in Gens
    BY DEF TypeInv, CtlType, Gens
  <1>u. UNCHANGED <<db, prot, backup, res, late, store>> => CloudType'
    BY <1>0 DEF CloudType
  <1>c. Call \in CallSet BY <1>0, ProgramAt DEF Call
  <1>s. ASSUME UNCHANGED <<db, prot, backup, res, late>>, store' \in Stores PROVE CloudType'
    BY <1>0, <1>s DEF CloudType
  <1>p. PreserveObservation => store' \in Stores
    BY <1>0 DEF PreserveObservation, CloudType, Stores
  <1>1. ASSUME NEW g, DatabaseSettles(g) PROVE CloudType'
    BY <1>0, <1>1 DEF DatabaseSettles, CloudType, DbStates, Backups
  <1>2. CASE EndpointSettles BY <1>0, <1>2 DEF EndpointSettles, CloudType, ResStates
  <1>3. CASE Deadline BY <1>0, <1>3 DEF Deadline, CloudType
  <1>4. CASE TaskDies BY <1>u, <1>4 DEF TaskDies
  <1>5. CASE TaskRuns
    <2>1. res' \in [Kinds -> ResStates]
      BY <1>0, <1>5 DEF TaskRuns, CloudType, Unconfigured, FillSecrets, ResStates
    <2> QED BY <1>0, <1>5, <2>1 DEF TaskRuns, CloudType
  <1>6. CASE ControllerNext
    <2>1. CASE Start BY <1>u, <2>1 DEF Start, cloudVars
    <2>2. CASE Gate BY <1>u, <2>2 DEF Gate, cloudVars
    <2>3. CASE ControllerFails BY <1>u, <1>s, <1>p, <2>3 DEF ControllerFails
    <2>4. CASE Claim
      <3>1. store' \in Stores BY <1>0, <2>4 DEF Claim, CloudType, Stores
      <3> QED BY <1>s, <2>4, <3>1 DEF Claim
    <2>5. CASE RequireBoth \/ Mark \/ Freeze \/ Poll
      BY <1>u, <2>5 DEF RequireBoth, Mark, Freeze, Poll, cloudVars
    <2>6. CASE Launch BY <1>s, <1>p, <2>6 DEF Launch
    <2>7. CASE AwaitResult BY <1>s, <1>p, <2>7 DEF AwaitResult
    <2>8. CASE Window BY <1>u, <2>8 DEF Window
    <2>9. CASE SelectPoint
      <3>1. store' \in Stores BY <1>0, <2>9 DEF SelectPoint, CloudType, Stores
      <3> QED BY <1>s, <2>9, <3>1 DEF SelectPoint
    <2>10. CASE TagBackup
      BY <1>0, <2>10 DEF TagBackup, CloudType, Backups
    <2>11. CASE Register
      <3>1. store' \in Stores BY <1>0, <2>11 DEF Register, CloudType, Stores
      <3> QED BY <1>s, <2>11, <3>1 DEF Register
    <2>12. CASE Checkpoint
      <3>1. store' \in Stores BY <1>0, <2>12 DEF Checkpoint, CloudType, Stores
      <3> QED BY <1>s, <2>12, <3>1 DEF Checkpoint
    <2>13. CASE Remember
      <3>1. Call[2] \in Gens BY <1>0, <1>c, <2>13, CallTyped DEF Remember, At
      <3>2. store' \in Stores BY <1>0, <2>13, <3>1 DEF Remember, CloudType, Stores
      <3> QED BY <1>s, <2>13, <3>2 DEF Remember
    <2>14. CASE Unprotect BY <1>0, <2>14 DEF Unprotect, CloudType
    <2>15. CASE DeleteGeneration
      <3>1. db' \in [Gens -> DbStates] /\ backup' \in Backups
        BY <1>0, <2>15 DEF DeleteGeneration, WithoutBackups, DeleteInstance, CloudType, DbStates, Backups
      <3> QED BY <1>0, <2>15, <3>1 DEF DeleteGeneration, CloudType
    <2>16. CASE RestoreGeneration
      <3>1. Call[2] \in Gens BY <1>0, <1>c, <2>16, CallTyped DEF RestoreGeneration, At
      <3>2. db' \in [Gens -> DbStates] /\ prot' \subseteq Gens
        BY <1>0, <2>16, <3>1 DEF RestoreGeneration, RestoreTo, CloudType, DbStates
      <3> QED BY <1>0, <2>16, <3>2 DEF RestoreGeneration, CloudType
    <2> QED
      BY <1>6, <2>1, <2>2, <2>3, <2>4, <2>5, <2>6, <2>7, <2>8, <2>9, <2>10, <2>11, <2>12, <2>13,
         <2>14, <2>15, <2>16 DEF ControllerNext
  <1>7. CASE InitializeRegistry
    <2>1. store' \in Stores BY <1>0, <1>7 DEF InitializeRegistry, CloudType, Stores
    <2> QED BY <1>s, <1>7, <2>1 DEF InitializeRegistry
  <1>8. CASE Deploy
    <2>1. CASE DeployStarts \/ DeployFails
      BY <1>u, <2>1 DEF DeployStarts, DeployFails, nativeVars, cloudVars
    <2>2. CASE DeployLayer
      <3>1. res' \in [Kinds -> ResStates] BY <1>0, <2>2 DEF DeployLayer, CloudType, ResStates
      <3> QED BY <1>0, <2>2, <3>1 DEF DeployLayer, CloudType
    <2>3. ASSUME NEW g \in {"control", "receipts"}, DeployDatabase(g) PROVE CloudType'
      <3>1. db' \in [Gens -> DbStates] /\ prot' \subseteq Gens
        BY <1>0, <2>3 DEF DeployDatabase, CloudType, DbStates
      <3>2. backup' \in Backups BY <1>0, <2>3 DEF DeployDatabase, CloudType, Backups
      <3> QED BY <1>0, <2>3, <3>1, <3>2 DEF DeployDatabase, CloudType
    <2> QED BY <1>8, <2>1, <2>2, <2>3 DEF Deploy
  <1>9. CASE PassReads \/ PassLists BY <1>u, <1>9 DEF PassReads, PassLists, nativeVars, cloudVars
  <1>10. CASE PassRegisters
    <2>1. store' \in Stores
      <3>1. watch.known \union Owners \subseteq Gens
        BY <1>0 DEF GuardType, Watches, Owners
      <3> QED BY <1>0, <1>10, <3>1 DEF PassRegisters, CloudType, Stores
    <2> QED BY <1>s, <1>10, <2>1 DEF PassRegisters
  <1>11. ASSUME NEW failed, PassSweeps(failed) PROVE CloudType'
    <2>1. store' \in Stores BY <1>0, <1>11 DEF PassSweeps, CloudType, Stores
    <2>2. watch.view.res \in [Kinds -> ResStates] BY <1>0 DEF GuardType, Watches, Views
    <2>3. SweptResources(failed) \in [Kinds -> ResStates]
      <3>1. ASSUME NEW k \in Kinds PROVE Swept(k, watch.view.res[k]) \in ResStates
        BY DEF Swept, ResStates
      <3>2. ASSUME NEW k \in Kinds PROVE res[k] \in ResStates BY <1>0 DEF CloudType
      <3> QED BY <3>1, <3>2 DEF SweptResources
    <2>4. db' \in [Gens -> DbStates] BY <1>0, <1>11 DEF PassSweeps, CloudType, DbStates
    <2>5. backup' \in Backups BY <1>0, <1>11 DEF PassSweeps, CloudType, Backups
    <2>6. prot' \subseteq Gens BY <1>0, <1>11 DEF PassSweeps, CloudType
    <2>7. res' \in [Kinds -> ResStates] BY <1>0, <1>11, <2>3 DEF PassSweeps, CloudType
    <2> QED BY <1>0, <1>11, <2>1, <2>4, <2>5, <2>6, <2>7 DEF PassSweeps, CloudType
  <1>12. CASE PassCutOff BY <1>u, <1>12 DEF PassCutOff, cloudVars
  <1>13. CASE CheckerReports
    <2>1. store' \in Stores BY <1>0, <1>13 DEF CheckerReports, CloudType, Stores
    <2> QED BY <1>s, <1>13, <2>1 DEF CheckerReports
  <1>14. CASE FinalizeArchives
    <2>1. store' \in Stores BY <1>0, <1>14 DEF FinalizeArchives, CloudType, Stores
    <2> QED BY <1>s, <1>14, <2>1 DEF FinalizeArchives
  <1>15. CASE FinalizeStops \/ AuditRuntime \/ AuditGuard
    BY <1>u, <1>15 DEF FinalizeStops, AuditRuntime, AuditGuard, nativeVars, cloudVars
  <1>16. CASE FinalizeDeletes
    <2>1. store' \in Stores BY <1>0, <1>16 DEF FinalizeDeletes, CloudType, Stores
    <2> QED BY <1>s, <1>16, <2>1 DEF FinalizeDeletes
  <1>17. CASE WaitingEnds
    <2>1. res' \in [Kinds -> ResStates] BY <1>0, <1>17 DEF WaitingEnds, CloudType, ResStates
    <2> QED BY <1>0, <1>17, <2>1 DEF WaitingEnds, CloudType
  <1>18. CASE UNCHANGED vars BY <1>u, <1>18 DEF vars, nativeVars, cloudVars
  <1> QED
    BY <1>1, <1>2, <1>3, <1>4, <1>5, <1>6, <1>7, <1>8, <1>9, <1>10, <1>11, <1>12, <1>13, <1>14,
       <1>15, <1>16, <1>17, <1>18
       DEF Next, Cloud, Settles, GuardNext, Pass, Sweep

(* A listing is a view.                                                     *)
LEMMA ListingType == TypeInv => Listing \in Views
  BY DEF TypeInv, CloudType, Listing, Views, DbStates, Backups, Listed

LEMMA GuardTyped ==
    ASSUME TypeInv, Next \/ UNCHANGED vars
    PROVE  GuardType'
  <1>0. GuardType /\ Listing \in Views /\ NoView \in Views /\ store \in Stores
    <2>1. NoView \in Views BY DEF NoView, Views, DbStates, Backups, ResStates
    <2> QED BY <2>1, ListingType DEF TypeInv, CloudType
  <1>u. UNCHANGED guardVars => GuardType' BY <1>0 DEF GuardType, guardVars
  <1>1. CASE Cloud /\ UNCHANGED guardVars BY <1>u, <1>1
  <1>2. CASE ControllerNext /\ UNCHANGED guardVars BY <1>u, <1>2
  <1>3. CASE InitializeRegistry \/ CheckerReports
    BY <1>u, <1>3 DEF InitializeRegistry, CheckerReports
  <1>d. CASE Deploy
    <2>1. UNCHANGED <<watch, guard>> BY <1>d, DeployLeaves
    <2>0. deploy \in Deployments BY <1>0 DEF GuardType
    <2>2. deploy' \in Deployments
      <3>1. CASE DeployStarts BY <2>0, <3>1 DEF DeployStarts, Deployments
      <3>2. CASE DeployFails BY <2>0, <3>2 DEF DeployFails, Deployments
      <3>3. CASE DeployLayer
        <4>1. deploy' = [deploy EXCEPT !.built = deploy.built + 1, !.applying = deploy.built + 1 < 4]
              /\ deploy.built + 1 \in 1 .. 4
          BY <3>3 DEF DeployLayer
        <4>2. (deploy.built + 1 < 4) \in BOOLEAN /\ deploy.built + 1 \in 0 .. 4 BY <4>1
        <4> QED BY <2>0, <4>1, <4>2 DEF Deployments
      <3>4. ASSUME NEW g \in {"control", "receipts"}, DeployDatabase(g) PROVE deploy' \in Deployments
        <4>1. g \in Gens BY DEF Gens
        <4> QED BY <2>0, <3>4, <4>1 DEF DeployDatabase, Deployments
      <3> QED BY <1>d, <3>1, <3>2, <3>3, <3>4 DEF Deploy
    <2> QED BY <1>0, <2>1, <2>2 DEF GuardType
  <1>4. CASE PassReads BY <1>0, <1>4 DEF PassReads, GuardType, Watches, Stores
  <1>5. CASE PassRegisters BY <1>0, <1>5 DEF PassRegisters, GuardType, Watches
  <1>6. CASE PassLists BY <1>0, <1>6 DEF PassLists, GuardType, Watches, Deployments
  <1>7. ASSUME NEW failed, PassSweeps(failed) PROVE GuardType'
    BY <1>0, <1>7 DEF PassSweeps, GuardType, Watches
  <1>8. CASE PassCutOff BY <1>0, <1>8 DEF PassCutOff, GuardType, Watches
  <1>9. CASE FinalizeArchives BY <1>0, <1>9 DEF FinalizeArchives, GuardType, Guards
  <1>10. CASE FinalizeStops BY <1>0, <1>10 DEF FinalizeStops, GuardType, Guards
  <1>11. CASE FinalizeDeletes BY <1>0, <1>11 DEF FinalizeDeletes, GuardType, Guards
  <1>12. CASE WaitingEnds BY <1>0, <1>12 DEF WaitingEnds, GuardType, Guards
  <1>13. CASE AuditRuntime BY <1>0, <1>13 DEF AuditRuntime, GuardType, Guards
  <1>14. CASE AuditGuard BY <1>0, <1>14 DEF AuditGuard, GuardType, Guards
  <1>15. CASE UNCHANGED vars BY <1>u, <1>15 DEF vars
  <1> QED
    BY <1>1, <1>2, <1>3, <1>d, <1>4, <1>5, <1>6, <1>7, <1>8, <1>9, <1>10, <1>11, <1>12, <1>13,
       <1>14, <1>15
       DEF Next, GuardNext, Pass, Sweep

(* Passes stay behind the deadline.                                         *)
LEMMA WatchLateStep ==
    ASSUME TypeInv, WatchLate, Next \/ UNCHANGED vars
    PROVE  WatchLate'
  <1>0. watch \in Watches BY DEF TypeInv, GuardType
  <1>1. late => late'
    BY StepCases DEF StepKinds, Aside, Expires, StopsTask, Works, Starts, Breaks, Gates, Launches, Moves
  <1>2. watch'.pc = "idle" \/ watch'.pc = watch.pc \/ watch.pc # "idle" \/ late
    BY <1>0, DeployLeaves
       DEF Next, GuardNext, vars, guardVars, Pass, Sweep, PassReads, PassRegisters, PassLists,
       PassSweeps, PassCutOff, InitializeRegistry, CheckerReports, FinalizeArchives,
       FinalizeStops, FinalizeDeletes, WaitingEnds, AuditRuntime, AuditGuard, Watches
  <1> QED BY <1>1, <1>2 DEF WatchLate

(* TypeInv and WatchLate hold initially and are preserved.                  *)
LEMMA TypeInit == Init => TypeInv /\ WatchLate
  <1> SUFFICES ASSUME Init PROVE TypeInv /\ WatchLate OBVIOUS
  <1>0. wf \in Flows BY WorkflowsAssumption DEF Init, Flows
  <1>1. DataType BY StartAssumption DEF Init, CloudInit, DataType
  <1>2. TaskType
    <2>1. NoCall \in Requests BY DEF NoCall, Requests, TaskCalls, Restores
    <2>2. task \in Tasks BY <2>1, NoTaskType DEF Init, CloudInit, NoTask, Tasks
    <2>3. task.pc = 1 /\ task.call = NoCall /\ ran = {} BY DEF Init, CloudInit, NoTask
    <2>4. 1 \in 1 .. Len(StepsOf(wf, NoCall)) BY <2>1, StepsNonempty DEF Steps, StepsOf
    <2> QED BY <2>2, <2>3, <2>4 DEF TaskType
  <1>3. CtlType
    <2>1. Len(Program) \in Nat /\ 1 \in 1 .. Len(Program)
      <3>1. Len(Sql) = 14 /\ Len(Retained) = 25 /\ Len(Application) = 30
        BY SqlIndexed, RetainedIndexed, ApplicationIndexed
      <3>2. Program \in {Sql, Retained, Application} BY <1>0 DEF Program, Flows
      <3> QED BY <3>1, <3>2
    <2> QED BY <2>1, IdleType DEF Init, ControllerInit, CtlType, Controllers, Idle, Ledgers
  <1>4. CloudType BY DEF Init, CloudInit, CloudType, DbStates, Backups, ResStates, Stores
  <1>5. GuardType /\ WatchLate
    BY DEF Init, GuardInit, GuardType, WatchLate, Watches, Guards, Deployments, NoView, Views,
       DbStates, Backups, ResStates
  <1> QED BY <1>0, <1>1, <1>2, <1>3, <1>4, <1>5 DEF TypeInv

LEMMA TypeStep ==
    ASSUME TypeInv, WatchLate, [Next]_vars
    PROVE  TypeInv' /\ WatchLate' /\ StepKinds
  <1>1. StepKinds BY StepCases
  <1>2. wf' \in Flows BY <1>1, FlowConstant DEF TypeInv
  <1> QED
    BY <1>1, <1>2, DataTyped, TaskTyped, CtlTyped, CloudTyped, GuardTyped, WatchLateStep DEF TypeInv

-----------------------------------------------------------------------------
(* The guard.                                                               *)

(* No database and no backup is there: nothing encrypted.                   *)
Nothing == Instances = {} /\ backup.st = "none"

(* No database and no backup is there but those a deployment asked for      *)
(* behind the last listing under the key.                                   *)
OnlyUnseen == /\ Instances \subseteq deploy.unseen
              /\ backup.st # "none" => "control" \in deploy.unseen

(* During a sweep the listing may be out of date, but where it shows        *)
(* nothing encrypted there is nothing but what a deployment has added, and  *)
(* only the sweep closes task definitions.                                  *)
SweepView == watch.pc = "sweep" =>
    /\ (KindsOf(watch.view) \intersect Encrypted = {}) => OnlyUnseen
    /\ watch.view.res["task_definition"] \in {res["task_definition"], "gone"}

(* The guard is not retired under a deployment.                             *)
Deploying == deploy.applying => guard.st = "armed" /\ guard.fin = "none"

(* A workflow starts on a complete deployment, made before the deadline.    *)
Unstarted ==
    /\ (deploy.built < 4 \/ deploy.unseen # {}) => ctl.st = "none"
    /\ deploy.unseen # {} => late
    /\ res["task_definition"] # "gone" => deploy.built = 4

(* Once the guard has gone there is no bucket, no pass and nothing in the   *)
(* bucket that was not archived.                                            *)
Retired == guard.st \in {"gone", "erased"} =>
    /\ ~ store.bucket /\ ~ store.fresh
    /\ watch.pc = "idle" /\ guard.fin = "gone"

(* What ActiveAbsent of a listing means for the resources: gone, or on the  *)
(* way out where AWS keeps a tombstone.                                     *)
RuntimeAbsent ==
    /\ Nothing
    /\ \A k \in Kinds : \/ res[k] = "gone"
                        \/ k \in {"key", "secret", "task_definition"} /\ res[k] = "closing"

(* Nothing at all is left.                                                  *)
RuntimeErased == Nothing /\ \A k \in Kinds : res[k] = "gone"

(* From the beginning of its retirement on (native_finalize_guard.py:24)    *)
(* the runtime is absent.                                                   *)
RetiringAbsent == guard.fin # "none" => RuntimeAbsent

(* The log group goes only after it was archived, and it was there before   *)
(* the receipts database.                                                   *)
LogsKept ==
    /\ res["log_group"] \in {"present", "gone"}
    /\ (deploy.built >= 2 /\ res["key"] = "present" /\ res["log_group"] = "gone") => store.logs
    /\ (db["receipts"] # "absent" /\ res["log_group"] = "gone") => store.logs

(* What the last reader reported is so (native_post_teardown.py:99-113).    *)
Audited == guard.audit \in {"runtime", "clear"} =>
    /\ guard.st \in {"gone", "erased"} /\ RuntimeErased
    /\ guard.audit = "clear" => guard.st = "erased"

(* The inductive invariant of resources and guard.                          *)
GuardInv == /\ WatchLate /\ SweepView /\ KeyOutlivesData
            /\ Deploying /\ Unstarted /\ Retired /\ RetiringAbsent /\ LogsKept /\ Audited

(* What a listing that is taken now says of the resources.                  *)
LEMMA ListingIs ==
    ASSUME backup \in Backups, db \in [Gens -> DbStates]
    PROVE  /\ ActiveAbsent(Listing) <=> RuntimeAbsent
           /\ KindsOf(Listing) = {} <=> RuntimeErased
           /\ (KindsOf(Listing) \intersect Encrypted = {}) => Nothing
           /\ Listing.res = res
  <1> DEFINE v == Listing
  <1>1. v.res = res /\ v.backup.st = backup.st /\ (v.task <=> Listed /\ res["cluster"] = "present")
    BY DEF Listing, Backups
  <1>2. (\E g \in Gens : v.db[g] # "absent") <=> Instances # {}
    BY DEF Listing, Instances, Exists
  <1> HIDE DEF v
  <1>3. /\ \A k \in Kinds : k \in KindsOf(v) <=> res[k] # "gone"
        /\ "database" \in KindsOf(v) <=> Instances # {}
        /\ "backup" \in KindsOf(v) <=> backup.st # "none"
        /\ "task" \in KindsOf(v) <=> v.task
        /\ KindsOf(v) \subseteq Kinds \union {"database", "backup", "task"}
    BY <1>1, <1>2 DEF KindsOf, Kinds
  <1>4. "cluster" \in Kinds /\ {"key", "secret", "task_definition"} \subseteq Kinds
        /\ {"database", "backup", "task"} \intersect Kinds = {}
    BY DEF Kinds
  <1>5. ActiveAbsent(v) <=> RuntimeAbsent
    BY <1>1, <1>3, <1>4 DEF ActiveAbsent, RuntimeAbsent, Nothing
  <1>6. KindsOf(v) = {} <=> RuntimeErased
    BY <1>1, <1>3, <1>4 DEF RuntimeErased, Nothing
  <1>7. (KindsOf(v) \intersect Encrypted = {}) => Nothing
    BY <1>3 DEF Encrypted, Nothing
  <1> QED BY <1>1, <1>5, <1>6, <1>7 DEF v

(* The task definition of the deployment fills the secret.                  *)
FillsSecrets == /\ res["secret"] = "empty" /\ res' = [res EXCEPT !["secret"] = "present"]
                /\ UNCHANGED <<db, backup>>

(* Who changes databases, the backup and other resources, and when.         *)
LEMMA ResourceCases ==
    ASSUME TypeInv, [Next]_vars
    PROVE  \/ UNCHANGED <<db, backup, res>>
           \/ /\ \/ \E g \in Gens : DatabaseSettles(g)
                 \/ EndpointSettles \/ FillsSecrets
                 \/ TagBackup \/ DeleteGeneration \/ RestoreGeneration
              /\ UNCHANGED guardVars
           \/ Deploy \/ WaitingEnds
           \/ \E failed : PassSweeps(failed)
  <1>1. CASE Cloud /\ UNCHANGED <<controllerVars, guardVars>>
    <2>1. TaskRuns => UNCHANGED <<db, backup, res>> \/ FillsSecrets
      BY DEF TypeInv, CloudType, TaskRuns, Unconfigured, FillSecrets, FillsSecrets
    <2> QED BY <1>1, <2>1 DEF Cloud, Settles, guardVars, Deadline, TaskDies
  <1>2. CASE ControllerNext /\ UNCHANGED guardVars
    BY <1>2 DEF ControllerNext, guardVars, Start, Gate, ControllerFails, Claim, RequireBoth, Launch,
       AwaitResult, Mark, Window, SelectPoint, Freeze, Register, Checkpoint, Remember, Unprotect, Poll, cloudVars
  <1>3. CASE GuardNext
    BY <1>3 DEF GuardNext, Pass, Sweep, PassReads, PassRegisters, PassLists,
       PassCutOff, InitializeRegistry, CheckerReports, FinalizeArchives,
       FinalizeStops, FinalizeDeletes, AuditRuntime, AuditGuard, nativeVars, cloudVars
  <1>4. CASE UNCHANGED vars BY <1>4 DEF vars, nativeVars, cloudVars
  <1> QED BY <1>1, <1>2, <1>3, <1>4 DEF Next

(* Once there is no database and no backup, none comes back but with a new  *)
(* runtime.                                                                 *)
LEMMA NothingStays ==
    ASSUME TypeInv, [Next]_vars, ~ Deploy, Nothing
    PROVE  Nothing'
  <1>0. db \in [Gens -> DbStates] /\ backup \in Backups BY DEF TypeInv, CloudType
  <1>1. ASSUME NEW g \in Gens, DatabaseSettles(g) PROVE Nothing'
    BY <1>0, <1>1 DEF DatabaseSettles, Nothing, Instances, Exists, Backups
  <1>2. CASE EndpointSettles \/ FillsSecrets \/ WaitingEnds
    BY <1>2 DEF EndpointSettles, FillsSecrets, WaitingEnds, Nothing, Instances, Exists
  <1>3. CASE TagBackup
    BY <1>0, <1>3 DEF TagBackup, Nothing, Instances, Exists, Backups
  <1>4. CASE DeleteGeneration
    BY <1>0, <1>4 DEF DeleteGeneration, WithoutBackups, DeleteInstance, Nothing, Instances, Exists, Backups
  <1>5. CASE RestoreGeneration
    BY <1>5 DEF RestoreGeneration, RestoreTo, Nothing
  <1>6. ASSUME NEW failed, PassSweeps(failed) PROVE Nothing'
    <2>1. ToDelete = {} BY DEF ToDelete, Nothing
    <2>2. \A g \in Gens : db'[g] = db[g] BY <1>0, <1>6, <2>1 DEF PassSweeps
    <2>3. backup'.st = "none" BY <1>0, <1>6 DEF PassSweeps, Nothing, Backups
    <2> QED BY <2>2, <2>3 DEF Nothing, Instances, Exists
  <1>7. CASE UNCHANGED <<db, backup, res>> BY <1>7 DEF Nothing, Instances, Exists
  <1> QED BY ResourceCases, <1>1, <1>2, <1>3, <1>4, <1>5, <1>6, <1>7

(* Who changes the guard.                                                   *)
LEMMA GuardChanges ==
    ASSUME [Next]_vars
    PROVE  \/ UNCHANGED guard
           \/ FinalizeArchives \/ FinalizeStops \/ FinalizeDeletes
           \/ WaitingEnds \/ AuditRuntime \/ AuditGuard
  BY DeployLeaves
     DEF Next, GuardNext, vars, guardVars, Pass, Sweep, PassReads, PassRegisters, PassLists,
         PassSweeps, PassCutOff, InitializeRegistry, CheckerReports

(* A deployment only asks for databases that have not been there.           *)
LEMMA DeployAdds ==
    ASSUME Deploy, db \in [Gens -> DbStates]
    PROVE  \A h \in Gens : \/ db'[h] = db[h]
                           \/ h \notin Restores /\ db[h] = "absent" /\ db'[h] = "creating"
  <1>1. CASE DeployStarts \/ DeployFails \/ DeployLayer
    BY <1>1 DEF DeployStarts, DeployFails, DeployLayer, nativeVars, cloudVars
  <1>2. ASSUME NEW g \in {"control", "receipts"}, DeployDatabase(g), NEW h \in Gens
        PROVE  \/ db'[h] = db[h]
               \/ h \notin Restores /\ db[h] = "absent" /\ db'[h] = "creating"
    BY <1>2 DEF DeployDatabase, Restores
  <1> QED BY <1>1, <1>2 DEF Deploy

(* Who changes what is known of the deployment.                             *)
LEMMA DeployChanges ==
    ASSUME [Next]_vars
    PROVE  Deploy \/ PassLists \/ UNCHANGED deploy
  BY DEF Next, GuardNext, vars, guardVars, Pass, Sweep, PassReads, PassRegisters, PassSweeps,
         PassCutOff, InitializeRegistry, CheckerReports, FinalizeArchives, FinalizeStops,
         FinalizeDeletes, WaitingEnds, AuditRuntime, AuditGuard

(* Nothing but what a deployment adds comes up behind such a listing, or    *)
(* without a key: a restore needs the key and a backup, and no workflow is  *)
(* under way on a deployment that is being made.                            *)
LEMMA UnseenStays ==
    ASSUME TypeInv, Unstarted, [Next]_vars, OnlyUnseen,
           watch.pc = "sweep" \/ res["key"] # "present"
    PROVE  OnlyUnseen'
  <1>0. /\ db \in [Gens -> DbStates] /\ backup \in Backups /\ deploy \in Deployments
        /\ watch \in Watches
    BY DEF TypeInv, CloudType, GuardType
  <1>1. CASE Deploy
    <2>1. CASE DeployStarts \/ DeployFails \/ DeployLayer
      <3>1. UNCHANGED <<db, backup>> /\ deploy'.unseen = deploy.unseen
        BY <1>0, <2>1 DEF DeployStarts, DeployFails, DeployLayer, Deployments, nativeVars, cloudVars
      <3> QED BY <3>1 DEF OnlyUnseen, Instances, Exists
    <2>2. ASSUME NEW g \in {"control", "receipts"}, DeployDatabase(g) PROVE OnlyUnseen'
      <3>1. watch.pc = "sweep" BY <2>2 DEF DeployDatabase, Stand, NeedsOfDatabase
      <3>2. deploy'.unseen = deploy.unseen \union {g}
        BY <1>0, <2>2, <3>1 DEF DeployDatabase, Deployments
      <3>3. Instances' \subseteq Instances \union {g}
        BY <1>0, <2>2 DEF DeployDatabase, Instances, Exists
      <3>4. backup'.st # "none" => g = "control" \/ backup.st # "none"
        BY <2>2 DEF DeployDatabase
      <3> QED BY <3>2, <3>3, <3>4 DEF OnlyUnseen
    <2> QED BY <1>1, <2>1, <2>2 DEF Deploy
  <1>2. CASE PassLists
    <2>1. UNCHANGED deploy BY <1>0, <1>2 DEF PassLists
    <2>2. UNCHANGED <<db, backup>> BY <1>2 DEF PassLists, nativeVars, cloudVars
    <2> QED BY <2>1, <2>2 DEF OnlyUnseen, Instances, Exists
  <1>3. CASE UNCHANGED deploy /\ ~ Deploy
    <2>1. Instances' \subseteq Instances /\ (backup'.st # "none" => backup.st # "none")
      <3>1. ASSUME NEW g \in Gens, DatabaseSettles(g)
            PROVE  Instances' \subseteq Instances /\ (backup'.st # "none" => backup.st # "none")
        BY <1>0, <3>1 DEF DatabaseSettles, Instances, Exists, Backups
      <3>2. CASE EndpointSettles \/ FillsSecrets \/ WaitingEnds
        BY <3>2 DEF EndpointSettles, FillsSecrets, WaitingEnds, Instances, Exists
      <3>3. CASE TagBackup BY <1>0, <3>3 DEF TagBackup, Instances, Exists, Backups
      <3>4. CASE DeleteGeneration
        BY <1>0, <3>4 DEF DeleteGeneration, WithoutBackups, DeleteInstance, Instances, Exists, Backups
      <3>5. ~ RestoreGeneration
        <4>1. SUFFICES ASSUME RestoreGeneration PROVE FALSE OBVIOUS
        <4>2. ctl.st # "none" /\ backup.st # "none" /\ res["key"] = "present"
          BY <4>1 DEF RestoreGeneration, RestoreTo, At
        <4> QED BY <4>2 DEF Unstarted, OnlyUnseen
      <3>6. ASSUME NEW failed, PassSweeps(failed)
            PROVE  Instances' \subseteq Instances /\ (backup'.st # "none" => backup.st # "none")
        <4>1. ToDelete \subseteq Instances BY DEF ToDelete
        <4>2. \A g \in Gens : db'[g] = db[g] \/ g \in Instances
          BY <1>0, <3>6, <4>1 DEF PassSweeps
        <4>3. backup'.st # "none" => backup.st # "none" BY <1>0, <3>6 DEF PassSweeps, Backups
        <4> QED BY <4>2, <4>3 DEF Instances, Exists
      <3>7. CASE UNCHANGED <<db, backup, res>> BY <3>7 DEF Instances, Exists
      <3> QED BY <1>3, ResourceCases, <3>1, <3>2, <3>3, <3>4, <3>5, <3>6, <3>7
    <2> QED BY <1>3, <2>1 DEF OnlyUnseen
  <1> QED BY <1>1, <1>2, <1>3, DeployChanges

(* The key outlives what it encrypts: the sweep that schedules its deletion *)
(* saw nothing encrypted, and nothing encrypted comes up behind its listing *)
(* but what a deployment still asks for (native_watchdog.py:146-151).       *)
LEMMA KeyStep ==
    ASSUME TypeInv, Unstarted, SweepView, KeyOutlivesData, [Next]_vars
    PROVE  KeyOutlivesData'
  <1>0. res \in [Kinds -> ResStates] /\ "key" \in Kinds BY DEF TypeInv, CloudType, Kinds
  <1>k. /\ KeyOutlivesData <=> (res["key"] # "present" => OnlyUnseen)
        /\ KeyOutlivesData' <=> (res'["key"] # "present" => OnlyUnseen')
    BY DEF KeyOutlivesData, OnlyUnseen
  <1>1. CASE res["key"] # "present" BY <1>1, <1>k, UnseenStays
  <1>2. CASE res["key"] = "present"
    <2>1. ASSUME NEW failed, PassSweeps(failed), res'["key"] # "present" PROVE OnlyUnseen'
      <3>1. res' = SweptResources(failed) BY <1>2, <2>1 DEF PassSweeps
      <3>2. Blockers("key") \intersect KindsOf(watch.view) = {}
        BY <1>0, <1>2, <2>1, <3>1 DEF SweptResources
      <3>3. Encrypted \subseteq Blockers("key") BY DEF Blockers
      <3>4. OnlyUnseen BY <2>1, <3>2, <3>3 DEF PassSweeps, SweepView
      <3> QED BY <2>1, <3>4, UnseenStays DEF PassSweeps
    <2>2. CASE \/ UNCHANGED <<db, backup, res>>
               \/ EndpointSettles \/ FillsSecrets \/ TagBackup \/ DeleteGeneration \/ RestoreGeneration
               \/ WaitingEnds \/ \E g \in Gens : DatabaseSettles(g)
      <3>1. res'["key"] = "present"
        BY <1>0, <1>2, <2>2 DEF EndpointSettles, FillsSecrets, TagBackup, DeleteGeneration,
           RestoreGeneration, WaitingEnds, DatabaseSettles
      <3> QED BY <1>k, <3>1
    <2>3. CASE Deploy
      <3>1. res'["key"] = "present"
        BY <1>0, <1>2, <2>3 DEF Deploy, DeployStarts, DeployLayer, DeployDatabase, DeployFails,
           nativeVars, cloudVars
      <3> QED BY <1>k, <3>1
    <2> QED BY <1>k, <2>1, <2>2, <2>3, ResourceCases
  <1> QED BY <1>1, <1>2

(* A deployment goes on only under an armed guard that nobody retires.      *)
LEMMA DeployingStep ==
    ASSUME TypeInv, Deploying, [Next]_vars
    PROVE  Deploying'
  <1>0. deploy \in Deployments /\ guard \in Guards BY DEF TypeInv, GuardType
  <1>1. deploy'.applying => deploy.applying \/ MayDeploy
    BY <1>0, DeployChanges DEF Deploy, DeployStarts, DeployLayer, DeployDatabase, DeployFails,
       PassLists, Deployments
  <1> SUFFICES ASSUME deploy'.applying PROVE guard'.st = "armed" /\ guard'.fin = "none"
    BY DEF Deploying
  <1>2. guard.st = "armed" /\ guard.fin = "none" BY <1>1 DEF Deploying, MayDeploy
  <1>3. ~ FinalizeArchives BY <1>0 DEF FinalizeArchives
  <1>4. CASE AuditGuard BY <1>0, <1>2, <1>4 DEF AuditGuard, Guards
  <1> QED
    BY <1>2, <1>3, <1>4, GuardChanges
       DEF FinalizeStops, FinalizeDeletes, WaitingEnds, AuditRuntime

(* Where there is no deployment under way and none begins.                  *)
LEMMA NoDeployment ==
    ASSUME Deploying, guard.st # "armed" \/ guard.fin # "none"
    PROVE  ~ Deploy
  BY DEF Deploying, Deploy, DeployStarts, MayDeploy, DeployLayer, DeployDatabase, DeployFails

(* A workflow starts on what a deployment has completed.                    *)
LEMMA UnstartedStep ==
    ASSUME TypeInv, WatchLate, Unstarted, [Next]_vars
    PROVE  Unstarted'
  <1>0. /\ res \in [Kinds -> ResStates] /\ deploy \in Deployments /\ watch \in Watches
        /\ "task_definition" \in Kinds /\ ctl \in Controllers
    BY DEF TypeInv, CloudType, GuardType, CtlType, Kinds
  <1>1. CASE Deploy
    <2>1. UNCHANGED <<ctl, late>>
      BY <1>1 DEF Deploy, DeployStarts, DeployLayer, DeployDatabase, DeployFails, nativeVars,
         cloudVars, controllerVars
    <2>2. CASE DeployStarts \/ DeployFails
      <3>1. /\ deploy'.built = deploy.built /\ deploy'.unseen = deploy.unseen
            /\ res' = res
        BY <1>0, <2>2 DEF DeployStarts, DeployFails, Deployments, nativeVars, cloudVars
      <3> QED BY <2>1, <3>1 DEF Unstarted
    <2>3. CASE DeployLayer
      <3>1. /\ deploy'.built = deploy.built + 1 /\ deploy'.unseen = deploy.unseen
            /\ deploy.built < 4 /\ deploy.built \in Nat
        BY <1>0, <2>3 DEF DeployLayer, Deployments
      <3>2. res["task_definition"] = "gone" /\ ctl.st = "none" BY <3>1 DEF Unstarted
      <3>3. deploy'.built = 4 \/ res'["task_definition"] = "gone"
        BY <1>0, <2>3, <3>1, <3>2 DEF DeployLayer, Depth
      <3> QED BY <2>1, <3>1, <3>2, <3>3 DEF Unstarted
    <2>4. ASSUME NEW g \in {"control", "receipts"}, DeployDatabase(g) PROVE Unstarted'
      <3>1. /\ deploy'.built = deploy.built /\ deploy.built = 3 /\ res' = res
            /\ watch.pc # "sweep" => deploy'.unseen = deploy.unseen
        BY <1>0, <2>4 DEF DeployDatabase, Deployments
      <3>2. deploy'.unseen # {} => late BY <3>1 DEF Unstarted, WatchLate
      <3> QED BY <2>1, <3>1, <3>2 DEF Unstarted
    <2> QED BY <1>1, <2>2, <2>3, <2>4 DEF Deploy
  <1>2. CASE ~ Deploy
    <2>1. /\ deploy'.built = deploy.built
          /\ deploy'.unseen # {} => deploy.unseen # {}
      BY <1>0, <1>2, DeployChanges DEF PassLists, Deployments
    <2>2. late => late' BY TypeStep DEF StepKinds, Aside, Expires, StopsTask, Works, Starts, Breaks,
       Gates, Launches, Moves
    <2>3. res["task_definition"] = "gone" => res'["task_definition"] = "gone"
      <3>1. ASSUME NEW failed, PassSweeps(failed), res["task_definition"] = "gone"
            PROVE  res'["task_definition"] = "gone"
        BY <1>0, <3>1 DEF PassSweeps, SweptResources
      <3> QED
        BY <1>0, <1>2, <3>1, ResourceCases
           DEF DatabaseSettles, EndpointSettles, FillsSecrets, TagBackup, DeleteGeneration,
               RestoreGeneration, WaitingEnds
    <2>4. ASSUME ctl.st = "none", ctl'.st # "none"
          PROVE  ~ late /\ res["task_definition"] = "present"
      <3>1. CASE ControllerNext
        BY <2>4, <3>1
           DEF ControllerNext, Start, Gate, ControllerFails, Claim, RequireBoth, Launch, AwaitResult,
               Mark, Window, SelectPoint, Freeze, TagBackup, Register, Checkpoint, Remember,
               Unprotect, DeleteGeneration, Poll, RestoreGeneration, At
      <3>2. CASE ~ ControllerNext
        BY <2>4, <3>2, GuardCases
           DEF Next, vars, nativeVars, controllerVars, Aside, StopsTask
      <3> QED BY <3>1, <3>2
    <2> QED BY <2>1, <2>2, <2>3, <2>4 DEF Unstarted
  <1> QED BY <1>1, <1>2

(* What a sweep knows stays so while it is under way.                       *)
LEMMA SweepStep ==
    ASSUME TypeInv, WatchLate, SweepView, Retired, Unstarted, [Next]_vars
    PROVE  SweepView'
  <1>0. db \in [Gens -> DbStates] /\ backup \in Backups /\ res \in [Kinds -> ResStates]
        /\ watch \in Watches /\ deploy \in Deployments /\ "task_definition" \in Kinds
    BY DEF TypeInv, CloudType, GuardType, Kinds
  <1>1. CASE PassLists
    <2>1. /\ watch'.view = Listing /\ UNCHANGED <<db, backup, res>>
      BY <1>0, <1>1 DEF PassLists, Watches, nativeVars, cloudVars
    <2>2. Nothing => OnlyUnseen' BY <2>1 DEF Nothing, OnlyUnseen, Instances, Exists
    <2> QED BY <1>0, <2>1, <2>2, ListingIs DEF SweepView
  <1>2. CASE ~ PassLists
    <2>1. watch'.pc = "sweep" => watch' = watch
      <3>1. CASE PassReads \/ PassRegisters \/ PassCutOff \/ \E failed : PassSweeps(failed)
        <4>1. CASE PassReads BY <1>0, <4>1 DEF PassReads, Watches
        <4>2. CASE PassRegisters BY <1>0, <4>2 DEF PassRegisters, Watches
        <4>3. CASE PassCutOff BY <4>3 DEF PassCutOff
        <4>4. ASSUME NEW failed, PassSweeps(failed) PROVE watch'.pc = "idle"
          BY <1>0, <4>4 DEF PassSweeps, Watches
        <4> QED BY <3>1, <4>1, <4>2, <4>3, <4>4
      <3>2. CASE UNCHANGED watch BY <3>2
      <3> QED
        BY <1>2, <3>1, <3>2, DeployLeaves DEF Next, GuardNext, vars, guardVars, Pass, Sweep,
           InitializeRegistry, CheckerReports, FinalizeArchives,
           FinalizeStops, FinalizeDeletes, WaitingEnds, AuditRuntime, AuditGuard
    <2> SUFFICES ASSUME watch.pc = "sweep", watch' = watch PROVE SweepView'
      BY <2>1 DEF SweepView
    <2>2. ~ WaitingEnds BY DEF WaitingEnds, Retired
    <2>3. ~ \E failed : PassSweeps(failed) BY <1>0 DEF PassSweeps, Watches
    <2>4. res'["task_definition"] = res["task_definition"] \/ res["task_definition"] = "gone"
      <3>1. CASE Deploy
        <4>1. CASE DeployLayer
          <5>1. deploy.built \in Nat /\ (deploy.built # 4 => res["task_definition"] = "gone")
            BY <1>0 DEF Deployments, Unstarted
          <5>2. deploy.built # 4 BY <4>1, <5>1 DEF DeployLayer
          <5> QED BY <5>1, <5>2
        <4> QED
          BY <3>1, <4>1 DEF Deploy, DeployStarts, DeployDatabase, DeployFails, nativeVars, cloudVars
      <3> QED
        BY <1>0, <2>2, <2>3, <3>1, ResourceCases
           DEF EndpointSettles, FillsSecrets, TagBackup, DeleteGeneration, RestoreGeneration, DatabaseSettles
    <2>5. OnlyUnseen => OnlyUnseen' BY UnseenStays
    <2> QED BY <2>4, <2>5 DEF SweepView
  <1> QED BY <1>1, <1>2

(* An absent runtime stays absent while the guard is being retired.         *)
LEMMA AbsentStays ==
    ASSUME TypeInv, WatchLate, SweepView, [Next]_vars, ~ Deploy
    PROVE  /\ RuntimeAbsent => RuntimeAbsent'
           /\ RuntimeErased => RuntimeErased'
  <1>0. db \in [Gens -> DbStates] /\ backup \in Backups /\ res \in [Kinds -> ResStates]
        /\ "secret" \in Kinds /\ "endpoint" \in Kinds
    BY DEF TypeInv, CloudType, Kinds
  <1>1. ASSUME RuntimeAbsent, NEW k \in Kinds
        PROVE  \/ res'[k] = res[k]
               \/ res[k] # "gone" /\ k \in {"key", "secret", "task_definition"} /\ res'[k] \in {"closing", "gone"}
    <2>0. res[k] = "gone" \/ (k \in {"key", "secret", "task_definition"} /\ res[k] = "closing")
      BY <1>1 DEF RuntimeAbsent
    <2>1. ASSUME NEW failed, PassSweeps(failed)
          PROVE  \/ res'[k] = res[k]
                 \/ res[k] # "gone" /\ k \in {"key", "secret", "task_definition"} /\ res'[k] \in {"closing", "gone"}
      <3>1. watch.view.res["task_definition"] \in {res["task_definition"], "gone"}
        BY <2>1 DEF PassSweeps, SweepView
      <3>2. res' = res \/ res' = SweptResources(failed) BY <2>1 DEF PassSweeps
      <3>3. /\ \/ SweptResources(failed)[k] = res[k]
               \/ SweptResources(failed)[k] = Swept(k, watch.view.res[k])
            /\ res[k] = "gone" => SweptResources(failed)[k] = res[k]
        BY DEF SweptResources
      <3>4. k = "task_definition" => SweptResources(failed)[k] \in {"closing", res[k]}
        BY <2>0, <3>1 DEF SweptResources, Swept
      <3>5. k \in {"key", "secret"} => Swept(k, watch.view.res[k]) = "closing"
        BY DEF Swept
      <3> QED BY <2>0, <3>2, <3>3, <3>4, <3>5
    <2>2. CASE WaitingEnds BY <1>0, <2>0, <2>2 DEF WaitingEnds
    <2>3. CASE \E g \in Gens : DatabaseSettles(g) BY <2>3 DEF DatabaseSettles
    <2>4. CASE EndpointSettles
      <3>1. res["endpoint"] = "closing" BY <2>4 DEF EndpointSettles
      <3> QED BY <1>0, <1>1, <3>1 DEF RuntimeAbsent
    <2>5. CASE FillsSecrets
      <3>1. res["secret"] = "empty" BY <2>5 DEF FillsSecrets
      <3> QED BY <1>0, <1>1, <3>1 DEF RuntimeAbsent
    <2>6. CASE TagBackup \/ DeleteGeneration \/ RestoreGeneration \/ UNCHANGED <<db, backup, res>>
      BY <2>6 DEF TagBackup, DeleteGeneration, RestoreGeneration
    <2> QED BY <2>1, <2>2, <2>3, <2>4, <2>5, <2>6, ResourceCases
  <1>2. RuntimeErased => RuntimeAbsent BY DEF RuntimeErased, RuntimeAbsent
  <1>3. Nothing => Nothing' BY NothingStays
  <1>4. RuntimeAbsent => RuntimeAbsent'
    BY <1>1, <1>3 DEF RuntimeAbsent
  <1>5. RuntimeErased => RuntimeErased'
    BY <1>1, <1>2, <1>3 DEF RuntimeErased
  <1> QED BY <1>4, <1>5

(* Who writes to the guard bucket: the controller while there is one, the   *)
(* guard and its checker.                                                   *)
LEMMA StoreCases ==
    ASSUME TypeInv, [Next]_vars
    PROVE  \/ UNCHANGED store
           \/ /\ store.bucket /\ UNCHANGED guardVars
              /\ store'.logs = store.logs /\ store'.bucket = store.bucket
           \/ InitializeRegistry \/ PassRegisters \/ CheckerReports
           \/ FinalizeArchives \/ FinalizeDeletes
           \/ \E failed : PassSweeps(failed)
  <1> DEFINE Writes == /\ store.bucket /\ store'.logs = store.logs /\ store'.bucket = store.bucket
  <1>0. store \in Stores BY DEF TypeInv, CloudType
  <1>1. CASE Cloud /\ UNCHANGED <<controllerVars, guardVars>>
    BY <1>1 DEF Cloud, Settles, DatabaseSettles, EndpointSettles, Deadline, TaskDies, TaskRuns
  <1>2. CASE ControllerNext /\ UNCHANGED guardVars
    <2>1. CASE PreserveObservation BY <1>0, <1>2, <2>1 DEF PreserveObservation, Stores
    <2>2. CASE Claim
      BY <1>0, <1>2, <2>2 DEF Claim, Stores
    <2>3. CASE SelectPoint
      BY <1>0, <1>2, <2>3 DEF SelectPoint, Stores
    <2>4. CASE Register \/ Checkpoint \/ Remember
      BY <1>0, <1>2, <2>4 DEF Register, Checkpoint, Remember, Stores
    <2>5. CASE UNCHANGED store BY <2>5
    <2>6. CASE ControllerFails \/ Launch \/ AwaitResult
      BY <2>1, <2>5, <2>6 DEF ControllerFails, Launch, AwaitResult
    <2> QED
      BY <1>2, <2>2, <2>3, <2>4, <2>5, <2>6
         DEF ControllerNext, Start, Gate, RequireBoth, Mark, Window, Freeze, TagBackup, Unprotect,
             DeleteGeneration, Poll, RestoreGeneration, cloudVars
  <1>3. CASE GuardNext
    BY <1>3, DeployLeaves DEF GuardNext, Pass, Sweep, PassReads, PassLists, PassCutOff,
       FinalizeStops, WaitingEnds, AuditRuntime, AuditGuard, nativeVars, cloudVars
  <1>4. CASE UNCHANGED vars BY <1>4 DEF vars, nativeVars, cloudVars
  <1> QED BY <1>1, <1>2, <1>3, <1>4 DEF Next

(* A guard that has gone stays as it was.                                   *)
LEMMA RetiredStep ==
    ASSUME TypeInv, WatchLate, Retired, [Next]_vars
    PROVE  /\ Retired'
           /\ guard.st \in {"gone", "erased"} => guard'.st \in {guard.st, "erased"}
  <1>0. watch \in Watches /\ guard \in Guards /\ store \in Stores
    BY DEF TypeInv, GuardType, CloudType
  <1>1. CASE guard.st \in {"gone", "erased"}
    <2>0. /\ ~ store.bucket /\ ~ store.fresh /\ watch.pc = "idle" /\ guard.fin = "gone"
      BY <1>1 DEF Retired
    <2>1. UNCHANGED store
      BY <1>1, <2>0, StoreCases
         DEF InitializeRegistry, PassRegisters, CheckerReports, FinalizeArchives, FinalizeDeletes,
             PassSweeps
    <2>2. watch'.pc = "idle"
      <3>1. UNCHANGED watch
        BY <1>1, <2>0, DeployLeaves
           DEF Next, GuardNext, vars, guardVars, Pass, Sweep, PassReads, PassRegisters,
           PassLists, PassSweeps, PassCutOff, InitializeRegistry, CheckerReports,
           FinalizeArchives, FinalizeStops, FinalizeDeletes, WaitingEnds, AuditRuntime, AuditGuard
      <3> QED BY <2>0, <3>1
    <2>3. guard'.fin = "gone" /\ guard'.st \in {guard.st, "erased"}
      <3>1. CASE WaitingEnds BY <1>0, <2>0, <3>1 DEF WaitingEnds, Guards
      <3>2. CASE AuditRuntime \/ AuditGuard BY <1>0, <2>0, <3>2 DEF AuditRuntime, AuditGuard, Guards
      <3> QED
        BY <1>1, <2>0, <3>1, <3>2, GuardChanges DEF FinalizeArchives, FinalizeStops, FinalizeDeletes
    <2> QED BY <2>0, <2>1, <2>2, <2>3 DEF Retired
  <1>2. CASE guard.st \notin {"gone", "erased"}
    <2>1. CASE FinalizeDeletes BY <1>0, <1>2, <2>1 DEF FinalizeDeletes, Relisted, Stores, Guards, Retired
    <2>2. ~ FinalizeDeletes => guard'.st \notin {"gone", "erased"}
      <3>1. CASE FinalizeArchives BY <1>0, <1>2, <3>1 DEF FinalizeArchives, Guards
      <3>2. CASE FinalizeStops BY <1>0, <1>2, <3>2 DEF FinalizeStops, Guards
      <3>3. CASE AuditGuard BY <1>0, <1>2, <3>3 DEF AuditGuard, Guards
      <3>4. ~ WaitingEnds /\ ~ AuditRuntime BY <1>2 DEF WaitingEnds, AuditRuntime
      <3> QED BY <1>2, <3>1, <3>2, <3>3, <3>4, GuardChanges
    <2> QED BY <1>2, <2>1, <2>2 DEF Retired
  <1> QED BY <1>1, <1>2

(* The receipts database is never absent again, the log group only goes.    *)
LEMMA LogsStep ==
    ASSUME TypeInv, LogsKept, [Next]_vars
    PROVE  LogsKept'
  <1>0. /\ db \in [Gens -> DbStates] /\ res \in [Kinds -> ResStates] /\ store \in Stores
        /\ "receipts" \in Gens /\ "key" \in Kinds /\ "log_group" \in Kinds /\ Call \in CallSet
        /\ deploy \in Deployments
    BY ProgramAt DEF TypeInv, CloudType, CtlType, GuardType, Gens, Kinds, Call
  <1>1. CASE Deploy
    <2>0. UNCHANGED store BY <1>1, DeployLeaves
    <2>1. CASE DeployStarts \/ DeployFails
      <3>1. UNCHANGED <<db, res>> /\ deploy'.built = deploy.built
        BY <1>0, <2>1 DEF DeployStarts, DeployFails, Deployments, nativeVars, cloudVars
      <3> QED BY <2>0, <3>1 DEF LogsKept
    <2>2. CASE DeployLayer
      <3>1. UNCHANGED db /\ deploy'.built = deploy.built + 1 /\ deploy.built \in Nat
        BY <1>0, <2>2 DEF DeployLayer, Deployments
      <3>2. /\ res'["log_group"] \in {res["log_group"], "present"}
            /\ deploy'.built # 1 => res'["key"] = res["key"]
            /\ deploy'.built = 2 /\ res["key"] = "present" => res'["log_group"] = "present"
        BY <1>0, <2>2, <3>1 DEF DeployLayer, Depth, Needs, Stand
      <3> QED BY <2>0, <3>1, <3>2 DEF LogsKept
    <2>3. ASSUME NEW g \in {"control", "receipts"}, DeployDatabase(g) PROVE LogsKept'
      <3>1. UNCHANGED res /\ deploy'.built = deploy.built /\ deploy.built = 3 /\ res["key"] = "present"
        BY <1>0, <2>3 DEF DeployDatabase, Deployments, Stand, NeedsOfDatabase
      <3> QED BY <2>0, <3>1 DEF LogsKept
    <2> QED BY <1>1, <2>1, <2>2, <2>3 DEF Deploy
  <1>2. CASE ~ Deploy
    <2>0. deploy'.built = deploy.built BY <1>0, <1>2, DeployChanges DEF PassLists, Deployments
    <2>1. store.logs => store'.logs
      BY <1>0, StoreCases DEF InitializeRegistry, PassRegisters, CheckerReports, FinalizeArchives,
         FinalizeDeletes, PassSweeps, Stores
    <2>2. db'["receipts"] = "absent" <=> db["receipts"] = "absent"
      <3>1. ASSUME NEW g \in Gens, DatabaseSettles(g)
            PROVE  db'["receipts"] = "absent" <=> db["receipts"] = "absent"
        BY <1>0, <3>1 DEF DatabaseSettles
      <3>2. CASE DeleteGeneration
        BY <1>0, <3>2 DEF DeleteGeneration, WithoutBackups, DeleteInstance
      <3>3. CASE RestoreGeneration
        <4>1. Call[2] # "receipts" BY <1>0, <3>3, CallTyped DEF RestoreGeneration, At, Restores
        <4> QED BY <1>0, <3>3, <4>1 DEF RestoreGeneration, RestoreTo
      <3>4. ASSUME NEW failed, PassSweeps(failed)
            PROVE  db'["receipts"] = "absent" <=> db["receipts"] = "absent"
        BY <1>0, <3>4 DEF PassSweeps, ToDelete
      <3> QED
        BY <1>2, <3>1, <3>2, <3>3, <3>4, ResourceCases
           DEF EndpointSettles, FillsSecrets, TagBackup, WaitingEnds
    <2>3. res'["key"] = "present" => res["key"] = "present"
      <3>1. ASSUME NEW failed, PassSweeps(failed), res'["key"] = "present" PROVE res["key"] = "present"
        BY <1>0, <3>1 DEF PassSweeps, SweptResources, Swept
      <3> QED
        BY <1>0, <1>2, <3>1, ResourceCases
           DEF DatabaseSettles, EndpointSettles, FillsSecrets, TagBackup, DeleteGeneration,
               RestoreGeneration, WaitingEnds
    <2>4. \/ res'["log_group"] = res["log_group"]
          \/ res["log_group"] = "present" /\ res'["log_group"] = "gone" /\ store'.logs
      <3>1. ASSUME NEW failed, PassSweeps(failed), res'["log_group"] # res["log_group"]
            PROVE  res["log_group"] = "present" /\ res'["log_group"] = "gone" /\ store'.logs
        <4>1. res' = SweptResources(failed) BY <3>1 DEF PassSweeps
        <4>2. res'["log_group"] = Swept("log_group", watch.view.res["log_group"])
              /\ res["log_group"] # "gone"
          BY <1>0, <3>1, <4>1 DEF SweptResources
        <4>3. res'["log_group"] = "gone" BY <4>2 DEF Swept
        <4>4. LogsArchived BY <4>2, <4>3 DEF LogsKept, LogsArchived
        <4> QED BY <1>0, <3>1, <4>3, <4>4 DEF PassSweeps, Stores, LogsArchived
      <3> QED
        BY <1>0, <1>2, <3>1, ResourceCases
           DEF DatabaseSettles, EndpointSettles, FillsSecrets, TagBackup, DeleteGeneration,
               RestoreGeneration, WaitingEnds, LogsKept
    <2> QED BY <2>0, <2>1, <2>2, <2>3, <2>4 DEF LogsKept
  <1> QED BY <1>1, <1>2

(* The retirement begins only when the runtime is absent, and so it stays.  *)
LEMMA RetiringStep ==
    ASSUME TypeInv, WatchLate, SweepView, Deploying, RetiringAbsent, [Next]_vars
    PROVE  RetiringAbsent'
  <1>0. guard \in Guards /\ backup \in Backups /\ db \in [Gens -> DbStates]
    BY DEF TypeInv, GuardType, CloudType
  <1>1. CASE FinalizeArchives
    <2>1. RuntimeAbsent /\ UNCHANGED <<db, backup, res>>
      BY <1>0, <1>1, ListingIs DEF FinalizeArchives
    <2> QED BY <2>1 DEF RetiringAbsent, RuntimeAbsent, Nothing, Instances, Exists
  <1>2. CASE ~ FinalizeArchives
    <2> SUFFICES ASSUME guard'.fin # "none" PROVE RuntimeAbsent'
      BY DEF RetiringAbsent
    <2>1. guard.fin # "none"
      <3>1. CASE WaitingEnds BY <1>0, <3>1 DEF WaitingEnds, Guards
      <3>2. CASE AuditRuntime \/ AuditGuard BY <1>0, <3>2 DEF AuditRuntime, AuditGuard, Guards
      <3>3. CASE FinalizeStops \/ FinalizeDeletes BY <3>3 DEF FinalizeStops, FinalizeDeletes
      <3> QED BY <1>2, <3>1, <3>2, <3>3, GuardChanges
    <2>2. ~ Deploy BY <2>1, NoDeployment
    <2> QED BY <2>1, <2>2, AbsentStays DEF RetiringAbsent
  <1> QED BY <1>1, <1>2

(* The audit remains true: what has been erased does not come back.         *)
LEMMA AuditStep ==
    ASSUME TypeInv, WatchLate, SweepView, Deploying, Retired, Audited, [Next]_vars
    PROVE  Audited'
  <1>0. guard \in Guards /\ backup \in Backups /\ db \in [Gens -> DbStates]
    BY DEF TypeInv, GuardType, CloudType
  <1>u. UNCHANGED <<db, backup, res>> => (RuntimeErased => RuntimeErased')
    BY DEF RuntimeErased, Nothing, Instances, Exists
  <1>1. CASE AuditRuntime
    <2>1. UNCHANGED <<db, backup, res>> /\ guard'.st = guard.st /\ guard.st \in {"gone", "erased"}
      BY <1>0, <1>1 DEF AuditRuntime, nativeVars, cloudVars, Guards
    <2>2. guard'.audit = IF NothingLeft THEN "runtime" ELSE "residuals"
      BY <1>0, <1>1 DEF AuditRuntime, Guards
    <2>3. NothingLeft => RuntimeErased BY <1>0, ListingIs DEF NothingLeft
    <2> QED BY <1>u, <2>1, <2>2, <2>3 DEF Audited
  <1>2. CASE AuditGuard
    <2>1. UNCHANGED <<db, backup, res>> /\ guard'.st = guard.st /\ guard.audit = "runtime"
      BY <1>0, <1>2 DEF AuditGuard, nativeVars, cloudVars, Guards
    <2>2. guard'.audit = IF guard.st = "erased" THEN "clear" ELSE "residuals"
      BY <1>0, <1>2 DEF AuditGuard, Guards
    <2> QED BY <1>u, <2>1, <2>2 DEF Audited
  <1>3. CASE ~ AuditRuntime /\ ~ AuditGuard
    <2>1. guard'.audit = guard.audit
      <3>1. CASE FinalizeArchives BY <1>0, <3>1 DEF FinalizeArchives, Guards
      <3>2. CASE FinalizeStops BY <1>0, <3>2 DEF FinalizeStops, Guards
      <3>3. CASE FinalizeDeletes BY <1>0, <3>3 DEF FinalizeDeletes, Guards
      <3>4. CASE WaitingEnds BY <1>0, <3>4 DEF WaitingEnds, Guards
      <3> QED BY <1>3, <3>1, <3>2, <3>3, <3>4, GuardChanges
    <2> SUFFICES ASSUME guard.audit \in {"runtime", "clear"} PROVE Audited'
      BY <2>1 DEF Audited
    <2>2. guard.st \in {"gone", "erased"} /\ RuntimeErased BY DEF Audited
    <2>3. ~ Deploy BY <2>2, NoDeployment
    <2>4. RuntimeErased' BY <2>2, <2>3, AbsentStays
    <2>5. guard'.st \in {guard.st, "erased"} BY <2>2, RetiredStep
    <2> QED BY <2>1, <2>2, <2>4, <2>5 DEF Audited
  <1> QED BY <1>1, <1>2, <1>3

(* GuardInv holds initially and is preserved.                               *)
LEMMA GuardStep ==
    ASSUME TypeInv, GuardInv, [Next]_vars
    PROVE  GuardInv'
  BY TypeStep, SweepStep, KeyStep, DeployingStep, UnstartedStep, RetiredStep, RetiringStep,
     LogsStep, AuditStep DEF GuardInv

LEMMA GuardInitially == Init => GuardInv
  <1> SUFFICES ASSUME Init PROVE GuardInv OBVIOUS
  <1>1. WatchLate BY TypeInit
  <1>2. /\ watch.pc = "idle" /\ guard = [st |-> "armed", fin |-> "none", audit |-> "none"]
        /\ deploy = [built |-> 0, applying |-> FALSE, unseen |-> {}] /\ ctl.st = "none"
    BY DEF Init, GuardInit, ControllerInit, Idle
  <1>3. /\ db = [g \in Gens |-> "absent"] /\ backup = [st |-> "none", tag |-> FALSE]
        /\ res = [k \in Kinds |-> "gone"]
    BY DEF Init, CloudInit
  <1>4. SweepView /\ Deploying /\ Retired /\ RetiringAbsent /\ Audited
    BY <1>2 DEF SweepView, Deploying, Retired, RetiringAbsent, Audited
  <1>5. KeyOutlivesData BY <1>3 DEF KeyOutlivesData, Instances, Exists
  <1>6. LogsKept /\ Unstarted BY <1>2, <1>3 DEF LogsKept, Unstarted, Kinds, Gens
  <1> QED BY <1>1, <1>4, <1>5, <1>6 DEF GuardInv

(* All variables of an acceptance run keep their shapes, the controller is  *)
(* at a call of its workflow and a task at a step of its list               *)
(* (native_run.py:154-254, 377-560), and passes are made after the deadline *)
(* only (native_watchdog.py:169-187).                                       *)
THEOREM TypeInvariance == Spec => [](TypeInv /\ WatchLate)
  <1>1. (TypeInv /\ WatchLate) /\ [Next]_vars => (TypeInv /\ WatchLate)'
    BY TypeStep
  <1> QED BY <1>1, TypeInit, PTL DEF Spec

(* In every state what the guard concludes from its listing holds of the    *)
(* resources, though the listing is older (native_watchdog.py:57-167,       *)
(* native_finalize_guard.py:17-118).                                        *)
THEOREM GuardInvariance == Spec => [](TypeInv /\ GuardInv)
  <1>1. Init => TypeInv /\ GuardInv BY TypeInit, GuardInitially
  <1>2. (TypeInv /\ GuardInv) /\ [Next]_vars => (TypeInv /\ GuardInv)'
    BY TypeStep, GuardStep DEF GuardInv
  <1> QED BY <1>1, <1>2, PTL DEF Spec

(* native_watchdog.py:146-151 The key is never scheduled for deletion while *)
(* a database or a backup encrypted with it exists, whatever the controller *)
(* brings up behind the listing; except for what a deployment that outlives *)
(* the deadline asks for between a pass's listing and its sweep             *)
(* (native_deploy.py:121), and that is all it loses its key to.             *)
THEOREM KeyOutlives == Spec => []KeyOutlivesData
  BY GuardInvariance, PTL DEF GuardInv

(* native_finalize_guard.py:24,77, native_post_teardown.py:99-113 The guard *)
(* goes only after the runtime has gone, with its logs archived; and after  *)
(* the last reader has reported absence nothing is there, nor comes back.   *)
THEOREM GuardOutlives == Spec => []GuardOutlivesRuntime
  <1>1. TypeInv /\ GuardInv => GuardOutlivesRuntime
    <2> SUFFICES ASSUME TypeInv, GuardInv PROVE GuardOutlivesRuntime OBVIOUS
    <2>0. backup \in Backups /\ db \in [Gens -> DbStates] /\ "log_group" \in Kinds
      BY DEF TypeInv, CloudType, Kinds
    <2>1. /\ ActiveAbsent(Listing) <=> RuntimeAbsent
          /\ KindsOf(Listing) = {} <=> RuntimeErased
      BY <2>0, ListingIs
    <2>2. ASSUME guard.st \in {"gone", "erased"}
          PROVE  /\ ActiveAbsent(Listing) /\ ~ store.fresh
                 /\ (db["receipts"] = "gone" => store.logs)
      <3>1. RuntimeAbsent /\ ~ store.fresh
        BY <2>2 DEF GuardInv, Retired, RetiringAbsent
      <3>2. res["log_group"] = "gone" BY <2>0, <3>1 DEF RuntimeAbsent
      <3> QED BY <2>1, <3>1, <3>2 DEF GuardInv, LogsKept
    <2>3. guard.audit = "clear" => guard.st = "erased" /\ KindsOf(Listing) = {}
      BY <2>1 DEF GuardInv, Audited
    <2> QED BY <2>2, <2>3 DEF GuardOutlivesRuntime
  <1> QED BY <1>1, GuardInvariance, PTL

-----------------------------------------------------------------------------
(* Each task of an application run is launched once.                        *)

(* A call of the application workflow at place n has been made: its claim   *)
(* is written, so that no later controller gets past it.                    *)
Since(n) == /\ store.claim
            /\ Active => \/ ctl.pc = 1 \/ n < ctl.pc
                         \/ n = ctl.pc /\ ctl.st = "await"

(* What the controller waits for is the task it has just launched.          *)
Awaited == ctl.st = "await" => Call[1] = "run" /\ task.call = Call[2] /\ task.st # "none"

(* An application run launches each of its tasks once.                      *)
SoleRun == App =>
    /\ Active /\ ctl.pc > 1 => store.claim
    /\ task.st # "none" => Since(Turn(task.call))
    /\ \A r \in ran : Since(Turn(r[1]))

(* What is known of tasks: the recorded outcomes and that of the last one.  *)
Results == ran \union {r \in {<<task.call, task.out>>} : task.st = "stopped"}

(* Where the current call stands.                                           *)
LEMMA CallIs ==
    ASSUME TypeInv
    PROVE  /\ Call \in CallSet
           /\ App => ApplicationPlace(Call, ctl.pc)
           /\ wf = "sql" => FixturePlace(Call, ctl.pc, 6, 11, 13, 0)
           /\ wf = "retained" => FixturePlace(Call, ctl.pc, 7, 22, 24, 19)
           /\ Call[1] = "run" => Call[2] \in Requests
           /\ ctl.pc \in Nat /\ ctl.pc >= 1 /\ ctl.pc <= Len(Program) /\ Len(Program) \in Nat
           /\ App => Len(Program) = 30
           /\ wf = "sql" => Len(Program) = 14
           /\ wf = "retained" => Len(Program) = 25
  BY ProgramAt, RunRequests DEF TypeInv, CtlType, Call

(* It is the same after a step that does not advance.                       *)
LEMMA CallAfter ==
    ASSUME TypeInv, StepKinds, ctl'.pc = ctl.pc
    PROVE  Call' = Call
  BY FlowConstant DEF Call

(* The two invariants about launches are preserved; an operator may start   *)
(* any number of controllers, but the claim stops them at the first call    *)
(* (native_application.py:18-28).                                           *)
LEMMA AwaitedStep ==
    ASSUME TypeInv, Awaited, StepKinds
    PROVE  Awaited'
  <1>0. task \in Tasks /\ ctl \in Controllers BY DEF TypeInv, TaskType, CtlType
  <1> SUFFICES ASSUME ctl'.st = "await"
               PROVE  (Call[1] = "run" /\ task.call = Call[2] /\ task.st # "none")'
    BY DEF Awaited
  <1>1. CASE Aside \/ Expires
    BY <1>1, CallAfter DEF Aside, Expires, Awaited
  <1>2. CASE StopsTask
    BY <1>0, <1>2, CallAfter DEF StopsTask, Awaited, Tasks
  <1>3. CASE Works
    <2>1. ctl' = ctl /\ Alive BY <1>3 DEF Works
    <2>2. task'.call = task.call /\ task'.st # "none"
      BY <1>0, <1>3, <2>1 DEF Works, Alive, Quits, Reports, TaskMoves, Passes, Intends, Supplies, Closes, Reopens,
         Proposes, Delivers, Ended, Continue, Tasks
    <2> QED BY <2>1, <2>2, CallAfter DEF Awaited
  <1>4. CASE Launches
    <2>1. ctl'.pc = ctl.pc BY <1>0, <1>4 DEF Launches, Controllers
    <2>2. task'.call = Call[2] /\ task'.st # "none" BY <1>4 DEF Launches, NoTask
    <2> QED BY <1>4, <2>1, <2>2, CallAfter DEF Launches, At
  <1>5. ~ Starts /\ ~ Breaks /\ ~ Gates /\ ~ Moves
    <2>1. ~ Starts /\ ~ Breaks BY DEF Starts, Breaks, Fails, Idle
    <2>2. ~ Gates BY <1>0 DEF Gates, Controllers
    <2>3. ~ Moves BY DEF Moves, Forward
    <2> QED BY <2>1, <2>2, <2>3
  <1> QED BY <1>1, <1>2, <1>3, <1>4, <1>5 DEF StepKinds

(* A place that has been passed stays passed.                               *)
LEMMA SinceStep ==
    ASSUME TypeInv, Awaited, StepKinds, App, NEW n \in Nat, Since(n)
    PROVE  Since(n)'
  <1>0. /\ ctl \in Controllers /\ ctl.pc \in Nat /\ ctl.pc >= 1 /\ ApplicationPlace(Call, ctl.pc)
        /\ store.claim
    BY CallIs DEF TypeInv, CtlType, Since
  <1>1. CASE Aside \/ Expires \/ StopsTask \/ Works
    BY <1>1 DEF Aside, Expires, StopsTask, Works, Keeps, Since, Active
  <1>2. CASE Starts BY <1>2 DEF Starts, Idle, Since
  <1>3. CASE Breaks BY <1>0, <1>3 DEF Breaks, Fails, Idle, Since, Active, Keeps
  <1>4. CASE Gates BY <1>0, <1>4 DEF Gates, Since, Active, Controllers
  <1>5. CASE Launches
    <2>1. ctl.st = "run" /\ store'.claim = store.claim BY <1>5 DEF Launches, At, Keeps
    <2>2. ctl'.pc = ctl.pc /\ ctl'.st = "await" BY <1>0, <1>5 DEF Launches, Controllers
    <2> QED BY <1>0, <2>1, <2>2 DEF Since, Active
  <1>6. CASE Moves
    <2>1. Active /\ store'.claim /\ Forward BY <1>0, <1>6 DEF Moves
    <2>2. ctl.pc # 1
      <3>1. SUFFICES ASSUME ctl.pc = 1 PROVE FALSE OBVIOUS
      <3>2. Call[1] = "claim" BY <1>0, <3>1 DEF ApplicationPlace
      <3>3. ctl.st = "run" BY <2>1, <3>2 DEF Awaited, Active
      <3> QED BY <1>0, <1>6, <3>2, <3>3 DEF Moves, At
    <2> QED BY <1>0, <2>1, <2>2 DEF Forward, Since, Active
  <1> QED BY <1>1, <1>2, <1>3, <1>4, <1>5, <1>6 DEF StepKinds

(* Turns are numbers.                                                       *)
LEMMA TurnType == \A c : Turn(c) \in Nat
  BY DEF Turn

(* What a step does to the one-off task.                                    *)
LEMMA TaskStep ==
    ASSUME TypeInv, StepKinds
    PROVE  \/ UNCHANGED task /\ ran' \subseteq ran
           \/ Works /\ task'.call = task.call /\ task'.st \in {task.st, "stopped"}
           \/ /\ Listed /\ UNCHANGED ran /\ task'.st = "stopping"
              /\ task'.call = task.call /\ task'.pc = task.pc
           \/ /\ Breaks \/ Launches
              /\ ~ Alive /\ At("run") /\ UNCHANGED ran /\ task' = [NoTask EXCEPT !.call = Call[2], !.st = "running"]
           \/ /\ Launches /\ UNCHANGED ran
              /\ \E r \in ran :
                    /\ r[1] = Call[2]
                    /\ task' = [NoTask EXCEPT !.call = Call[2], !.st = "stopped", !.out = r[2]]
  <1>0. task \in Tasks BY DEF TypeInv, TaskType
  <1>1. CASE Aside \/ Expires \/ Starts \/ Gates \/ Moves
    BY <1>1 DEF Aside, Expires, Starts, Gates, Moves
  <1>2. CASE StopsTask BY <1>0, <1>2 DEF StopsTask, Tasks
  <1>3. CASE Breaks BY <1>0, <1>3 DEF Breaks, Tasks
  <1>4. CASE Launches BY <1>4 DEF Launches
  <1>5. CASE Works
    <2>1. task'.call = task.call /\ task'.st \in {task.st, "stopped"}
      BY <1>0, <1>5 DEF Works, Quits, Reports, TaskMoves, Passes, Intends, Supplies, Closes, Reopens,
         Proposes, Delivers, Ended, Continue, Tasks
    <2> QED BY <1>5, <2>1
  <1> QED BY <1>1, <1>2, <1>3, <1>4, <1>5 DEF StepKinds

(* Only a task that ends adds to what is known of tasks.                    *)
LEMMA RanStep ==
    ASSUME TypeInv, StepKinds, NEW r \in ran', r \notin ran
    PROVE  Works /\ r[1] = task.call
  <1>1. Works BY DEF StepKinds, Aside, Expires, StopsTask, Starts, Breaks, Gates, Launches, Moves
  <1>2. CASE Quits BY <1>1, <1>2 DEF Quits, Ended
  <1>3. CASE Reports BY <1>1, <1>3 DEF Reports, Ended
  <1>4. ~ TaskMoves
    BY DEF TaskMoves, Passes, Intends, Supplies, Closes, Reopens, Proposes, Delivers, Continue
  <1> QED BY <1>1, <1>2, <1>3, <1>4 DEF Works

(* A task is launched at its turn, when none was.                           *)
LEMMA SoleRunStep ==
    ASSUME TypeInv, Awaited, SoleRun, StepKinds
    PROVE  SoleRun'
  <1>0. App' = App /\ ctl \in Controllers /\ task \in Tasks
    BY FlowConstant DEF TypeInv, CtlType, TaskType
  <1> SUFFICES ASSUME App
               PROVE  /\ (Active /\ ctl.pc > 1 => store.claim)'
                      /\ (task.st # "none" => Since(Turn(task.call)))'
                      /\ \A r \in ran' : Since(Turn(r[1]))'
    BY <1>0 DEF SoleRun
  <1>c. /\ ApplicationPlace(Call, ctl.pc) /\ ctl.pc \in Nat /\ ctl.pc >= 1
    BY CallIs
  <1>1. (Active /\ ctl.pc > 1 => store.claim)'
    <2>1. CASE Aside \/ Expires \/ StopsTask \/ Works
      BY <2>1 DEF Aside, Expires, StopsTask, Works, Keeps, SoleRun, Active
    <2>2. CASE Starts BY <2>2 DEF Starts, Idle
    <2>3. CASE Breaks BY <2>3 DEF Breaks, Fails, Idle, Active
    <2>4. CASE Gates BY <1>0, <2>4 DEF Gates, SoleRun, Active, Controllers
    <2>5. CASE Launches BY <1>0, <2>5 DEF Launches, At, Keeps, SoleRun, Active, Controllers
    <2>6. CASE Moves
      <3>1. Active /\ Forward /\ (store.claim => store'.claim) /\ (At("claim") => store'.claim)
        BY <2>6 DEF Moves
      <3>2. CASE ctl.pc > 1 BY <3>1, <3>2 DEF SoleRun
      <3>3. CASE ctl.pc = 1
        <4>1. Call[1] = "claim" BY <1>c, <3>3 DEF ApplicationPlace
        <4>2. ctl.st = "run" BY <3>1, <4>1 DEF Awaited, Active
        <4> QED BY <3>1, <4>1, <4>2 DEF At
      <3> QED BY <1>c, <3>2, <3>3
    <2> QED BY <2>1, <2>2, <2>3, <2>4, <2>5, <2>6 DEF StepKinds
  <1>p. ASSUME At("run"), Breaks \/ Launches, task'.call = Call[2]
        PROVE  Since(Turn(task.call))'
    <2>1. Turn(Call[2]) = ctl.pc /\ ctl.pc > 1 /\ store.claim
      BY <1>c, <1>p DEF At, ApplicationPlace, SoleRun, Active
    <2>2. CASE Breaks BY <2>1, <2>2 DEF Breaks, Fails, Idle, Since, Active, Keeps
    <2>3. CASE Launches BY <1>0, <1>p, <2>1, <2>3 DEF Launches, Since, Active, Keeps, Controllers
    <2> QED BY <1>p, <2>2, <2>3
  <1>2. (task.st # "none" => Since(Turn(task.call)))'
    <2> SUFFICES ASSUME task'.st # "none" PROVE Since(Turn(task.call))'
      OBVIOUS
    <2>1. ASSUME task'.call = task.call, task.st # "none" PROVE Since(Turn(task.call))'
      <3>1. PICK n \in Nat : n = Turn(task.call) BY TurnType
      <3>2. Since(n) BY <2>1, <3>1 DEF SoleRun
      <3>3. Since(n)' BY <3>2, SinceStep
      <3>4. Turn(task'.call) = n BY <2>1, <3>1
      <3> QED BY <3>3, <3>4 DEF Since, Turn
    <2>2. CASE UNCHANGED task BY <2>1, <2>2
    <2>3. CASE Works /\ task'.call = task.call BY <2>1, <2>3 DEF Works, Alive
    <2>4. CASE Listed /\ task'.call = task.call BY <2>1, <2>4 DEF Listed
    <2>5. CASE (Breaks \/ Launches) /\ At("run") /\ task'.call = Call[2] BY <1>p, <2>5
    <2> QED BY <2>2, <2>3, <2>4, <2>5, TaskStep DEF NoTask, Launches
  <1>3. ASSUME NEW r \in ran' PROVE Since(Turn(r[1]))'
    <2>1. PICK n \in Nat : n = Turn(r[1]) BY TurnType
    <2>2. Since(n)
      <3>1. CASE r \in ran BY <2>1, <3>1 DEF SoleRun
      <3>2. CASE r \notin ran
        <4>1. Works /\ r[1] = task.call BY <3>2, RanStep
        <4> QED BY <2>1, <4>1 DEF Works, Alive, SoleRun
      <3> QED BY <3>1, <3>2
    <2>3. Since(n)' BY <2>2, SinceStep
    <2> QED BY <2>1, <2>3 DEF Since, Turn
  <1> QED BY <1>1, <1>2, <1>3

(* At the start of a call of the application its task has not run before.   *)
LEMMA NotBefore ==
    ASSUME TypeInv, SoleRun, App, At("run")
    PROVE  ~ Since(Turn(Call[2])) /\ ~ \E r \in ran : r[1] = Call[2]
  <1>1. Turn(Call[2]) = ctl.pc /\ ctl.pc \in Nat /\ ctl.pc # 1
    BY CallIs DEF At, ApplicationPlace
  <1>2. ~ Since(Turn(Call[2])) BY <1>1 DEF Since, Active, At
  <1> QED BY <1>2 DEF SoleRun

(* What a step adds to the known results: that of the task that ends.       *)
LEMMA ResultsStep ==
    ASSUME TypeInv, StepKinds, NEW r \in Results', r \notin Results
    PROVE  /\ Works /\ UNCHANGED data
           /\ \/ Quits /\ r = <<task.call, NoOutcome>>
              \/ Reports /\ r = <<task.call, Outcome>>
  <1>0. task \in Tasks /\ ran \subseteq Requests \X Outcomes BY DEF TypeInv, TaskType
  <1>1. CASE Works
    <2>1. CASE Quits
      <3>1. ran' \subseteq ran \union {<<task.call, NoOutcome>>} BY <2>1 DEF Quits, Ended
      <3>2. task'.call = task.call /\ task'.out = NoOutcome BY <1>0, <2>1 DEF Quits, Ended, Tasks
      <3>3. r \in ran \union {<<task.call, NoOutcome>>} BY <3>1, <3>2 DEF Results
      <3> QED BY <1>1, <2>1, <3>3 DEF Quits, Results
    <2>2. CASE Reports
      <3>1. ran' \subseteq ran \union {<<task.call, Outcome>>} BY <2>2 DEF Reports, Ended
      <3>2. task'.call = task.call /\ task'.out = Outcome BY <1>0, <2>2 DEF Reports, Ended, Tasks
      <3>3. r \in ran \union {<<task.call, Outcome>>} BY <3>1, <3>2 DEF Results
      <3> QED BY <1>1, <2>2, <3>3 DEF Reports, Results
    <2>3. ~ TaskMoves
      <3>1. SUFFICES ASSUME Continue PROVE FALSE
        BY DEF TaskMoves, Passes, Intends, Supplies, Closes, Reopens, Proposes, Delivers
      <3>2. task'.st = task.st /\ ran' = ran BY <1>0, <3>1 DEF Continue, Tasks
      <3> QED BY <1>1, <3>2 DEF Results, Works, Alive
    <2> QED BY <1>1, <2>1, <2>2, <2>3 DEF Works
  <1>2. CASE ~ Works
    <2>1. CASE UNCHANGED task /\ ran' \subseteq ran BY <2>1 DEF Results
    <2>2. CASE UNCHANGED ran /\ task'.st = "stopping" BY <2>2 DEF Results
    <2>3. CASE UNCHANGED ran /\ task' = [NoTask EXCEPT !.call = Call[2], !.st = "running"]
      BY <2>3 DEF Results, NoTask
    <2>4. ASSUME NEW p \in ran, UNCHANGED ran, p[1] = Call[2],
                 task' = [NoTask EXCEPT !.call = Call[2], !.st = "stopped", !.out = p[2]]
          PROVE  FALSE
      <3>1. task'.call = p[1] /\ task'.out = p[2] BY <2>4 DEF NoTask
      <3>2. <<task'.call, task'.out>> \in ran BY <1>0, <3>1
      <3> QED BY <2>4, <3>2 DEF Results
    <2> QED BY <1>2, <2>1, <2>2, <2>3, <2>4, TaskStep
  <1> QED BY <1>1, <1>2

(* Known results are of tasks that a workflow launches.                     *)
LEMMA ResultsTyped ==
    ASSUME TypeInv, NEW r \in Results
    PROVE  r[1] \in Requests /\ r[2] \in Outcomes
  BY DEF TypeInv, TaskType, Tasks, Results

(* A step of the controller that brings a database back.                    *)
Restoring ==
    /\ At("restore") /\ Call[2] \in Restores /\ Call[3] \in {1, 2}
    /\ led' = [led EXCEPT ![Call[2]] = ContentAt(ctl.points[Call[3]].at)]
    /\ \A h \in Restores : ~ Exists(h)
    /\ UNCHANGED <<closed, at, now, task, ran, late>>

(* What a step does to the ledgers.                                         *)
LEMMA LedgerStep ==
    ASSUME TypeInv, StepKinds
    PROVE  /\ \/ UNCHANGED <<led, at>> /\ now' \in Nat /\ now' >= now
              \/ Restoring
              \/ Works /\ TaskMoves
           /\ led["receipts"] \subseteq led'["receipts"]
           /\ led["control"] \subseteq led'["control"]
           /\ \/ Restoring
              \/ led["matching"] \subseteq led'["matching"] /\ led'["behind"] = led["behind"]
  <1>0. led \in [Gens -> SUBSET Keys] /\ now \in Nat /\ task \in Tasks
        /\ {"control", "receipts", "matching", "behind"} \subseteq Gens /\ Restores = {"behind", "matching"}
    BY DEF TypeInv, DataType, TaskType, Gens, Restores
  <1> DEFINE Goal == /\ led["receipts"] \subseteq led'["receipts"]
                     /\ led["control"] \subseteq led'["control"]
                     /\ led["matching"] \subseteq led'["matching"] /\ led'["behind"] = led["behind"]
  <1>1. CASE Works
    <2>1. CASE Quits \/ Reports
      BY <1>0, <2>1 DEF Quits, Reports, data
    <2>2. CASE TaskMoves
      <3> SUFFICES Goal BY <1>1, <2>2
      <3>1. CASE Passes BY <1>0, <3>1 DEF Passes, data
      <3>2. CASE Intends BY <1>0, <3>2 DEF Intends, Recorded, data
      <3>3. CASE Supplies BY <1>0, <3>3 DEF Supplies
      <3>4. CASE Closes \/ Reopens BY <1>0, <3>4 DEF Closes, Reopens
      <3>5. ASSUME NEW k \in Keys, Proposes(k) PROVE Goal
        BY <1>0, <3>5 DEF Proposes, Recorded
      <3>6. ASSUME NEW k \in Keys, Delivers(k) PROVE Goal
        BY <1>0, <3>6 DEF Delivers
      <3> HIDE DEF Goal
      <3> QED BY <2>2, <3>1, <3>2, <3>3, <3>4, <3>5, <3>6 DEF TaskMoves
    <2> QED BY <1>1, <2>1, <2>2 DEF Works
  <1>2. CASE Moves
    <2>1. CASE UNCHANGED led BY <1>2, <2>1 DEF Moves
    <2>2. CASE RestoreGeneration
      <3>1. At("restore") /\ Call[2] \in Restores /\ Call[3] \in {1, 2}
        BY <2>2, CallIs, CallTyped DEF RestoreGeneration, At
      <3>2. Restoring BY <1>2, <2>2, <3>1 DEF RestoreGeneration, RestoreTo, Restoring
      <3>3. led'["receipts"] = led["receipts"] /\ led'["control"] = led["control"]
        BY <1>0, <3>2 DEF Restoring
      <3> QED BY <3>2, <3>3
    <2> QED BY <1>2, <2>1, <2>2 DEF Moves
  <1>3. CASE ~ Works /\ ~ Moves
    <2>1. UNCHANGED data
      BY <1>3 DEF StepKinds, Aside, Expires, StopsTask, Starts, Breaks, Gates, Launches
    <2> QED BY <1>0, <2>1 DEF data
  <1> QED BY <1>1, <1>2, <1>3

(* Where the keys of the two source ledgers come from.                      *)
LEMMA Sources ==
    ASSUME TypeInv, StepKinds
    PROVE  /\ led'["receipts"] # led["receipts"] =>
                  Works /\ TaskMoves /\ (Supplies \/ \E k \in Keys : Delivers(k))
           /\ \A k \in led'["receipts"] :
                  k \notin led["receipts"] => (Supplies /\ k = "base") \/ Delivers(k)
           /\ led'["control"] # led["control"] =>
                  Works /\ TaskMoves /\ Gen = "control" /\ (Intends \/ \E k \in Keys : Proposes(k))
           /\ \A k \in led'["control"] :
                  k \notin led["control"] => (Intends /\ k = "base") \/ Proposes(k)
  <1>0. led \in [Gens -> SUBSET Keys] /\ "control" \in Gens /\ "receipts" \in Gens
        /\ Gen \in {"control"} \union Restores /\ Restores = {"behind", "matching"}
    BY DEF TypeInv, DataType, TaskType, Tasks, Requests, TaskCalls, Gens, Restores, Gen
  <1> DEFINE Same == led'["receipts"] = led["receipts"] /\ led'["control"] = led["control"]
  <1>1. CASE UNCHANGED <<led, at>> BY <1>1
  <1>2. CASE Restoring BY <1>0, <1>2 DEF Restoring
  <1>3. CASE Works /\ TaskMoves
    <2>1. CASE Passes \/ Closes \/ Reopens
      BY <2>1 DEF Passes, Closes, Reopens, data
    <2>2. CASE Intends
      <3>1. led'["receipts"] = led["receipts"] /\ led'["control"] \subseteq led["control"] \union {"base"}
        BY <1>0, <2>2 DEF Intends, Recorded, data
      <3> QED BY <1>3, <2>2, <3>1 DEF Intends
    <2>3. CASE Supplies
      <3>1. led'["control"] = led["control"] /\ led'["receipts"] \subseteq led["receipts"] \union {"base"}
        BY <1>0, <2>3 DEF Supplies
      <3> QED BY <1>3, <2>3, <3>1
    <2>4. ASSUME NEW k \in Keys, Proposes(k)
          PROVE  /\ led'["receipts"] = led["receipts"] /\ led'["control"] \subseteq led["control"] \union {k}
                 /\ led'["control"] # led["control"] => Gen = "control"
      BY <1>0, <2>4 DEF Proposes, Recorded
    <2>5. ASSUME NEW k \in Keys, Delivers(k)
          PROVE  led'["control"] = led["control"] /\ led'["receipts"] \subseteq led["receipts"] \union {k}
      BY <1>0, <2>5 DEF Delivers
    <2>6. CASE \E k \in Keys : Proposes(k)
      <3>1. PICK k \in Keys : Proposes(k) BY <2>6
      <3> QED BY <1>3, <2>4, <3>1
    <2>7. CASE \E k \in Keys : Delivers(k)
      <3>1. PICK k \in Keys : Delivers(k) BY <2>7
      <3> QED BY <1>3, <2>5, <3>1
    <2> QED BY <1>3, <2>1, <2>2, <2>3, <2>6, <2>7 DEF TaskMoves
  <1> QED BY <1>1, <1>2, <1>3, LedgerStep

(* Turns of tasks, by what they are for.                                    *)
LEMMA TurnOf ==
    ASSUME NEW c \in Requests
    PROVE  /\ c.name = "baseline" => Turn(c) = 5
           /\ c.name = "control" => Turn(c) = 7
           /\ c.gen = "behind" => Turn(c) \in {21, 22}
           /\ c.phase = "matching" => Turn(c) = 29
           /\ c.gen = "matching" => Turn(c) \in {29, 30}
  BY DEF Requests, TaskCalls, Turn, Restores

(* The controller gets beyond a call only by making it.                     *)
LEMMA Reached ==
    ASSUME TypeInv, StepKinds, NEW n \in Nat, n >= 1, Active', ctl'.pc > n
    PROVE  Active /\ (ctl.pc > n \/ (Moves /\ ctl.pc = n))
  <1>0. ctl \in Controllers /\ ctl.pc \in Nat BY CallIs DEF TypeInv, CtlType
  <1>1. CASE Aside \/ Expires \/ StopsTask \/ Works
    BY <1>1 DEF Aside, Expires, StopsTask, Works, Active
  <1>2. ~ Starts /\ ~ Breaks BY DEF Starts, Breaks, Fails, Idle, Active
  <1>3. CASE Gates BY <1>0, <1>3 DEF Gates, Active, Controllers
  <1>4. CASE Launches BY <1>0, <1>4 DEF Launches, At, Active, Controllers
  <1>5. CASE Moves BY <1>0, <1>5 DEF Moves, Forward, Active
  <1> QED BY <1>1, <1>2, <1>3, <1>4, <1>5 DEF StepKinds

(* It gets beyond the call of a task with the result it accepts.            *)
LEMMA Answered ==
    ASSUME TypeInv, Awaited, Moves, Call[1] = "run"
    PROVE  /\ ctl.st = "await" /\ task.st = "stopped" /\ task.call = Call[2] /\ ~ late
           /\ Accepted(task.out) /\ task.out.exit = Call[2].exit
           /\ <<task.call, task.out>> \in Results
           /\ UNCHANGED <<db, led, closed, at, task, ran>>
  <1>1. ctl.st = "await" /\ task.st = "stopped" /\ Accepted(task.out)
        /\ UNCHANGED <<db, led, closed, at, task, ran>>
    BY DEF Moves, Active
  <1> QED BY <1>1 DEF Awaited, Accepted, Results

-----------------------------------------------------------------------------
(* Effects and intents.                                                     *)

(* The invariants of effects. In the SQL workflows there is one effect.     *)
FixtureEffects == ~ App => led["receipts"] \subseteq {"base"}

(* The intent of the matching database is never made on the source.         *)
NewNever == "new" \notin led["control"]

(* The second intent comes with the control task, the third effect with the *)
(* matching recovery.                                                       *)
MoreLate == "more" \in led["control"] => App /\ Since(7)

NewLate == App /\ "new" \in led["receipts"] => Since(29)

(* The place after which the control task of a SQL workflow has reported.   *)
Cut == IF wf = "sql" THEN 6 ELSE 7

(* In the SQL workflows the intent is committed before any receipt task can *)
(* deliver it.                                                              *)
IntentFirst == ~ App =>
    /\ Alive /\ task.call.name = "receipt" => "base" \in led["control"]
    /\ Alive /\ task.call.name = "control" /\ task.pc = 2 => "base" \in led["control"]
    /\ \A r \in Results : r[1].name = "control" /\ r[2].exit # 1 => "base" \in led["control"]
    /\ Active /\ ctl.pc > Cut => "base" \in led["control"]

(* But for what the matching database adds, the source knows every effect.  *)
SourceKnows == led["receipts"] \ {"new"} \subseteq led["control"]

(* While a task is between its checks and its writes what it has checked    *)
(* still holds, for no other task runs.                                     *)
Seeding == App /\ Alive /\ task.call.name = "baseline" =>
    /\ task.pc \in 2 .. 4 => led["receipts"] = {}
    /\ task.pc = 3 => led["control"] = {}

Advancing == App /\ Alive /\ task.call.name = "control" =>
    /\ task.pc \in 2 .. 3 => led["receipts"] = {"base"}
    /\ task.pc <= 2 => "more" \notin led["control"]

Matching == App /\ Alive /\ task.call.phase = "matching" /\ task.pc \in 4 .. 6 =>
    led["receipts"] \subseteq led["matching"]

(* The inductive invariant of effects.                                      *)
EffectInv == /\ Awaited /\ SoleRun /\ FixtureEffects /\ NewNever /\ MoreLate /\ NewLate
             /\ IntentFirst /\ SourceKnows /\ Seeding /\ Advancing /\ Matching

(* Each conjunct is preserved.                                              *)
LEMMA KeysStep ==
    ASSUME TypeInv, Awaited, SoleRun, FixtureEffects, NewNever, MoreLate, NewLate, StepKinds
    PROVE  FixtureEffects' /\ NewNever' /\ MoreLate' /\ NewLate'
  <1>0. App' = App /\ task.call \in Requests /\ Turn(task.call) \in Nat
    BY FlowConstant, TurnType DEF TypeInv, TaskType, Tasks
  <1>1. FixtureEffects'
    <2> SUFFICES ASSUME ~ App, NEW k \in led'["receipts"] PROVE k = "base"
      BY <1>0 DEF FixtureEffects
    <2>1. ~ Delivers(k) BY DEF Delivers
    <2> QED BY <2>1, Sources DEF FixtureEffects
  <1>2. NewNever'
    <2> SUFFICES ASSUME "new" \in led'["control"] PROVE FALSE BY DEF NewNever
    <2>1. Proposes("new") /\ Gen = "control"
      BY Sources DEF NewNever
    <2> QED BY <2>1 DEF Proposes
  <1>s. ASSUME App, NEW n \in Nat, Turn(task.call) = n, Alive PROVE Since(n)'
    <2>1. Since(n) BY <1>s DEF SoleRun, Alive
    <2> QED BY <1>s, <2>1, SinceStep
  <1>3. MoreLate'
    <2> SUFFICES ASSUME "more" \in led'["control"] PROVE App /\ Since(7)'
      BY <1>0 DEF MoreLate
    <2>1. CASE "more" \in led["control"] BY <2>1, SinceStep DEF MoreLate
    <2>2. CASE "more" \notin led["control"]
      <3>1. Proposes("more") /\ Works BY <2>2, Sources
      <3>2. App /\ task.call.name = "control" /\ Alive BY <3>1 DEF Proposes, Works
      <3>3. Turn(task.call) = 7 BY <1>0, <3>2, TurnOf
      <3> QED BY <1>s, <3>2, <3>3
    <2> QED BY <2>1, <2>2
  <1>4. NewLate'
    <2> SUFFICES ASSUME App, "new" \in led'["receipts"] PROVE Since(29)'
      BY <1>0 DEF NewLate
    <2>1. CASE "new" \in led["receipts"] BY <2>1, SinceStep DEF NewLate
    <2>2. CASE "new" \notin led["receipts"]
      <3>1. Delivers("new") /\ Works BY <2>2, Sources
      <3>2. task.call.phase = "matching" /\ Alive BY <3>1 DEF Delivers, Works
      <3>3. Turn(task.call) = 29 BY <1>0, <3>2, TurnOf
      <3> QED BY <1>s, <3>2, <3>3
    <2> QED BY <2>1, <2>2
  <1> QED BY <1>1, <1>2, <1>3, <1>4

(* A task that runs on is at most one step further.                         *)
LEMMA RunsOn ==
    ASSUME TypeInv, StepKinds, Alive'
    PROVE  \/ /\ Alive /\ task'.call = task.call /\ ~ (Works /\ TaskMoves)
              /\ task'.pc = task.pc
           \/ Works /\ TaskMoves /\ task'.call = task.call /\ task'.pc = task.pc + 1
           \/ /\ ~ Alive /\ At("run") /\ task'.call = Call[2] /\ task'.pc = 1
              /\ Breaks \/ Launches
  <1>0. task \in Tasks BY DEF TypeInv, TaskType
  <1>1. CASE Works
    <2>1. ~ Quits /\ ~ Reports
      <3>1. ASSUME NEW o, Ended(o) PROVE FALSE
        <4>1. task'.st = "stopped" BY <1>0, <3>1 DEF Ended, Tasks
        <4> QED BY <4>1 DEF Alive
      <3> QED BY <3>1 DEF Quits, Reports
    <2>2. TaskMoves BY <1>1, <2>1 DEF Works
    <2>3. Continue
      BY <2>2 DEF TaskMoves, Passes, Intends, Supplies, Closes, Reopens, Proposes, Delivers
    <2>4. task'.call = task.call /\ task'.pc = task.pc + 1
      BY <1>0, <2>3 DEF Continue, Tasks
    <2> QED BY <1>1, <2>2, <2>4
  <1>2. CASE ~ Works
    <2>1. CASE UNCHANGED task BY <1>2, <2>1 DEF Alive
    <2>2. CASE Listed /\ task'.call = task.call /\ task'.pc = task.pc
      BY <1>2, <2>2 DEF Alive, Listed
    <2>3. CASE /\ Breaks \/ Launches
               /\ ~ Alive /\ At("run") /\ task' = [NoTask EXCEPT !.call = Call[2], !.st = "running"]
      BY <2>3 DEF NoTask
    <2>4. ASSUME NEW r \in ran, task' = [NoTask EXCEPT !.call = Call[2], !.st = "stopped", !.out = r[2]]
          PROVE  FALSE
      BY <2>4 DEF NoTask, Alive
    <2> QED BY <1>2, <2>1, <2>2, <2>3, <2>4, TaskStep
  <1> QED BY <1>1, <1>2

(* The fixture: first its intent, then its effect.                          *)
LEMMA IntentStep ==
    ASSUME TypeInv, Awaited, IntentFirst, StepKinds
    PROVE  IntentFirst'
  <1>0. /\ App' = App /\ Cut' = Cut /\ task.call \in Requests /\ Cut \in Nat /\ Cut >= 1
        /\ led \in [Gens -> SUBSET Keys] /\ "control" \in Gens
    BY FlowConstant DEF TypeInv, TaskType, DataType, Tasks, Cut, Gens
  <1> DEFINE There == "base" \in led'["control"]
  <1>1. "base" \in led["control"] => There BY LedgerStep
  <1> SUFFICES ASSUME ~ App, ~ There
               PROVE  /\ ~ (Alive /\ task.call.name = "receipt")'
                      /\ ~ (Alive /\ task.call.name = "control" /\ task.pc = 2)'
                      /\ \A r \in Results' : ~ (r[1].name = "control" /\ r[2].exit # 1)
                      /\ ~ (Active /\ ctl.pc > Cut)'
    BY <1>0 DEF IntentFirst
  <1>2. "base" \notin led["control"] BY <1>1
  <1>f. FixturePlace(Call, ctl.pc, Cut, IF wf = "sql" THEN 11 ELSE 22, IF wf = "sql" THEN 13 ELSE 24,
                     IF wf = "sql" THEN 0 ELSE 19)
    BY CallIs DEF Cut, TypeInv, Flows, App
  <1>3. ASSUME (Alive /\ task.call.name = "receipt")' PROVE FALSE
    <2>1. ~ Alive /\ At("run") /\ Call[2].name = "receipt"
      BY <1>2, <1>3, RunsOn DEF IntentFirst, Works
    <2>2. Active /\ ctl.pc > Cut BY <1>f, <2>1, CallIs, <1>0 DEF FixturePlace, At, Active
    <2> QED BY <1>2, <2>2 DEF IntentFirst
  <1>4. ASSUME (Alive /\ task.call.name = "control" /\ task.pc = 2)' PROVE FALSE
    <2>1. Works /\ TaskMoves /\ task.call.name = "control"
      BY <1>2, <1>4, RunsOn DEF IntentFirst
    <2>2. CASE Intends
      <3>1. led' = [led EXCEPT ![Gen] = @ \union {"base"}] /\ Gen = "control"
        BY <1>2, <2>2 DEF Intends, Recorded
      <3> QED BY <1>0, <3>1
    <2> QED BY <2>1, <2>2 DEF TaskMoves, Passes, Supplies, Closes, Reopens, Proposes, Delivers
  <1>5. ASSUME NEW r \in Results', r[1].name = "control", r[2].exit # 1 PROVE FALSE
    <2>1. r \notin Results BY <1>2, <1>5 DEF IntentFirst
    <2>2. Works /\ (r = <<task.call, NoOutcome>> \/ (Reports /\ r = <<task.call, Outcome>>))
      BY <2>1, ResultsStep
    <2>3. Reports /\ task.call.name = "control" BY <1>5, <2>2 DEF NoOutcome
    <2>4. Len(Steps(task.call)) = 2
      BY <2>3 DEF Steps, FixtureSteps, App
    <2>5. Alive /\ task.pc = 2 BY <2>2, <2>3, <2>4 DEF Works, Reports
    <2> QED BY <1>2, <2>3, <2>5 DEF IntentFirst
  <1>6. ASSUME (Active /\ ctl.pc > Cut)' PROVE FALSE
    <2>1. Active /\ (ctl.pc > Cut \/ (Moves /\ ctl.pc = Cut)) BY <1>0, <1>6, Reached
    <2>2. Moves /\ ctl.pc = Cut BY <1>2, <2>1 DEF IntentFirst
    <2>3. Call[1] = "run" /\ Call[2].name = "control" /\ Call[2].exit = 0
      BY <1>f, <2>2 DEF FixturePlace
    <2>4. /\ <<task.call, task.out>> \in Results
          /\ task.call.name = "control" /\ task.out.exit = 0
      BY <2>2, <2>3, Answered
    <2> QED BY <1>2, <2>4 DEF IntentFirst
  <1> QED BY <1>3, <1>4, <1>5, <1>6

(* What is delivered was proposed.                                          *)
LEMMA KnownStep ==
    ASSUME TypeInv, FixtureEffects, IntentFirst, SourceKnows, StepKinds
    PROVE  SourceKnows'
  <1> SUFFICES ASSUME NEW k \in led'["receipts"], k # "new" PROVE k \in led'["control"]
    BY DEF SourceKnows
  <1>1. led["control"] \subseteq led'["control"] BY LedgerStep
  <1>2. CASE k \in led["receipts"] BY <1>1, <1>2 DEF SourceKnows
  <1>3. CASE k \notin led["receipts"]
    <2>0. Works BY <1>3, Sources
    <2>1. CASE Supplies /\ k = "base"
      BY <1>1, <2>0, <2>1 DEF Supplies, Works, IntentFirst
    <2>2. CASE Delivers(k) BY <1>1, <2>2 DEF Delivers
    <2> QED BY <1>3, <2>1, <2>2, Sources
  <1> QED BY <1>2, <1>3

(* The three application tasks that propose and deliver                     *)
(* (native_app_tasks.py:259-354).                                           *)
LEMMA SeedingStep ==
    ASSUME TypeInv, Seeding, StepKinds
    PROVE  Seeding'
  <1>0. /\ App' = App /\ task.call \in Requests /\ task.pc \in Nat
        /\ task.call.name = "baseline" => task.call.phase = "none"
    BY FlowConstant DEF TypeInv, TaskType, Tasks, Requests, TaskCalls
  <1> SUFFICES ASSUME App, Alive', task'.call.name = "baseline"
               PROVE  /\ task'.pc \in 2 .. 4 => led'["receipts"] = {}
                      /\ task'.pc = 3 => led'["control"] = {}
    BY <1>0 DEF Seeding
  <1>1. CASE Alive /\ task'.call = task.call /\ ~ (Works /\ TaskMoves) /\ task'.pc = task.pc
    <2>1. led'["receipts"] = led["receipts"] /\ led'["control"] = led["control"]
      BY <1>1, Sources
    <2> QED BY <1>1, <2>1 DEF Seeding
  <1>2. CASE Works /\ TaskMoves /\ task'.call = task.call /\ task'.pc = task.pc + 1
    <2>1. Alive BY <1>2 DEF Works
    <2>2. CASE Passes
      <3>1. UNCHANGED led BY <2>2 DEF Passes, data
      <3>2. \/ task.pc = 1 /\ led["receipts"] = {}
            \/ task.pc = 2 /\ led["control"] = {}
        BY <1>2, <2>2 DEF Passes
      <3> QED BY <1>2, <2>1, <3>1, <3>2 DEF Seeding
    <2>3. ASSUME NEW k \in Keys, Proposes(k)
          PROVE  /\ task'.pc \in 2 .. 4 => led'["receipts"] = {}
                 /\ task'.pc = 3 => led'["control"] = {}
      <3>1. task.pc = 3 /\ Gen = "control" BY <1>0, <1>2, <2>3 DEF Proposes
      <3>2. led'["receipts"] = led["receipts"]
        <4>1. ~ Supplies BY DEF Supplies
        <4>2. ~ \E j \in Keys : Delivers(j) BY <1>0, <1>2, <3>1 DEF Delivers
        <4> QED BY <4>1, <4>2, Sources
      <3> QED BY <1>2, <2>1, <3>1, <3>2 DEF Seeding
    <2>4. ASSUME NEW k \in Keys, Delivers(k) PROVE task'.pc = 5
      BY <1>0, <1>2, <2>4 DEF Delivers
    <2> QED BY <1>0, <1>2, <2>2, <2>3, <2>4 DEF TaskMoves, Intends, Supplies, Closes, Reopens, Restores
  <1>3. CASE task'.pc = 1 BY <1>3
  <1> QED BY <1>1, <1>2, <1>3, RunsOn

LEMMA AdvancingStep ==
    ASSUME TypeInv, SoleRun, MoreLate, Advancing, StepKinds
    PROVE  Advancing'
  <1>0. /\ App' = App /\ task.call \in Requests /\ task.pc \in Nat
        /\ task.call.name = "control" => task.call.phase = "none"
    BY FlowConstant DEF TypeInv, TaskType, Tasks, Requests, TaskCalls
  <1> SUFFICES ASSUME App, Alive', task'.call.name = "control"
               PROVE  /\ task'.pc \in 2 .. 3 => led'["receipts"] = {"base"}
                      /\ task'.pc <= 2 => "more" \notin led'["control"]
    BY <1>0 DEF Advancing
  <1>1. CASE Alive /\ task'.call = task.call /\ ~ (Works /\ TaskMoves) /\ task'.pc = task.pc
    <2>1. led'["receipts"] = led["receipts"] /\ led'["control"] = led["control"]
      BY <1>1, Sources
    <2> QED BY <1>1, <2>1 DEF Advancing
  <1>2. CASE Works /\ TaskMoves /\ task'.call = task.call /\ task'.pc = task.pc + 1
    <2>1. Alive BY <1>2 DEF Works
    <2>2. CASE Passes
      <3>1. UNCHANGED led BY <2>2 DEF Passes, data
      <3>2. task.pc = 1 /\ led["receipts"] = {"base"}
        BY <1>2, <2>2 DEF Passes
      <3> QED BY <1>2, <2>1, <3>1, <3>2 DEF Advancing
    <2>3. ASSUME NEW k \in Keys, Proposes(k)
          PROVE  /\ task'.pc \in 2 .. 3 => led'["receipts"] = {"base"}
                 /\ task'.pc <= 2 => "more" \notin led'["control"]
      <3>1. task.pc = 2 BY <1>0, <1>2, <2>3 DEF Proposes
      <3>2. led'["receipts"] = led["receipts"]
        <4>1. ~ Supplies BY DEF Supplies
        <4>2. ~ \E j \in Keys : Delivers(j) BY <1>0, <1>2, <3>1 DEF Delivers
        <4> QED BY <4>1, <4>2, Sources
      <3> QED BY <1>2, <2>1, <3>1, <3>2 DEF Advancing
    <2>4. ASSUME NEW k \in Keys, Delivers(k) PROVE task'.pc = 4
      BY <1>0, <1>2, <2>4 DEF Delivers
    <2> QED BY <1>0, <1>2, <2>2, <2>3, <2>4 DEF TaskMoves, Intends, Supplies, Closes, Reopens, Restores
  <1>3. CASE ~ Alive /\ At("run") /\ task'.call = Call[2] /\ task'.pc = 1
    <2>1. Turn(Call[2]) = 7 BY <1>3, CallIs, TurnOf DEF At
    <2>2. "more" \notin led["control"] BY <1>3, <2>1, NotBefore DEF MoreLate
    <2>3. led'["control"] = led["control"] BY <1>3, Sources DEF Works
    <2> QED BY <1>3, <2>2, <2>3
  <1> QED BY <1>1, <1>2, <1>3, RunsOn

LEMMA MatchingStep ==
    ASSUME TypeInv, Awaited, SoleRun, Matching, StepKinds
    PROVE  Matching'
  <1>0. /\ App' = App /\ task.call \in Requests /\ task.pc \in Nat
        /\ led \in [Gens -> SUBSET Keys] /\ "matching" \in Gens /\ "receipts" \in Gens
        /\ task.call.phase = "matching" => task.call.name = "receipt"
    BY FlowConstant DEF TypeInv, TaskType, DataType, Tasks, Requests, TaskCalls, Gens, Restores
  <1> SUFFICES ASSUME App, Alive', task'.call.phase = "matching", task'.pc \in 4 .. 6
               PROVE  led'["receipts"] \subseteq led'["matching"]
    BY <1>0 DEF Matching
  <1>1. CASE Alive /\ task'.call = task.call /\ ~ (Works /\ TaskMoves) /\ task'.pc = task.pc
    <2>1. led'["receipts"] = led["receipts"] BY <1>1, Sources
    <2>2. ~ (Restoring /\ Call[2] = "matching")
      <3>1. SUFFICES ASSUME Restoring, Call[2] = "matching" PROVE FALSE OBVIOUS
      <3>2. ctl.pc = 27 /\ ctl.st = "run" BY <3>1, CallIs DEF Restoring, At, ApplicationPlace
      <3>3. Since(29) BY <1>0, <1>1, TurnOf DEF SoleRun, Alive
      <3> QED BY <3>2, <3>3 DEF Since, Active
    <2>3. led["matching"] \subseteq led'["matching"]
      <3>1. CASE Restoring BY <1>0, <2>2, <3>1 DEF Restoring
      <3> QED BY <3>1, LedgerStep
    <2> QED BY <1>1, <2>1, <2>3 DEF Matching
  <1>2. CASE Works /\ TaskMoves /\ task'.call = task.call /\ task'.pc = task.pc + 1
    <2>1. Alive /\ task.call.phase = "matching" /\ task.pc \in 3 .. 5 BY <1>0, <1>2 DEF Works
    <2>2. CASE Passes
      <3>1. UNCHANGED led BY <2>2 DEF Passes, data
      <3>2. Comparable("matching") BY <2>1, <2>2 DEF Passes
      <3> QED BY <3>1, <3>2 DEF Comparable
    <2>3. CASE Reopens
      <3>1. UNCHANGED led /\ task.pc = 4 BY <2>3 DEF Reopens
      <3> QED BY <2>1, <3>1 DEF Matching
    <2>4. ASSUME NEW k \in Keys, Proposes(k) PROVE led'["receipts"] \subseteq led'["matching"]
      <3>1. task.pc = 5 /\ Gen = "matching" BY <1>0, <2>1, <2>4 DEF Proposes
      <3>2. led' = [led EXCEPT !["matching"] = @ \union {k}] BY <2>4, <3>1 DEF Proposes, Recorded
      <3>3. led["receipts"] \subseteq led["matching"] BY <2>1, <3>1 DEF Matching
      <3> QED BY <1>0, <3>2, <3>3
    <2>5. ASSUME NEW k \in Keys, Delivers(k) PROVE FALSE
      BY <1>0, <2>1, <2>5 DEF Delivers
    <2> QED BY <1>0, <1>2, <2>1, <2>2, <2>3, <2>4, <2>5 DEF TaskMoves, Intends, Supplies, Closes
  <1>3. CASE task'.pc = 1 BY <1>3
  <1> QED BY <1>1, <1>2, <1>3, RunsOn

(* EffectInv holds initially and is preserved.                              *)
LEMMA EffectStep ==
    ASSUME TypeInv, EffectInv, StepKinds
    PROVE  EffectInv'
  BY AwaitedStep, SoleRunStep, KeysStep, IntentStep, KnownStep, SeedingStep, AdvancingStep,
     MatchingStep DEF EffectInv

LEMMA EffectInitially == Init => EffectInv
  <1> SUFFICES ASSUME Init PROVE EffectInv OBVIOUS
  <1>1. /\ led = [g \in Gens |-> {}] /\ task.st = "none" /\ ran = {} /\ ctl.st = "none"
        /\ "control" \in Gens /\ "receipts" \in Gens
    BY DEF Init, CloudInit, ControllerInit, Idle, NoTask, Gens
  <1>2. Results = {} /\ ~ Alive /\ ~ Active BY <1>1 DEF Results, Alive, Active
  <1>3. led["control"] = {} /\ led["receipts"] = {} BY <1>1
  <1> QED
    BY <1>1, <1>2, <1>3 DEF EffectInv, Awaited, SoleRun, FixtureEffects, NewNever, MoreLate, NewLate,
       IntentFirst, SourceKnows, Seeding, Advancing, Matching

(* In every state each effect was intended by a generation that still knows *)
(* it, or is about to be delivered by the matching one                      *)
(* (native_app_tasks.py:259-354).                                           *)
THEOREM EffectInvariance == Spec => [](TypeInv /\ WatchLate /\ EffectInv)
  <1>1. Init => TypeInv /\ WatchLate /\ EffectInv BY TypeInit, EffectInitially
  <1>2. (TypeInv /\ WatchLate /\ EffectInv) /\ [Next]_vars => (TypeInv /\ WatchLate /\ EffectInv)'
    BY TypeStep, EffectStep
  <1> QED BY <1>1, <1>2, PTL DEF Spec

(* A step that adds to the effects is made for a database that knows all    *)
(* others.                                                                  *)
LEMMA KnownEffects ==
    ASSUME TypeInv, EffectInv, StepKinds, led'["receipts"] # led["receipts"]
    PROVE  led["receipts"] \subseteq led[Gen]
  <1>0. Works /\ (Supplies \/ \E k \in Keys : Delivers(k)) BY Sources
  <1>1. CASE Supplies
    <2>1. ~ App /\ Gen = "control" BY <1>1 DEF Supplies
    <2> QED BY <2>1 DEF EffectInv, FixtureEffects, SourceKnows
  <1>2. ASSUME NEW k \in Keys, Delivers(k) PROVE led["receipts"] \subseteq led[Gen]
    <2>0. Alive /\ App BY <1>0, <1>2 DEF Works, Delivers
    <2>1. CASE task.call.name = "baseline" /\ task.pc = 4
      <3>1. led["receipts"] = {} BY <2>0, <2>1 DEF EffectInv, Seeding
      <3> QED BY <3>1
    <2>2. CASE task.call.name = "control" /\ task.pc = 3 /\ Gen = "control"
      <3>1. led["receipts"] = {"base"} BY <2>0, <2>2 DEF EffectInv, Advancing
      <3> QED BY <2>2, <3>1 DEF EffectInv, SourceKnows
    <2>3. CASE task.call.phase = "matching" /\ task.pc = 6 /\ Gen = "matching"
      BY <2>0, <2>3 DEF EffectInv, Matching
    <2> QED BY <1>2, <2>1, <2>2, <2>3 DEF Delivers
  <1> QED BY <1>0, <1>1, <1>2

(* native_app_tasks.py:259-354 The receiver gains an effect only from a     *)
(* control generation that knows all its other effects: never from one that *)
(* is behind.                                                               *)
THEOREM EffectsKnown == Spec => NoEffectBehind
  <1>1. TypeInv /\ WatchLate /\ EffectInv /\ [Next]_vars =>
            [led'["receipts"] # led["receipts"] => led["receipts"] \subseteq led[task.call.gen]]_vars
    BY TypeStep, KnownEffects DEF Gen
  <1> QED BY <1>1, EffectInvariance, PTL DEF Spec, NoEffectBehind

-----------------------------------------------------------------------------
(* The source is given up.                                                  *)

(* A controller at work before the deadline has no task that is stopping.   *)
NoStopping == Active /\ ~ late => task.st # "stopping"

(* The places after which the owners are registered and the checkpoint has  *)
(* been read back.                                                          *)
Registered == IF App THEN 12 ELSE 16

(* What the calls before the deletion have left behind                      *)
(* (native_retained.py:178-228).                                            *)
Prepared == (~ late /\ Active /\ wf # "sql") =>
    /\ ctl.pc > Registered => {"control", "receipts"} \subseteq store.secrets
    /\ ctl.pc > Registered + 1 => store.prepared

(* The deadline passes once.                                                *)
LEMMA LateStays == StepKinds => (late => late')
  BY DEF StepKinds, Aside, Expires, StopsTask, Works, Starts, Breaks, Gates, Launches, Moves

(* The two conjuncts are preserved: a controller that stops its task fails  *)
(* by that, and before the deadline nobody takes back what it has recorded. *)
LEMMA NoStoppingStep ==
    ASSUME TypeInv, NoStopping, StepKinds
    PROVE  NoStopping'
  <1>0. task \in Tasks /\ ctl \in Controllers BY DEF TypeInv, TaskType, CtlType
  <1> SUFFICES ASSUME Active', ~ late', task'.st = "stopping" PROVE FALSE
    BY DEF NoStopping
  <1>1. CASE Aside \/ Works
    <2>1. Active /\ ~ late BY <1>1 DEF Aside, Works, Active
    <2>2. task.st # "stopping" BY <2>1 DEF NoStopping
    <2>3. task'.st \in {task.st, "stopped"}
      BY <1>0, <1>1 DEF Aside, Works, Quits, Reports, TaskMoves, Passes, Intends, Supplies, Closes, Reopens,
         Proposes, Delivers, Ended, Continue, Tasks
    <2> QED BY <2>2, <2>3
  <1>2. ~ Expires /\ ~ StopsTask /\ ~ Breaks
    BY DEF Expires, StopsTask, Breaks, Fails, Idle, Active
  <1>3. CASE Starts BY <1>3 DEF Starts
  <1>4. CASE Gates BY <1>4 DEF Gates, NoStopping, Active
  <1>5. CASE Launches BY <1>5 DEF Launches, NoTask
  <1>6. CASE Moves BY <1>6 DEF Moves, NoStopping
  <1> QED BY <1>1, <1>2, <1>3, <1>4, <1>5, <1>6 DEF StepKinds

LEMMA PreparedStep ==
    ASSUME TypeInv, Awaited, Prepared, StepKinds
    PROVE  Prepared'
  <1>0. App' = App /\ wf' = wf /\ Registered' = Registered
    BY FlowConstant DEF Registered
  <1> SUFFICES ASSUME ~ late', Active', wf # "sql"
               PROVE  /\ ctl'.pc > Registered => {"control", "receipts"} \subseteq store'.secrets
                      /\ ctl'.pc > Registered + 1 => store'.prepared
    BY <1>0 DEF Prepared
  <1>1. ~ late BY LateStays
  <1>2. store.secrets \subseteq store'.secrets /\ (store.prepared => store'.prepared)
    BY <1>1 DEF StepKinds, Aside, Expires, StopsTask, Works, Starts, Breaks, Gates, Launches, Moves, Keeps
  <1>3. /\ ctl.pc = Registered => Call[1] = "register"
        /\ ctl.pc = Registered + 1 => Call[1] = "checkpoint"
    <2>1. App \/ wf = "retained" BY DEF TypeInv, Flows, App
    <2>2. CASE App BY <2>2, CallIs DEF Registered, ApplicationPlace
    <2>3. CASE wf = "retained" BY <2>3, ProgramAt DEF Registered, Call, App, TypeInv, CtlType
    <2> QED BY <2>1, <2>2, <2>3
  <1>4. ASSUME ctl'.pc > Registered PROVE {"control", "receipts"} \subseteq store'.secrets
    <2>1. Active /\ (ctl.pc > Registered \/ (Moves /\ ctl.pc = Registered))
      BY <1>4, Reached DEF Registered
    <2>2. CASE ctl.pc > Registered BY <1>1, <1>2, <2>1, <2>2 DEF Prepared
    <2>3. CASE Moves /\ ctl.pc = Registered
      <3>1. Call[1] = "register" /\ ctl.st = "run" BY <1>3, <2>1, <2>3 DEF Awaited, Active
      <3> QED BY <2>3, <3>1 DEF Moves, At
    <2> QED BY <2>1, <2>2, <2>3
  <1>5. ASSUME ctl'.pc > Registered + 1 PROVE store'.prepared
    <2>0. Registered + 1 \in Nat /\ Registered + 1 >= 1 BY DEF Registered
    <2>1. Active /\ (ctl.pc > Registered + 1 \/ (Moves /\ ctl.pc = Registered + 1))
      <3>1. \A n \in Nat : n >= 1 /\ ctl'.pc > n => Active /\ (ctl.pc > n \/ (Moves /\ ctl.pc = n))
        BY Reached
      <3> QED BY <1>5, <2>0, <3>1
    <2>2. CASE ctl.pc > Registered + 1 BY <1>1, <1>2, <2>1, <2>2 DEF Prepared
    <2>3. CASE Moves /\ ctl.pc = Registered + 1
      <3>1. Call[1] = "checkpoint" /\ ctl.st = "run" BY <1>3, <2>1, <2>3 DEF Awaited, Active
      <3> QED BY <2>3, <3>1 DEF Moves, At
    <2> QED BY <2>1, <2>2, <2>3
  <1> QED BY <1>4, <1>5

(* Who begins to delete the source.                                         *)
LEMMA SourceDeleted ==
    ASSUME TypeInv, WatchLate, [Next]_vars, ~ late,
           db["control"] = "available", db'["control"] = "deleting"
    PROVE  /\ At("delete") /\ Call[2] = "control" /\ Deletable("control") /\ ~ Listed
  <1>0. db \in [Gens -> DbStates] /\ "control" \in Gens /\ Call \in CallSet
    BY CallIs DEF TypeInv, CloudType, Gens
  <1>1. ~ \E failed : PassSweeps(failed) BY DEF PassSweeps, WatchLate
  <1>2. ~ \E g \in Gens : DatabaseSettles(g)
    <2>1. ASSUME NEW g \in Gens, DatabaseSettles(g) PROVE FALSE
      BY <1>0, <2>1 DEF DatabaseSettles
    <2> QED BY <2>1
  <1>3. ~ RestoreGeneration /\ ~ Deploy
    BY <1>0, DeployAdds DEF RestoreGeneration, RestoreTo
  <1>4. DeleteGeneration
    BY <1>1, <1>2, <1>3, ResourceCases DEF EndpointSettles, FillsSecrets, TagBackup, WaitingEnds
  <1>5. At("delete") /\ Deletable(Call[2]) /\ ~ Listed /\ DeleteInstance(Call[2], Call[2] = "control")
    BY <1>4 DEF DeleteGeneration, WithoutBackups
  <1>6. Call[2] = "control" BY <1>0, <1>5 DEF DeleteInstance
  <1> QED BY <1>5, <1>6

(* The inductive invariant of the preparations.                             *)
SourceInv == NoStopping /\ Prepared

(* The deletion of the source finds everything prepared, and no task: one   *)
(* that has answered has stopped.                                           *)
LEMMA SourceStep ==
    ASSUME TypeInv, WatchLate, EffectInv, SourceInv, [Next]_vars, ~ late,
           db["control"] = "available", db'["control"] = "deleting"
    PROVE  /\ led["receipts"] \subseteq led["control"]
           /\ backup.tag /\ store.prepared
           /\ {"control", "receipts"} \subseteq store.secrets
           /\ ~ Alive
  <1>1. At("delete") /\ Call[2] = "control" /\ Deletable("control") /\ ~ Listed
    BY SourceDeleted
  <1>2. Active /\ Call[1] = "delete" BY <1>1 DEF At, Active
  <1>3. ~ Alive BY <1>1, <1>2 DEF SourceInv, NoStopping, Listed, Alive
  <1>4. (App /\ ctl.pc = 16) \/ (wf = "retained" /\ ~ App /\ ctl.pc = 19)
    BY <1>1, <1>2, CallIs DEF ApplicationPlace, FixturePlace, TypeInv, Flows, App, Restores
  <1>5. store.prepared /\ {"control", "receipts"} \subseteq store.secrets
    BY <1>2, <1>4 DEF SourceInv, Prepared, Registered, App
  <1>6. led["receipts"] \subseteq led["control"]
    <2>1. CASE ~ App BY <2>1 DEF EffectInv, FixtureEffects, SourceKnows
    <2>2. CASE App
      <3>1. ~ Since(29) BY <1>1, <1>2, <1>4, <2>2 DEF Since, At
      <3> QED BY <2>2, <3>1 DEF EffectInv, NewLate, SourceKnows
    <2> QED BY <2>1, <2>2
  <1>7. backup.tag BY <1>1 DEF Deletable
  <1> QED BY <1>3, <1>5, <1>6, <1>7

(* Before the deadline a controller beyond the registration has both owners *)
(* registered, and beyond the checkpoint has it read back                   *)
(* (native_retained.py:178-228).                                            *)
THEOREM SourceInvariance == Spec => [](TypeInv /\ WatchLate /\ EffectInv /\ SourceInv)
  <1>1. Init => SourceInv
    BY DEF Init, ControllerInit, Idle, SourceInv, NoStopping, Prepared, Active
  <1>2. (TypeInv /\ WatchLate /\ EffectInv /\ SourceInv) /\ [Next]_vars => SourceInv'
    BY TypeStep, NoStoppingStep, PreparedStep DEF SourceInv, EffectInv
  <1> QED BY <1>1, <1>2, EffectInvariance, PTL DEF Spec

(* native_retained.py:178-228 Before the deadline the source is given up    *)
(* only when it agrees with the receipts, its backup is tagged, both owners *)
(* are registered, the checkpoint has been read back and no task is left    *)
(* that could write.                                                        *)
THEOREM SourceGivenUp == Spec => SourceGivenUpSafely
  <1>1. TypeInv /\ WatchLate /\ EffectInv /\ SourceInv /\ [Next]_vars =>
            [db["control"] = "available" /\ db'["control"] = "deleting" /\ ~ late =>
                /\ led["receipts"] \subseteq led["control"]
                /\ backup.tag /\ store.prepared
                /\ {"control", "receipts"} \subseteq store.secrets
                /\ ~ Alive]_vars
    BY SourceStep
  <1> QED BY <1>1, SourceInvariance, PTL DEF Spec, SourceGivenUpSafely

-----------------------------------------------------------------------------
(* What a passed workflow has shown.                                        *)

(* A refused verify of the behind database has reported the ledger that     *)
(* database still has, and every report a part of the receipts there are.   *)
BehindKept == \A r \in Results :
    (r[1].gen = "behind" /\ r[2].exit # 1 /\ (App \/ ~ late)) => r[2].local = led["behind"]

(* Before the deadline the SQL workflows do not delete the database that    *)
(* they have looked at.                                                     *)
BehindThere == (~ App /\ ~ late) =>
    /\ db["behind"] \notin {"deleting", "gone"}
    /\ \A r \in Results : (r[1].gen = "behind" /\ r[2].exit # 1) => db["behind"] \in {"creating", "available"}

(* Receipts are never taken back, nor are intents of the matching database. *)
RemoteKept == \A r \in Results : r[2].remote \subseteq led["receipts"]

MatchingKept == App => \A r \in Results : r[1].gen = "matching" => r[2].local \subseteq led["matching"]

(* The gate of the matching database is open when it has been verified,     *)
(* that of the behind one closed from its recovery on.                      *)
MatchingOpen == (/\ App /\ task.st = "stopped" /\ task.out.exit = 0
                 /\ task.call.name = "verify" /\ task.call.gen = "matching") => "matching" \notin closed

BehindClosed == App =>
    /\ Alive /\ task.call.phase = "behind" /\ task.pc > 2 => "behind" \in closed
    /\ \A r \in Results : r[1].phase = "behind" /\ r[2].exit = 0 => "behind" \in closed
    /\ Active /\ ctl.pc > 21 => "behind" \in closed

(* The place after which the restored database has been shown to be behind. *)
Shown == IF App THEN 21 ELSE IF wf = "sql" THEN 13 ELSE 24
(* The effect that the behind database does not know.                       *)
Lacking == IF App THEN "more" ELSE "base"

(* Beyond the place Shown it has been shown to lack it.                     *)
BehindShown == Active /\ ctl.pc > Shown => Lacking \in led["receipts"] \ led["behind"]

(* What a passed workflow has shown, and is still so.                       *)
Passed == ctl.st = "passed" =>
    /\ Lacking \in led["receipts"] \ led["behind"]
    /\ App => /\ ~ Alive /\ "behind" \in closed /\ "matching" \notin closed
              /\ led["matching"] = Keys /\ led["receipts"] = Keys

(* The inductive invariant of results.                                      *)
ResultInv == /\ BehindKept /\ BehindThere /\ RemoteKept /\ MatchingKept
             /\ MatchingOpen /\ BehindClosed /\ BehindShown /\ Passed

(* The behind database changes only when it is restored: never once a task  *)
(* has reported on it.                                                      *)
LEMMA RestoringWhere ==
    ASSUME TypeInv, Restoring
    PROVE  /\ App => \/ ctl.pc = 19 /\ Call[2] = "behind" /\ ~ Since(21) /\ ~ Since(22)
                     \/ ctl.pc = 27 /\ Call[2] = "matching" /\ ~ Since(29) /\ ~ Since(30)
           /\ ~ App => /\ Call[2] = "behind" /\ ctl.pc = IF wf = "sql" THEN 11 ELSE 22
                       /\ db["behind"] \notin {"creating", "available", "deleting"}
           /\ Active /\ ctl.st = "run"
           /\ led'["receipts"] = led["receipts"]
           /\ Call[2] = "matching" => led'["behind"] = led["behind"]
           /\ Call[2] = "behind" => led'["matching"] = led["matching"]
  <1>0. led \in [Gens -> SUBSET Keys] /\ Restores = {"behind", "matching"}
        /\ {"behind", "matching", "receipts"} \subseteq Gens
    BY DEF TypeInv, DataType, Gens, Restores
  <1>1. Active /\ ctl.st = "run" /\ Call[1] = "restore" BY DEF Restoring, At, Active
  <1>2. App => \/ ctl.pc = 19 /\ Call[2] = "behind"
               \/ ctl.pc = 27 /\ Call[2] = "matching"
    BY <1>1, CallIs DEF ApplicationPlace
  <1>3. \A n \in Nat : ctl.pc # 1 /\ n > ctl.pc => ~ Since(n)
    BY <1>1, CallIs DEF Since
  <1>4. ~ App => Call[2] = "behind" /\ ctl.pc = IF wf = "sql" THEN 11 ELSE 22
    BY <1>1, CallIs DEF FixturePlace, TypeInv, Flows, App
  <1>5. ~ App => db["behind"] \notin {"creating", "available", "deleting"}
    BY <1>0, <1>4 DEF Restoring, Exists
  <1> QED BY <1>0, <1>1, <1>2, <1>3, <1>4, <1>5 DEF Restoring

(* The task of a known result was launched at its turn.                     *)
LEMMA ResultSince ==
    ASSUME TypeInv, SoleRun, App, NEW r \in Results
    PROVE  Since(Turn(r[1]))
  <1>1. CASE r \in ran BY <1>1 DEF SoleRun
  <1>2. CASE task.st = "stopped" /\ r = <<task.call, task.out>>
    BY <1>2 DEF SoleRun
  <1> QED BY <1>1, <1>2 DEF Results

(* What a task that ends adds: its own report, or an outcome that says      *)
(* nothing.                                                                 *)
LEMMA ResultNew ==
    ASSUME TypeInv, StepKinds, NEW r \in Results', r \notin Results
    PROVE  /\ Works /\ UNCHANGED data /\ r[1] = task.call /\ task.call \in Requests /\ Alive
           /\ \/ r[2] = NoOutcome
              \/ /\ r[2] = Outcome /\ db[Gen] = "available"
                 /\ task.pc = Len(Steps(task.call))
  BY ResultsStep DEF Reports, TypeInv, TaskType, Tasks, Works

(* Each conjunct is preserved. What was reported of the behind database     *)
(* remains true since it is not brought back again: an application run      *)
(* restores it once, a SQL run only where it does not exist.                *)
LEMMA BehindKeptStep ==
    ASSUME TypeInv, SoleRun, BehindKept, BehindThere, StepKinds
    PROVE  BehindKept'
  <1>0. App' = App /\ (late => late') BY FlowConstant, LateStays
  <1> SUFFICES ASSUME NEW r \in Results', r[1].gen = "behind", r[2].exit # 1, App \/ ~ late
               PROVE  r[2].local = led'["behind"]
    BY <1>0 DEF BehindKept
  <1>1. CASE r \in Results
    <2>1. r[2].local = led["behind"] BY <1>1 DEF BehindKept
    <2>2. ~ (Restoring /\ Call[2] = "behind")
      <3> SUFFICES ASSUME Restoring, Call[2] = "behind" PROVE FALSE OBVIOUS
      <3>1. CASE App
        <4>1. Turn(r[1]) \in {21, 22} BY <1>1, ResultsTyped, TurnOf
        <4> QED BY <1>1, <3>1, <4>1, ResultSince, RestoringWhere
      <3>2. CASE ~ App
        <4>1. db["behind"] \in {"creating", "available"} BY <1>1, <3>2 DEF BehindThere
        <4> QED BY <3>2, <4>1, RestoringWhere
      <3> QED BY <3>1, <3>2
    <2>3. led'["behind"] = led["behind"]
      <3>1. Restoring => Call[2] = "matching" BY <2>2 DEF Restoring, Restores
      <3> QED BY <3>1, LedgerStep, RestoringWhere
    <2> QED BY <2>1, <2>3
  <1>2. CASE r \notin Results
    <2>1. r[2] = Outcome /\ r[1] = task.call /\ UNCHANGED data
      BY <1>2, ResultNew DEF NoOutcome
    <2> QED BY <2>1 DEF Outcome, data
  <1> QED BY <1>1, <1>2

(* Before the deadline it stays.                                            *)
LEMMA BehindThereStep ==
    ASSUME TypeInv, WatchLate, BehindThere, [Next]_vars, StepKinds
    PROVE  BehindThere'
  <1>0. App' = App /\ (late => late') /\ db \in [Gens -> DbStates] /\ "behind" \in Gens
        /\ Call \in CallSet
    BY FlowConstant, LateStays, CallIs DEF TypeInv, CloudType, Gens, Restores
  <1> SUFFICES ASSUME ~ App, ~ late'
               PROVE  /\ db'["behind"] \notin {"deleting", "gone"}
                      /\ \A r \in Results' : (r[1].gen = "behind" /\ r[2].exit # 1) =>
                            db'["behind"] \in {"creating", "available"}
    BY <1>0 DEF BehindThere
  <1>1. db["behind"] \notin {"deleting", "gone"} BY <1>0 DEF BehindThere
  <1>2. /\ db'["behind"] \notin {"deleting", "gone"}
        /\ db["behind"] \in {"creating", "available"} => db'["behind"] \in {"creating", "available"}
    <2>1. ASSUME NEW g \in Gens, DatabaseSettles(g)
          PROVE  db'["behind"] \in {db["behind"], "available"}
      BY <1>0, <1>1, <2>1 DEF DatabaseSettles
    <2>2. CASE DeleteGeneration
      <3>1. At("delete") /\ (db' = db \/ db' = [db EXCEPT ![Call[2]] = "deleting"])
        BY <2>2 DEF DeleteGeneration, WithoutBackups, DeleteInstance
      <3>2. Call[2] = "control"
        BY <3>1, CallIs DEF At, FixturePlace, TypeInv, Flows, App
      <3> QED BY <1>0, <1>1, <3>1, <3>2
    <2>3. CASE RestoreGeneration
      <3>1. db' = [db EXCEPT ![Call[2]] = "creating"] BY <2>3 DEF RestoreGeneration, RestoreTo
      <3> QED BY <1>0, <1>1, <3>1
    <2>4. ~ \E failed : PassSweeps(failed) BY <1>0 DEF PassSweeps, WatchLate
    <2>5. CASE Deploy BY <1>0, <1>1, <2>5, DeployAdds
    <2> QED
      BY <1>1, <2>1, <2>2, <2>3, <2>4, <2>5, ResourceCases
         DEF EndpointSettles, FillsSecrets, TagBackup, WaitingEnds
  <1>3. ASSUME NEW r \in Results', r[1].gen = "behind", r[2].exit # 1
        PROVE  db["behind"] \in {"creating", "available"}
    <2>1. CASE r \in Results BY <1>0, <1>3, <2>1 DEF BehindThere
    <2>2. CASE r \notin Results BY <1>3, <2>2, ResultNew DEF NoOutcome, Gen
    <2> QED BY <2>1, <2>2
  <1> QED BY <1>2, <1>3

(* Effects are only added.                                                  *)
LEMMA RemoteStep ==
    ASSUME TypeInv, RemoteKept, StepKinds
    PROVE  RemoteKept'
  <1> SUFFICES ASSUME NEW r \in Results' PROVE r[2].remote \subseteq led'["receipts"]
    BY DEF RemoteKept
  <1>1. led["receipts"] \subseteq led'["receipts"] BY LedgerStep
  <1>2. CASE r \in Results BY <1>1, <1>2 DEF RemoteKept
  <1>3. CASE r \notin Results
    <2>1. r[2] = NoOutcome \/ r[2] = Outcome BY <1>3, ResultNew
    <2> QED BY <1>1, <2>1 DEF NoOutcome, Outcome
  <1> QED BY <1>2, <1>3

(* Nor is the matching database brought back again.                         *)
LEMMA MatchingKeptStep ==
    ASSUME TypeInv, SoleRun, MatchingKept, StepKinds
    PROVE  MatchingKept'
  <1>0. App' = App BY FlowConstant
  <1> SUFFICES ASSUME App, NEW r \in Results', r[1].gen = "matching"
               PROVE  r[2].local \subseteq led'["matching"]
    BY <1>0 DEF MatchingKept
  <1>1. CASE r \in Results
    <2>1. Turn(r[1]) \in {29, 30} BY <1>1, ResultsTyped, TurnOf
    <2>2. Restoring => Call[2] = "behind" BY <1>1, <2>1, ResultSince, RestoringWhere
    <2>3. led["matching"] \subseteq led'["matching"] BY <2>2, LedgerStep, RestoringWhere
    <2> QED BY <1>1, <2>3 DEF MatchingKept
  <1>2. CASE r \notin Results
    <2>1. /\ r[2] = NoOutcome \/ r[2] = Outcome
          /\ r[1] = task.call /\ UNCHANGED data
      BY <1>2, ResultNew
    <2> QED BY <2>1 DEF NoOutcome, Outcome, data
  <1> QED BY <1>1, <1>2

(* It is verified after its gate was opened, and no task closes it later.   *)
LEMMA MatchingOpenStep ==
    ASSUME TypeInv, SoleRun, MatchingOpen, StepKinds
    PROVE  MatchingOpen'
  <1>0. App' = App /\ task \in Tasks BY FlowConstant DEF TypeInv, TaskType
  <1> SUFFICES ASSUME App, task'.st = "stopped", task'.out.exit = 0,
                      task'.call.name = "verify", task'.call.gen = "matching", "matching" \in closed'
               PROVE  FALSE
    BY <1>0 DEF MatchingOpen
  <1>1. CASE UNCHANGED task
    <2>1. ~ Works BY <1>1 DEF Works, Alive
    <2>2. UNCHANGED closed
      BY <2>1 DEF StepKinds, Aside, Expires, StopsTask, Starts, Breaks, Gates, Launches, Moves, data
    <2> QED BY <1>1, <2>2 DEF MatchingOpen
  <1>2. CASE Works
    <2>1. CASE Quits
      <3>1. task'.out = NoOutcome BY <1>0, <2>1 DEF Quits, Ended, Tasks
      <3> QED BY <3>1 DEF NoOutcome
    <2>2. CASE Reports
      <3>1. task'.out = Outcome /\ task'.call = task.call /\ UNCHANGED closed
        BY <1>0, <2>2 DEF Reports, Ended, Tasks, data
      <3>2. Outcome.exit = 0 /\ task.call.name = "verify" /\ task.call.gen = "matching" BY <3>1
      <3>3. "matching" \notin closed BY <3>2 DEF Outcome, SafeToResume
      <3> QED BY <3>1, <3>3
    <2>3. CASE TaskMoves
      <3>1. Continue
        BY <2>3 DEF TaskMoves, Passes, Intends, Supplies, Closes, Reopens, Proposes, Delivers
      <3>2. task'.st = task.st BY <1>0, <3>1 DEF Continue, Tasks
      <3> QED BY <1>2, <3>2 DEF Works, Alive
    <2> QED BY <1>2, <2>1, <2>2, <2>3 DEF Works
  <1>3. CASE task'.st = "stopping" BY <1>3
  <1>4. CASE task' = [NoTask EXCEPT !.call = Call[2], !.st = "running"] BY <1>4 DEF NoTask
  <1>5. CASE Launches /\ \E r \in ran : r[1] = Call[2]
    BY <1>5, NotBefore DEF Launches
  <1> QED BY <1>1, <1>2, <1>3, <1>4, <1>5, TaskStep

(* The gate of the behind database, once closed, stays closed.              *)
LEMMA BehindStaysClosed ==
    ASSUME TypeInv, StepKinds, "behind" \in closed
    PROVE  "behind" \in closed'
  <1>1. CASE Works
    <2>1. CASE Reopens BY <2>1 DEF Reopens
    <2>2. CASE ~ Reopens
      BY <1>1, <2>2 DEF Works, Quits, Reports, TaskMoves, Passes, Intends, Supplies, Closes,
         Proposes, Delivers, data
    <2> QED BY <2>1, <2>2
  <1>2. CASE ~ Works
    BY <1>2 DEF StepKinds, Aside, Expires, StopsTask, Starts, Breaks, Gates, Launches, Moves, data
  <1> QED BY <1>1, <1>2

(* The recovery of the behind database closes its gate before it looks.     *)
LEMMA BehindClosedStep ==
    ASSUME TypeInv, Awaited, BehindClosed, StepKinds
    PROVE  BehindClosed'
  <1>0. App' = App /\ task.call \in Requests /\ task.pc \in Nat
    BY FlowConstant DEF TypeInv, TaskType, Tasks
  <1> SUFFICES ASSUME App, "behind" \notin closed'
               PROVE  /\ ~ (Alive /\ task.call.phase = "behind" /\ task.pc > 2)'
                      /\ \A r \in Results' : ~ (r[1].phase = "behind" /\ r[2].exit = 0)
                      /\ ~ (Active /\ ctl.pc > 21)'
    BY <1>0 DEF BehindClosed
  <1>1. "behind" \notin closed BY BehindStaysClosed
  <1>2. ASSUME Alive', task'.call.phase = "behind", task'.pc > 2 PROVE FALSE
    <2>1. /\ Works /\ TaskMoves /\ task.call.phase = "behind" /\ task.pc = 2
      BY <1>0, <1>1, <1>2, RunsOn DEF BehindClosed, Works
    <2>2. task.call.name = "receipt" BY <1>0, <2>1 DEF Requests, TaskCalls
    <2>3. ~ Closes
      BY <2>1 DEF Closes
    <2> QED BY <2>1, <2>2, <2>3 DEF TaskMoves, Passes, Intends, Supplies, Reopens, Proposes, Delivers
  <1>3. ASSUME NEW r \in Results', r[1].phase = "behind", r[2].exit = 0 PROVE FALSE
    <2>1. r \notin Results BY <1>1, <1>3 DEF BehindClosed
    <2>2. r[1] = task.call /\ Alive /\ task.pc = Len(Steps(task.call))
      BY <1>3, <2>1, ResultNew DEF NoOutcome
    <2>3. task.call.name = "receipt" /\ task.call.phase = "behind"
      BY <1>0, <1>3, <2>2 DEF Requests, TaskCalls
    <2>4. Steps(task.call) = RecoverBehind
      BY <2>3 DEF Steps, ApplicationSteps, App
    <2>5. task.pc = 5 BY <2>2, <2>4, RecoverCalls
    <2> QED BY <1>1, <2>2, <2>3, <2>5 DEF BehindClosed
  <1>4. ASSUME Active', ctl'.pc > 21 PROVE FALSE
    <2>1. Active /\ (ctl.pc > 21 \/ (Moves /\ ctl.pc = 21)) BY <1>4, Reached
    <2>2. Moves /\ ctl.pc = 21 BY <1>1, <2>1 DEF BehindClosed
    <2>3. Call = Asks("receipt", "behind", "behind", 0, {"base"}, {"base", "more"})
      BY <2>2, CallIs DEF ApplicationPlace
    <2>4. Call[1] = "run" /\ Call[2].phase = "behind" /\ Call[2].exit = 0
      BY <2>3 DEF Asks
    <2>5. <<task.call, task.out>> \in Results /\ task.call.phase = "behind" /\ task.out.exit = 0
      BY <2>2, <2>4, Answered
    <2> QED BY <1>1, <2>5 DEF BehindClosed
  <1> QED BY <1>2, <1>3, <1>4

(* What the controller has insisted on where it compares the ledgers.       *)
LEMMA Compared ==
    ASSUME TypeInv, Awaited, BehindKept, RemoteKept, Moves, ctl.pc = Shown
    PROVE  Lacking \in led["receipts"] \ led["behind"]
  <1>0. wf \in Flows BY DEF TypeInv
  <1>1. /\ Call[1] = "run" /\ Call[2].gen = "behind" /\ Call[2].exit \in {0, 2}
        /\ Call[3] # All /\ Call[4] # All
        /\ Lacking \in Call[4] /\ Lacking \notin Call[3]
    <2>1. CASE App
      <3>1. Call = Asks("receipt", "behind", "behind", 0, {"base"}, {"base", "more"})
        BY <2>1, CallIs DEF ApplicationPlace, Shown
      <3> QED BY <2>1, <3>1 DEF Asks, All, Lacking
    <2>2. CASE ~ App
      <3>1. Call = Asks("verify", "behind", "none", 2, {}, {"base"})
        BY <1>0, <2>2, CallIs DEF FixturePlace, Shown, Flows, App
      <3> QED BY <2>2, <3>1 DEF Asks, All, Lacking
    <2> QED BY <2>1, <2>2
  <1>2. /\ <<task.call, task.out>> \in Results /\ task.call = Call[2] /\ ~ late
        /\ task.out.exit # 1 /\ task.out.local = Call[3] /\ task.out.remote = Call[4]
    BY <1>1, Answered DEF Accepted, AsExpected
  <1>3. task.out.local = led["behind"] BY <1>1, <1>2 DEF BehindKept
  <1>4. task.out.remote \subseteq led["receipts"] BY <1>2 DEF RemoteKept
  <1> QED BY <1>1, <1>2, <1>3, <1>4

(* The controller gets beyond by the comparison of                          *)
(* native_application.py:399-418.                                           *)
LEMMA BehindShownStep ==
    ASSUME TypeInv, Awaited, BehindKept, RemoteKept, BehindShown, StepKinds
    PROVE  BehindShown'
  <1>0. Shown' = Shown /\ Lacking' = Lacking /\ Shown \in Nat /\ Shown >= 1
    BY FlowConstant DEF Shown, Lacking
  <1> SUFFICES ASSUME Active', ctl'.pc > Shown
               PROVE  Lacking \in led'["receipts"] \ led'["behind"]
    BY <1>0 DEF BehindShown
  <1>1. Active /\ (ctl.pc > Shown \/ (Moves /\ ctl.pc = Shown)) BY <1>0, Reached
  <1>2. Lacking \in led["receipts"] \ led["behind"] BY <1>1, Compared DEF BehindShown
  <1>3. led'["behind"] = led["behind"]
    <2>1. ~ (Restoring /\ Call[2] = "behind")
      <3> SUFFICES ASSUME Restoring, Call[2] = "behind" PROVE FALSE OBVIOUS
      <3>1. ctl.pc < Shown
        BY RestoringWhere DEF Shown, App
      <3> QED BY <1>0, <1>1, <3>1, CallIs
    <2>2. Restoring => Call[2] = "matching" BY <2>1 DEF Restoring, Restores
    <2> QED BY <2>2, LedgerStep, RestoringWhere
  <1>4. led["receipts"] \subseteq led'["receipts"] BY LedgerStep
  <1> QED BY <1>2, <1>3, <1>4

(* The workflow passes by its last call, the comparison of the matching     *)
(* database, and a passed controller stays.                                 *)
LEMMA PassedStep ==
    ASSUME TypeInv, Awaited, ResultInv, StepKinds
    PROVE  Passed'
  <1>0. /\ Lacking' = Lacking /\ App' = App /\ task \in Tasks /\ ctl \in Controllers
        /\ led \in [Gens -> SUBSET Keys] /\ "matching" \in Gens /\ "receipts" \in Gens /\ wf \in Flows
    BY FlowConstant DEF Lacking, TypeInv, TaskType, DataType, CtlType, Gens, Restores
  <1> SUFFICES ASSUME ctl'.st = "passed"
               PROVE  /\ Lacking \in led'["receipts"] \ led'["behind"]
                      /\ App => /\ ~ Alive' /\ "behind" \in closed' /\ "matching" \notin closed'
                                /\ led'["matching"] = Keys /\ led'["receipts"] = Keys
    BY <1>0 DEF Passed
  <1>1. CASE Moves
    <2>1. ctl.pc = Len(Program) /\ Active BY <1>1 DEF Moves, Forward
    <2>l. \/ wf = "sql" /\ ~ App /\ ctl.pc = 14
          \/ wf = "retained" /\ ~ App /\ ctl.pc = 25
          \/ App /\ ctl.pc = 30
      <3>1. wf = "application" => App BY DEF App
      <3>2. wf \in {"sql", "retained"} => ~ App BY DEF App
      <3> QED BY <1>0, <2>1, <3>1, <3>2, CallIs DEF Flows
    <2>2. ~ Restoring BY <2>l, RestoringWhere
    <2>3. Lacking \in led["receipts"] \ led["behind"]
      <3>1. ctl.pc > Shown BY <2>l DEF Shown
      <3> QED BY <2>1, <3>1 DEF ResultInv, BehindShown
    <2>4. led["receipts"] \subseteq led'["receipts"] /\ led'["behind"] = led["behind"]
      BY <2>2, LedgerStep
    <2>5. ASSUME App
          PROVE  /\ ~ Alive' /\ "behind" \in closed' /\ "matching" \notin closed'
                 /\ led'["matching"] = Keys /\ led'["receipts"] = Keys
      <3>1. ctl.pc = 30 /\ Call = Asks("verify", "matching", "none", 0, Keys, Keys)
        BY <2>1, <2>5, CallIs DEF ApplicationPlace
      <3>2. /\ Call[1] = "run" /\ Call[2].name = "verify" /\ Call[2].gen = "matching"
            /\ Call[2].exit = 0 /\ Call[3] = Keys /\ Call[4] = Keys
        BY <3>1 DEF Asks
      <3>3. Keys # All BY DEF Keys, All
      <3>4. /\ <<task.call, task.out>> \in Results /\ task.call = Call[2] /\ task.st = "stopped"
            /\ task.out.exit = 0 /\ task.out.local = Keys /\ task.out.remote = Keys
            /\ UNCHANGED <<led, closed, task>>
        BY <1>1, <3>2, <3>3, Answered DEF Accepted, AsExpected
      <3>5. Keys \subseteq led["matching"] /\ Keys \subseteq led["receipts"]
        BY <2>5, <3>2, <3>4 DEF ResultInv, MatchingKept, RemoteKept
      <3>6. led["matching"] \subseteq Keys /\ led["receipts"] \subseteq Keys BY <1>0
      <3>7. "matching" \notin closed BY <2>5, <3>2, <3>4 DEF ResultInv, MatchingOpen
      <3>8. "behind" \in closed BY <2>1, <2>5, <3>1 DEF ResultInv, BehindClosed
      <3> QED BY <3>4, <3>5, <3>6, <3>7, <3>8 DEF Alive
    <2> QED BY <2>3, <2>4, <2>5
  <1>2. CASE ~ Moves
    <2>1. ctl'.st = ctl.st
      BY <1>0, <1>2 DEF StepKinds, Aside, Expires, StopsTask, Works, Starts, Breaks, Gates, Launches,
         Fails, Idle, Controllers
    <2>2. ctl.st = "passed" /\ ~ Active BY <2>1 DEF Active
    <2>3. ~ Restoring BY <2>2 DEF Restoring, At
    <2>4. Lacking \in led'["receipts"] \ led'["behind"]
      BY <2>2, <2>3, LedgerStep DEF ResultInv, Passed
    <2>5. App => ~ Alive /\ ~ Works BY <2>2 DEF ResultInv, Passed, Works
    <2>6. ~ Works => UNCHANGED data /\ (task'.st \in {task.st, "stopping"} /\ (task'.st # task.st => Listed))
      BY <1>0, <1>2, <2>2
         DEF StepKinds, Aside, Expires, StopsTask, Starts, Breaks, Gates, Launches, At, Tasks
    <2>7. App => ~ Alive' BY <2>5, <2>6 DEF Alive, Listed
    <2> QED BY <2>2, <2>4, <2>5, <2>6, <2>7 DEF ResultInv, Passed, data
  <1> QED BY <1>1, <1>2

(* ResultInv holds initially and is preserved.                              *)
LEMMA ResultStep ==
    ASSUME TypeInv, WatchLate, EffectInv, ResultInv, [Next]_vars
    PROVE  ResultInv'
  <1>1. StepKinds BY TypeStep
  <1>2. BehindKept' /\ BehindThere' /\ RemoteKept'
    BY <1>1, BehindKeptStep, BehindThereStep, RemoteStep DEF EffectInv, ResultInv
  <1>3. MatchingKept' /\ MatchingOpen' /\ BehindClosed'
    BY <1>1, MatchingKeptStep, MatchingOpenStep, BehindClosedStep DEF EffectInv, ResultInv
  <1>4. BehindShown' /\ Passed'
    BY <1>1, BehindShownStep, PassedStep DEF EffectInv, ResultInv
  <1> QED BY <1>2, <1>3, <1>4 DEF ResultInv

LEMMA ResultInitially == Init => ResultInv
  <1> SUFFICES ASSUME Init PROVE ResultInv OBVIOUS
  <1>1. /\ db["behind"] = "absent" /\ task.st = "none" /\ ran = {} /\ ctl.st = "none"
    BY DEF Init, CloudInit, ControllerInit, Idle, NoTask, Gens, Restores
  <1>2. Results = {} /\ ~ Alive /\ ~ Active BY <1>1 DEF Results, Alive, Active
  <1> QED
    BY <1>1, <1>2 DEF ResultInv, BehindKept, BehindThere, RemoteKept, MatchingKept, MatchingOpen,
       BehindClosed, BehindShown, Passed

(* What a task has reported of the restored databases and the receipts      *)
(* remains true for as long as the run may rely on it                       *)
(* (native_application.py:399-418).                                         *)
THEOREM ResultInvariance == Spec => [](TypeInv /\ WatchLate /\ EffectInv /\ ResultInv)
  <1>1. (TypeInv /\ WatchLate /\ EffectInv /\ ResultInv) /\ [Next]_vars => ResultInv'
    BY ResultStep
  <1> QED BY <1>1, ResultInitially, EffectInvariance, PTL DEF Spec

(* native_application.py:399-418 A workflow that passed has shown what it   *)
(* claims: a restored database behind the receipts refused, and for the     *)
(* application a matching one reopened with one effect for every intent.    *)
THEOREM PassedShows == Spec => []PassedMeansShown
  <1>1. ResultInv => PassedMeansShown
    BY DEF ResultInv, Passed, PassedMeansShown, App
  <1> QED BY <1>1, ResultInvariance, PTL

-----------------------------------------------------------------------------
(* Points.                                                                  *)

(* The whole second of a point, of two instants in the model: what RDS      *)
(* restores to.                                                             *)
Floor(p) == (p \div 2) * 2

(* Commit times are in the past, and every outcome and every point says of  *)
(* the source what it held then.                                            *)
Committed == \A k \in led["control"] : at[k] > 0 /\ at[k] <= now

Timely == \A r \in Results :
    /\ r[2].at <= now
    /\ (r[1].gen = "control" /\ r[2].exit # 1) =>
           \A k \in led["control"] : at[k] <= r[2].at => k \in r[2].local
    /\ (App /\ r[1].gen = "control") =>
           \A k \in r[2].local : k \in led["control"] /\ at[k] <= r[2].at

(* A point tells what the source held at that instant; in the application   *)
(* exactly, as it is chosen in a quiet window.                              *)
Holds(p) ==
    /\ p.at <= now
    /\ \A k \in led["control"] : at[k] <= Floor(p.at) => k \in p.held
    /\ App => \A k \in p.held : k \in led["control"] /\ at[k] <= Floor(p.at)

(* Both points of the controller do.                                        *)
PointsHold == \A i \in {1, 2} : Holds(ctl.points[i])

(* The task before an observation is chosen still tells the whole source.   *)
StillSource == (/\ App /\ task.st = "stopped" /\ task.out.exit = 0
                /\ task.call.name \in {"baseline", "control"}) => task.out.local = led["control"]

(* Where a point is chosen, that task is the last one.                      *)
JustRun == At("mark") \/ At("select") =>
    /\ task.st = "stopped" /\ task.out.exit = 0
    /\ task.call.name \in {"baseline", "control"}

(* The inductive invariant of points.                                       *)
PointInv == Committed /\ Timely /\ PointsHold /\ StillSource /\ JustRun

(* The floor of a point is at most one below it.                            *)
LEMMA FloorIs ==
    ASSUME NEW t \in Nat
    PROVE  /\ Floor(t) \in Nat /\ Floor(t) <= t /\ t <= Floor(t) + 1
  BY DEF Floor

(* A key of the source is committed once: its time never changes, and that  *)
(* of a new key is later than anything observed before.                     *)
LEMMA SourceTimes ==
    ASSUME TypeInv, EffectInv, StepKinds
    PROVE  /\ now' \in Nat /\ now' >= now
           /\ \A k \in led["control"] : at'[k] = at[k]
           /\ \A k \in led'["control"] : k \in led["control"] \/ (at'[k] = now' /\ now' = now + 1)
  <1>0. led \in [Gens -> SUBSET Keys] /\ at \in [Keys -> Nat] /\ now \in Nat /\ "control" \in Gens
        /\ Gen \in {"control"} \union Restores /\ Restores = {"behind", "matching"}
    BY DEF TypeInv, DataType, TaskType, Tasks, Requests, TaskCalls, Gens, Restores, Gen
  <1>s. /\ \A k \in led["control"] : k \in Keys
        /\ \A k \in led'["control"] : k \in led["control"] \/ (Intends /\ k = "base") \/ Proposes(k)
    BY <1>0, Sources
  <1>1. CASE UNCHANGED <<led, at>> /\ now' \in Nat /\ now' >= now BY <1>1
  <1>2. CASE Restoring BY <1>0, <1>2 DEF Restoring
  <1>r. ASSUME NEW j \in Keys, Recorded(j), j \notin led["control"],
               \A k \in led'["control"] : k \in led["control"] \/ k = j
        PROVE  /\ now' \in Nat /\ now' >= now
               /\ \A k \in led["control"] : at'[k] = at[k]
               /\ \A k \in led'["control"] : k \in led["control"] \/ (at'[k] = now' /\ now' = now + 1)
    BY <1>0, <1>r, <1>s DEF Recorded
  <1>3. CASE Works /\ TaskMoves
    <2>1. CASE Passes \/ Closes \/ Reopens \/ Supplies
      <3>1. UNCHANGED <<at, now>> BY <2>1 DEF Passes, Closes, Reopens, Supplies, data
      <3>2. led'["control"] = led["control"]
        <4>1. ~ Intends \/ led' = led
          BY <1>0, <2>1 DEF Intends, Passes, Closes, Reopens, Supplies, data
        <4> QED BY <1>0, <2>1 DEF Passes, Closes, Reopens, Supplies, data
      <3> QED BY <1>0, <3>1, <3>2
    <2>2. CASE Intends
      <3>1. CASE UNCHANGED data BY <1>0, <3>1 DEF data
      <3>2. CASE "base" \notin led["control"] /\ Recorded("base")
        <4>1. \A k \in led'["control"] : k \in led["control"] \/ k = "base"
          BY <1>0, <2>2, <3>2 DEF Recorded, Intends
        <4> QED BY <1>r, <3>2, <4>1 DEF Keys
      <3> QED BY <2>2, <3>1, <3>2 DEF Intends
    <2>3. ASSUME NEW j \in Keys, Proposes(j)
          PROVE  /\ now' \in Nat /\ now' >= now
                 /\ \A k \in led["control"] : at'[k] = at[k]
                 /\ \A k \in led'["control"] : k \in led["control"] \/ (at'[k] = now' /\ now' = now + 1)
      <3>1. j \notin led["control"]
        BY <1>3, <2>3 DEF Proposes, Works, EffectInv, Seeding, Advancing, NewNever
      <3>2. \A k \in led'["control"] : k \in led["control"] \/ k = j
        BY <1>0, <2>3 DEF Proposes, Recorded
      <3> QED BY <1>r, <2>3, <3>1, <3>2 DEF Proposes
    <2>4. ASSUME NEW j \in Keys, Delivers(j)
          PROVE  UNCHANGED <<at, now>> /\ led'["control"] = led["control"]
      BY <1>0, <2>4 DEF Delivers
    <2>5. CASE \E j \in Keys : Delivers(j)
      <3>1. PICK j \in Keys : Delivers(j) BY <2>5
      <3> QED BY <1>0, <2>4, <3>1
    <2>6. CASE \E j \in Keys : Proposes(j)
      <3>1. PICK j \in Keys : Proposes(j) BY <2>6
      <3> QED BY <2>3, <3>1
    <2> QED BY <1>3, <2>1, <2>2, <2>5, <2>6 DEF TaskMoves
  <1> QED BY <1>0, <1>1, <1>2, <1>3, LedgerStep

(* Each conjunct is preserved. Intents are committed later than anything    *)
(* observed before.                                                         *)
LEMMA CommittedStep ==
    ASSUME TypeInv, EffectInv, Committed, StepKinds
    PROVE  Committed'
  <1>0. now \in Nat /\ led \in [Gens -> SUBSET Keys] /\ at \in [Keys -> Nat] /\ "control" \in Gens
    BY DEF TypeInv, DataType, Gens
  <1> SUFFICES ASSUME NEW k \in led'["control"] PROVE at'[k] > 0 /\ at'[k] <= now'
    BY DEF Committed
  <1>1. CASE k \in led["control"]
    <2>1. at[k] > 0 /\ at[k] <= now /\ at'[k] = at[k] /\ at[k] \in Nat
      BY <1>0, <1>1, SourceTimes DEF Committed
    <2> QED BY <1>0, <2>1, SourceTimes
  <1>2. CASE k \notin led["control"] BY <1>0, <1>2, SourceTimes
  <1> QED BY <1>1, <1>2

(* An outcome tells what its task saw, and what comes later is committed    *)
(* later.                                                                   *)
LEMMA TimelyStep ==
    ASSUME TypeInv, EffectInv, Committed, Timely, StepKinds
    PROVE  Timely'
  <1>0. /\ now \in Nat /\ led \in [Gens -> SUBSET Keys] /\ at \in [Keys -> Nat] /\ "control" \in Gens
        /\ App' = App
    BY FlowConstant DEF TypeInv, DataType, Gens
  <1>n. now' \in Nat /\ now' >= now BY SourceTimes
  <1> SUFFICES ASSUME NEW r \in Results'
               PROVE  /\ r[2].at <= now'
                      /\ (r[1].gen = "control" /\ r[2].exit # 1) =>
                             \A k \in led'["control"] : at'[k] <= r[2].at => k \in r[2].local
                      /\ (App /\ r[1].gen = "control") =>
                             \A k \in r[2].local : k \in led'["control"] /\ at'[k] <= r[2].at
    BY <1>0 DEF Timely
  <1>1. CASE r \in Results
    <2>0. r[2].at \in Nat BY <1>1, ResultsTyped DEF Outcomes
    <2>1. r[2].at <= now BY <1>1 DEF Timely
    <2>2. ASSUME r[1].gen = "control", r[2].exit # 1, NEW k \in led'["control"], at'[k] <= r[2].at
          PROVE  k \in r[2].local
      <3>1. k \in led["control"] BY <1>0, <1>n, <2>0, <2>1, <2>2, SourceTimes
      <3>2. at'[k] = at[k] BY <3>1, SourceTimes
      <3> QED BY <1>1, <2>2, <3>1, <3>2 DEF Timely
    <2>3. ASSUME App, r[1].gen = "control", NEW k \in r[2].local
          PROVE  k \in led'["control"] /\ at'[k] <= r[2].at
      <3>1. k \in led["control"] /\ at[k] <= r[2].at BY <1>1, <2>3 DEF Timely
      <3> QED BY <3>1, SourceTimes, LedgerStep
    <2> QED BY <1>0, <1>n, <2>0, <2>1, <2>2, <2>3
  <1>2. CASE r \notin Results
    <2>1. r[1] = task.call /\ UNCHANGED <<led, at, now>> /\ (r[2] = NoOutcome \/ r[2] = Outcome)
      BY <1>2, ResultNew DEF data
    <2>2. CASE r[2] = NoOutcome BY <1>0, <2>1, <2>2 DEF NoOutcome
    <2>3. CASE r[2] = Outcome
      <3>1. r[2].at = now /\ r[2].local = led[task.call.gen] BY <2>3 DEF Outcome
      <3> QED BY <1>0, <2>1, <3>1 DEF Committed
    <2> QED BY <2>1, <2>2, <2>3
  <1> QED BY <1>1, <1>2

(* What a point says of the source remains true.                            *)
LEMMA HoldsOn ==
    ASSUME TypeInv, EffectInv, StepKinds, NEW p, p.at \in Nat, Holds(p)
    PROVE  /\ p.at <= now'
           /\ \A k \in led'["control"] : at'[k] <= Floor(p.at) => k \in p.held
           /\ App => \A k \in p.held : k \in led'["control"] /\ at'[k] <= Floor(p.at)
  <1>0. now \in Nat /\ at \in [Keys -> Nat] BY DEF TypeInv, DataType
  <1>n. now' \in Nat /\ now' >= now /\ Floor(p.at) \in Nat /\ Floor(p.at) <= p.at
    BY SourceTimes, FloorIs
  <1>1. p.at <= now' BY <1>0, <1>n DEF Holds
  <1>2. ASSUME NEW k \in led'["control"], at'[k] <= Floor(p.at) PROVE k \in p.held
    <2>1. k \in led["control"] BY <1>0, <1>n, <1>2, SourceTimes DEF Holds
    <2>2. at'[k] = at[k] BY <2>1, SourceTimes
    <2> QED BY <1>2, <2>1, <2>2 DEF Holds
  <1>3. ASSUME App, NEW k \in p.held PROVE k \in led'["control"] /\ at'[k] <= Floor(p.at)
    <2>1. k \in led["control"] /\ at[k] <= Floor(p.at) BY <1>3 DEF Holds
    <2> QED BY <2>1, SourceTimes, LedgerStep
  <1> QED BY <1>1, <1>2, <1>3

(* A whole second, later than the observation.                              *)
Later(q) == q \in Nat /\ Floor(q) = q /\ q >= Floor(task.out.at) + 4

(* Where the points of the controller come from.                            *)
LEMMA PointCases ==
    ASSUME TypeInv, StepKinds, NEW i \in {1, 2}
    PROVE  \/ ctl'.points[i] = ctl.points[i]
           \/ ctl'.points[i] = [at |-> 0, held |-> {}]
           \/ /\ At("mark") /\ UNCHANGED <<led, at, now>>
              /\ ctl'.points[i] = [at |-> task.out.at, held |-> task.out.local]
           \/ /\ At("select") /\ UNCHANGED <<led, at>>
              /\ \E q : /\ Later(q) /\ now' \in Nat /\ now' > q
                       /\ ctl'.points[i] = [at |-> q, held |-> task.out.local]
  <1>0. ctl \in Controllers /\ ctl.points \in Points /\ now \in Nat /\ task.out.at \in Nat
        /\ Call \in CallSet
    BY CallIs DEF TypeInv, CtlType, Controllers, DataType, TaskType, Tasks, Outcomes
  <1>i. Idle.points[i] = [at |-> 0, held |-> {}] /\ NoPoints[i] = [at |-> 0, held |-> {}]
    BY DEF Idle, NoPoints
  <1>1. CASE Aside \/ Expires \/ StopsTask \/ Works
    BY <1>1 DEF Aside, Expires, StopsTask, Works
  <1>2. CASE Starts
    <2>1. ctl'.points = Idle.points BY <1>2 DEF Starts, Idle
    <2> QED BY <1>i, <2>1
  <1>f. Fails => ctl'.points[i] = [at |-> 0, held |-> {}]
    <2>1. Fails => ctl'.points = Idle.points BY DEF Fails, Idle
    <2> QED BY <1>i, <2>1
  <1>3. CASE Breaks BY <1>f, <1>3 DEF Breaks
  <1>4. CASE Gates \/ Launches
    <2>1. ctl'.points = ctl.points BY <1>0, <1>4 DEF Gates, Launches, Controllers
    <2> QED BY <2>1
  <1>a. ASSUME NEW c \in Controllers, Advances(c)
        PROVE  ctl'.points[i] = c.points[i] \/ ctl'.points[i] = [at |-> 0, held |-> {}]
    <2>1. ctl'.points = c.points \/ ctl'.points = Idle.points
      BY <1>a DEF Advances, Controllers, Idle
    <2> QED BY <1>i, <2>1
  <1>5. CASE Moves
    <2>1. CASE ctl'.points \in {ctl.points, NoPoints} BY <1>i, <2>1
    <2>2. CASE Mark
      <3> DEFINE p == [at |-> task.out.at, held |-> task.out.local]
                 c == [ctl EXCEPT !.points[1] = p]
      <3>1. At("mark") /\ Advances(c) /\ UNCHANGED <<led, at, now>>
        BY <2>2 DEF Mark, cloudVars
      <3>2. p \in [at : Nat, held : SUBSET Keys]
        BY <1>0 DEF TypeInv, TaskType, Tasks, Outcomes
      <3> HIDE DEF p
      <3>3. [ctl.points EXCEPT ![1] = p] \in Points BY <1>0, <3>2 DEF Points
      <3>4. c = [ctl EXCEPT !.points = [ctl.points EXCEPT ![1] = p]] BY <1>0 DEF Controllers
      <3>5. c \in Controllers /\ c.points = [ctl.points EXCEPT ![1] = p]
        BY <1>0, <3>3, <3>4 DEF Controllers
      <3>6. c.points[i] \in {ctl.points[i], p} BY <1>0, <3>5 DEF Points
      <3> HIDE DEF c
      <3> QED BY <1>a, <3>1, <3>5, <3>6 DEF p
    <2>3. CASE SelectPoint
      <3>0. At("select") /\ UNCHANGED <<led, at>> BY <2>3 DEF SelectPoint
      <3>1. CASE Fails BY <1>f, <3>1
      <3>2. ASSUME NEW q \in Nat, q >= (task.out.at \div 2) * 2 + 4, (q \div 2) * 2 = q,
                   Advances([ctl EXCEPT !.points[Call[2]] = [at |-> q, held |-> task.out.local]]),
                   WaitsFor(q)
            PROVE  \/ ctl'.points[i] = ctl.points[i]
                   \/ ctl'.points[i] = [at |-> 0, held |-> {}]
                   \/ /\ Later(q) /\ now' \in Nat /\ now' > q
                      /\ ctl'.points[i] = [at |-> q, held |-> task.out.local]
        <4> DEFINE p == [at |-> q, held |-> task.out.local]
                   c == [ctl EXCEPT !.points[Call[2]] = p]
        <4>1. p \in [at : Nat, held : SUBSET Keys]
          BY <3>2 DEF TypeInv, TaskType, Tasks, Outcomes
        <4>2. Advances(c) BY <3>2
        <4> HIDE DEF p
        <4>3. Call[2] \in {1, 2} BY <1>0, <3>0, CallTyped DEF At
        <4>4. [ctl.points EXCEPT ![Call[2]] = p] \in Points BY <1>0, <4>1, <4>3 DEF Points
        <4>5. c = [ctl EXCEPT !.points = [ctl.points EXCEPT ![Call[2]] = p]] BY <1>0 DEF Controllers
        <4>6. c \in Controllers /\ c.points = [ctl.points EXCEPT ![Call[2]] = p]
          BY <1>0, <4>4, <4>5 DEF Controllers
        <4>7. c.points[i] \in {ctl.points[i], p} BY <1>0, <4>6 DEF Points
        <4> HIDE DEF c
        <4>8. now' \in Nat /\ now' > q BY <1>0, <3>2 DEF WaitsFor
        <4>9. Later(q) BY <3>2 DEF Later, Floor
        <4> QED BY <1>a, <4>2, <4>6, <4>7, <4>8, <4>9 DEF p
      <3> QED BY <2>3, <3>0, <3>1, <3>2, SelectedPoint
    <2> QED BY <1>5, <2>1, <2>2, <2>3 DEF Moves
  <1> QED BY <1>1, <1>2, <1>3, <1>4, <1>5 DEF StepKinds

(* A point is chosen from the outcome of the task before, and stays true.   *)
LEMMA PointsStep ==
    ASSUME TypeInv, TypeInv', EffectInv, PointInv, Committed', StepKinds
    PROVE  PointsHold'
  <1>0. App' = App /\ now \in Nat /\ at \in [Keys -> Nat] /\ led \in [Gens -> SUBSET Keys]
        /\ "control" \in Gens /\ task \in Tasks /\ task.call \in Requests
        /\ task.out.at \in Nat
    BY FlowConstant DEF TypeInv, DataType, TaskType, Tasks, Outcomes, Gens
  <1>1. now' \in Nat /\ at' \in [Keys -> Nat] /\ led' \in [Gens -> SUBSET Keys]
    BY DEF TypeInv, DataType
  <1> SUFFICES ASSUME NEW i \in {1, 2}
               PROVE  /\ ctl'.points[i].at <= now'
                      /\ \A k \in led'["control"] : at'[k] <= Floor(ctl'.points[i].at) => k \in ctl'.points[i].held
                      /\ App => \A k \in ctl'.points[i].held :
                                    k \in led'["control"] /\ at'[k] <= Floor(ctl'.points[i].at)
    BY <1>0 DEF PointsHold, Holds
  <1>2. CASE ctl'.points[i] = ctl.points[i]
    <2>1. ctl.points[i].at \in Nat BY DEF TypeInv, CtlType, Controllers, Points
    <2>2. Holds(ctl.points[i]) BY DEF PointInv, PointsHold
    <2>3. /\ ctl.points[i].at <= now'
          /\ \A k \in led'["control"] : at'[k] <= Floor(ctl.points[i].at) => k \in ctl.points[i].held
          /\ App => \A k \in ctl.points[i].held : k \in led'["control"] /\ at'[k] <= Floor(ctl.points[i].at)
      BY <2>1, <2>2, HoldsOn
    <2> QED BY <1>2, <2>3
  <1>3. CASE ctl'.points[i] = [at |-> 0, held |-> {}]
    <2>1. Floor(0) = 0 BY DEF Floor
    <2>2. \A k \in led'["control"] : at'[k] \in Nat /\ at'[k] > 0 BY <1>1, <1>0 DEF Committed
    <2> QED BY <1>1, <1>3, <2>1, <2>2
  <1>e. ASSUME At("mark") \/ At("select")
        PROVE  /\ task.st = "stopped" /\ task.out.exit = 0 /\ task.call.gen = "control"
               /\ task.call.name \in {"baseline", "control"}
               /\ <<task.call, task.out>> \in Results
    BY <1>0, <1>e DEF PointInv, JustRun, Requests, TaskCalls, Restores, Results
  <1>t. ASSUME At("mark") \/ At("select")
        PROVE  /\ task.out.at <= now
               /\ \A k \in led["control"] : at[k] <= task.out.at => k \in task.out.local
               /\ App => \A k \in task.out.local : k \in led["control"] /\ at[k] <= task.out.at
    <2>1. \A r \in Results :
              /\ r[2].at <= now
              /\ (r[1].gen = "control" /\ r[2].exit # 1) =>
                     \A k \in led["control"] : at[k] <= r[2].at => k \in r[2].local
              /\ (App /\ r[1].gen = "control") =>
                     \A k \in r[2].local : k \in led["control"] /\ at[k] <= r[2].at
      BY DEF PointInv, Timely
    <2> QED BY <1>e, <1>t, <2>1
  <1>k. \A k \in led["control"] : at[k] \in Nat BY <1>0
  <1>4. CASE /\ At("mark") /\ UNCHANGED <<led, at, now>>
             /\ ctl'.points[i] = [at |-> task.out.at, held |-> task.out.local]
    <2>1. ~ App BY <1>4, CallIs DEF At, ApplicationPlace
    <2>2. Floor(task.out.at) \in Nat /\ Floor(task.out.at) <= task.out.at BY <1>0, FloorIs
    <2> QED BY <1>0, <1>4, <1>t, <1>k, <2>1, <2>2
  <1>5. ASSUME At("select"), UNCHANGED <<led, at>>, NEW q, Later(q), now' \in Nat, now' > q,
               ctl'.points[i] = [at |-> q, held |-> task.out.local]
        PROVE  /\ ctl'.points[i].at <= now'
               /\ \A k \in led'["control"] : at'[k] <= Floor(ctl'.points[i].at) => k \in ctl'.points[i].held
               /\ App => \A k \in ctl'.points[i].held :
                             k \in led'["control"] /\ at'[k] <= Floor(ctl'.points[i].at)
    <2>1. App BY <1>5, CallIs DEF At, FixturePlace, TypeInv, Flows, App
    <2>2. task.out.local = led["control"] BY <1>5, <1>e, <2>1 DEF PointInv, StillSource
    <2>3. q \in Nat /\ Floor(q) = q /\ task.out.at <= q BY <1>0, <1>5, FloorIs DEF Later
    <2>4. \A k \in task.out.local : k \in led["control"] /\ at[k] <= q
      BY <1>0, <1>5, <1>t, <1>k, <2>1, <2>3
    <2>5. ctl'.points[i].at = q /\ ctl'.points[i].held = task.out.local BY <1>5
    <2>6. q <= now' BY <1>5, <2>3
    <2> QED BY <1>5, <2>2, <2>3, <2>4, <2>5, <2>6
  <1> QED BY <1>2, <1>3, <1>4, <1>5, PointCases

(* Between the task and the choice of its point nobody writes to the        *)
(* source.                                                                  *)
LEMMA StillStep ==
    ASSUME TypeInv, SoleRun, StillSource, StepKinds
    PROVE  StillSource'
  <1>0. App' = App /\ task \in Tasks /\ task.call \in Requests
    BY FlowConstant DEF TypeInv, TaskType, Tasks
  <1> SUFFICES ASSUME App, task'.st = "stopped", task'.out.exit = 0,
                      task'.call.name \in {"baseline", "control"}
               PROVE  task'.out.local = led'["control"]
    BY <1>0 DEF StillSource
  <1>1. CASE UNCHANGED task
    <2>1. ~ Works BY <1>1 DEF Works, Alive
    <2>2. led'["control"] = led["control"] BY <2>1, Sources
    <2> QED BY <1>1, <2>2 DEF StillSource
  <1>2. CASE Works
    <2>1. CASE Quits
      <3>1. task'.out = NoOutcome BY <1>0, <2>1 DEF Quits, Ended, Tasks
      <3> QED BY <3>1 DEF NoOutcome
    <2>2. CASE Reports
      <3>1. task'.out = Outcome /\ task'.call = task.call /\ UNCHANGED led
        BY <1>0, <2>2 DEF Reports, Ended, Tasks, data
      <3>2. task.call.gen = "control" BY <1>0, <3>1 DEF Requests, TaskCalls, Restores
      <3> QED BY <3>1, <3>2 DEF Outcome
    <2>3. CASE TaskMoves
      <3>1. Continue
        BY <2>3 DEF TaskMoves, Passes, Intends, Supplies, Closes, Reopens, Proposes, Delivers
      <3>2. task'.st = task.st BY <1>0, <3>1 DEF Continue, Tasks
      <3> QED BY <1>2, <3>2 DEF Works, Alive
    <2> QED BY <1>2, <2>1, <2>2, <2>3 DEF Works
  <1>4. CASE task' = [NoTask EXCEPT !.call = Call[2], !.st = "running"] BY <1>4 DEF NoTask
  <1>5. CASE Launches /\ \E r \in ran : r[1] = Call[2]
    BY <1>5, NotBefore DEF Launches
  <1> QED BY <1>1, <1>2, <1>4, <1>5, TaskStep

(* Points are chosen in the call after a task has answered.                 *)
LEMMA JustRunStep ==
    ASSUME TypeInv, TypeInv', Awaited, JustRun, StepKinds
    PROVE  JustRun'
  <1>0. /\ ctl \in Controllers /\ task \in Tasks /\ Program' = Program /\ App' = App /\ wf' = wf
        /\ wf \in Flows /\ ctl.pc \in Nat
    BY FlowConstant, CallIs DEF TypeInv, CtlType, TaskType
  <1> SUFFICES ASSUME At("mark")' \/ At("select")'
               PROVE  /\ task'.st = "stopped" /\ task'.out.exit = 0
                      /\ task'.call.name \in {"baseline", "control"}
    BY DEF JustRun
  <1>1. ctl'.pc \in 1 .. Len(Program) /\ ctl'.st = "run" /\ Program[ctl'.pc][1] \in {"mark", "select"}
    BY <1>0 DEF TypeInv, CtlType, At, Call
  <1>2. \/ ~ App /\ ctl'.pc = 5
        \/ App /\ ctl'.pc \in {6, 8}
    BY <1>0, <1>1, ProgramAt DEF ApplicationPlace, FixturePlace, Flows, App
  <1>3. CASE Aside \/ Expires \/ Gates
    <2>1. ctl'.pc = ctl.pc /\ ctl'.st = ctl.st /\ UNCHANGED task
      BY <1>0, <1>3 DEF Aside, Expires, Gates, Controllers
    <2> QED BY <1>1, <2>1 DEF JustRun, At, Call
  <1>4. ~ StopsTask /\ ~ Works
    <2>1. SUFFICES ASSUME ctl' = ctl, Alive PROVE FALSE
      BY DEF StopsTask, Works, Listed, Alive
    <2> QED BY <1>1, <2>1 DEF JustRun, At, Call, Alive
  <1>5. ~ Starts BY <1>2 DEF Starts, Idle
  <1>6. ~ Breaks /\ ~ Launches
    <2>1. ~ Breaks BY <1>1 DEF Breaks, Fails, Idle
    <2>2. ASSUME ctl' = [ctl EXCEPT !.st = "await", !.gated = FALSE] PROVE FALSE
      <3>1. ctl'.st = "await" BY <1>0, <2>2 DEF Controllers
      <3> QED BY <1>1, <3>1
    <2> QED BY <2>1, <2>2 DEF Launches
  <1>7. CASE Moves
    <2>1. ctl'.pc = ctl.pc + 1 BY <1>1, <1>7 DEF Moves, Forward
    <2>2. Call[1] = "run" /\ Call[2].name \in {"baseline", "control"}
      <3>1. CASE App BY <1>0, <1>2, <2>1, <3>1, CallIs DEF ApplicationPlace
      <3>2. CASE ~ App
        <4>1. ctl.pc = 4 BY <1>0, <1>2, <2>1, <3>2
        <4> QED BY <1>0, <3>2, <4>1, CallIs DEF FixturePlace, Flows, App
      <3> QED BY <3>1, <3>2
    <2>3. Call[2].exit = 0 BY <2>2, CallIs DEF Requests, TaskCalls
    <2>4. task.st = "stopped" /\ task.call = Call[2] /\ task.out.exit = 0 /\ UNCHANGED task
      BY <1>7, <2>2, <2>3, Answered
    <2> QED BY <2>2, <2>4
  <1> QED BY <1>3, <1>4, <1>5, <1>6, <1>7 DEF StepKinds

(* PointInv holds initially and is preserved.                               *)
LEMMA PointStep ==
    ASSUME TypeInv, WatchLate, EffectInv, PointInv, [Next]_vars
    PROVE  PointInv'
  <1>1. StepKinds /\ TypeInv' BY TypeStep
  <1>2. Committed' /\ Timely' BY <1>1, CommittedStep, TimelyStep DEF PointInv
  <1>3. PointsHold' BY <1>1, <1>2, PointsStep
  <1>4. StillSource' /\ JustRun' BY <1>1, StillStep, JustRunStep DEF PointInv, EffectInv
  <1> QED BY <1>2, <1>3, <1>4 DEF PointInv

LEMMA PointInitially == Init => PointInv
  <1> SUFFICES ASSUME Init PROVE PointInv OBVIOUS
  <1>1. /\ led["control"] = {} /\ now \in Nat /\ task.st = "none" /\ ran = {}
        /\ ctl.st = "none" /\ ctl.points = NoPoints
    BY StartAssumption DEF Init, CloudInit, ControllerInit, Idle, NoTask, Gens
  <1>2. Results = {} BY <1>1 DEF Results
  <1>3. PointsHold BY <1>1 DEF PointsHold, Holds, NoPoints
  <1> QED BY <1>1, <1>2, <1>3 DEF PointInv, Committed, Timely, StillSource, JustRun, At

(* In every state commit times lie in the past and each point the           *)
(* controller has chosen stands for what it observed of the source, however *)
(* far ahead of the observation the restorable window begins                *)
(* (native_application.py:30-69, native_retained.py:239-262).               *)
THEOREM PointInvariance == Spec => [](TypeInv /\ WatchLate /\ EffectInv /\ PointInv)
  <1>1. (TypeInv /\ WatchLate /\ EffectInv /\ PointInv) /\ [Next]_vars => PointInv'
    BY PointStep
  <1> QED BY <1>1, PointInitially, EffectInvariance, PTL DEF Spec

(* A restored database appears only by the call that restores it.           *)
LEMMA Appears ==
    ASSUME TypeInv, [Next]_vars, NEW g \in Restores, ~ Exists(g), Exists(g)'
    PROVE  RestoreGeneration /\ Call[2] = g
  <1>0. db \in [Gens -> DbStates] /\ g \in Gens /\ g \notin {"control", "receipts"}
    BY DEF TypeInv, CloudType, Gens, Restores
  <1>1. db'[g] # db[g] BY DEF Exists
  <1>2. ASSUME NEW h \in Gens, DatabaseSettles(h) PROVE FALSE
    BY <1>0, <1>2 DEF DatabaseSettles, Exists
  <1>3. ~ DeleteGeneration
    BY <1>0 DEF DeleteGeneration, WithoutBackups, DeleteInstance, Exists
  <1>4. ASSUME NEW failed, PassSweeps(failed) PROVE FALSE
    BY <1>0, <1>4 DEF PassSweeps, ToDelete, Instances, Exists
  <1>5. ~ Deploy BY <1>0, <1>1, DeployAdds
  <1>6. RestoreGeneration
    BY <1>1, <1>2, <1>3, <1>4, <1>5, ResourceCases DEF EndpointSettles, FillsSecrets, TagBackup, WaitingEnds
  <1>7. Call[2] = g BY <1>0, <1>1, <1>6 DEF RestoreGeneration, RestoreTo
  <1> QED BY <1>6, <1>7

(* It then holds what the source held at the floor of the point.            *)
LEMMA BroughtBack ==
    ASSUME TypeInv, PointInv, [Next]_vars, NEW g \in Restores, ~ Exists(g), Exists(g)'
    PROVE  /\ led'[g] \subseteq ctl.points[Call[3]].held
           /\ App => led'[g] = ctl.points[Call[3]].held
  <1> DEFINE p == ctl.points[Call[3]]
  <1>0. led \in [Gens -> SUBSET Keys] /\ g \in Gens BY DEF TypeInv, DataType, Gens
  <1>1. RestoreGeneration /\ Call[2] = g BY Appears
  <1>2. Call[3] \in {1, 2} BY <1>1, CallIs, CallTyped DEF RestoreGeneration, At
  <1>3. Holds(p) BY <1>2 DEF PointInv, PointsHold
  <1> HIDE DEF p
  <1>4. led'[g] = ContentAt(p.at) BY <1>0, <1>1 DEF RestoreGeneration, RestoreTo, p
  <1>5. led'[g] = {k \in led["control"] : at[k] <= Floor(p.at)} BY <1>4 DEF ContentAt, Floor
  <1>6. led'[g] \subseteq p.held /\ (App => p.held \subseteq led'[g])
    BY <1>3, <1>5 DEF Holds
  <1> QED BY <1>6 DEF p

(* native_application.py:30-69, native_retained.py:239-262 A restore brings *)
(* back nothing that was committed after the observation its point stands   *)
(* for, and with quiescent points exactly what was observed, whatever RDS   *)
(* truncates, wherever its restorable window begins and however often the   *)
(* run was started.                                                         *)
THEOREM RestoresHold == Spec => RestoredAtPoint
  <1>1. TypeInv /\ WatchLate /\ EffectInv /\ PointInv /\ [Next]_vars =>
            [\A g \in Restores :
                ~ Exists(g) /\ Exists(g)' =>
                    LET held == ctl.points[Call[3]].held
                    IN  /\ led'[g] \subseteq held
                        /\ wf = "application" => led'[g] = held]_vars
    BY BroughtBack DEF App
  <1> QED BY <1>1, PointInvariance, PTL DEF Spec, RestoredAtPoint
=============================================================================
