--------------------------- MODULE CapacityProofs ---------------------------
(***************************************************************************)
(* Proofs about Capacity: for any callers, budgets, permit lifetimes and   *)
(* clocks, no bucket is overdrawn and no cooldown cut short; and no more   *)
(* calls are under way than allowed provided that a permit outlives the    *)
(* longest call (Patient).                                                 *)
(*                                                                         *)
(* Budget: buckets are drawn from in order, so that used counts the rows   *)
(* of the newest and none has rows beyond it.  Concurrency: the permit of  *)
(* a call under way has not expired (Covered), and permits are counted.    *)
(* Cooldown: next_probe lies as far ahead as elapsed time asks (Hushed).   *)
(***************************************************************************)
EXTENDS Capacity, FiniteSetTheorems, TLAPS

\* Tokens of different callers differ, and a call has one.
TokensHeld ==
    /\ \A c \in Callers :
           callers[c].phase \in {"calling", "releasing"} =>
               callers[c].token \in Tokens
    /\ \A c, d \in Callers :
           c # d /\ callers[c].token \in Tokens =>
               callers[c].token # callers[d].token

\* The row lock has one holder, whose reading of the state still holds.
LockHeld ==
    /\ \A c, d \in In("asking") : c = d
    /\ \A c \in In("asking") :
           /\ callers[c].now >= window_id
           /\ callers[c].eligible => quiet = 0

\* used counts the rows of the newest bucket, beyond which there are none.
BucketsInOrder ==
    /\ \A w \in Windows :
           w > window_id => log[w]["dispatch"] = 0 /\ log[w]["receipt"] = 0
    /\ log[window_id]["dispatch"] + log[window_id]["receipt"] = used

\* next_probe is at least as far away as elapsed time asks.
Hushed == quiet > 0 => next_probe >= clock + quiet

Stored == {t \in Tokens : permits[t] # None}

PermitsCounted == Cardinality(Stored) <= Concurrency

Inv ==
    /\ TypeOK
    /\ TokensHeld
    /\ LockHeld
    /\ BucketsInOrder
    /\ BudgetHolds
    /\ Hushed
    /\ PermitsCounted

-----------------------------------------------------------------------------
LEMMA InitInv ==
    ASSUME Init
    PROVE  Inv
  <1>1. Idle \in CallerRecords
    BY CapacityAssumption DEF Idle, CallerRecords, Phases, Kinds, Windows
  <1>2. log \in [Windows -> [Kinds -> 0 .. Rps]]
    BY CapacityAssumption DEF Init
  <1>3. TypeOK
    BY <1>1, <1>2, CapacityAssumption DEF Init, TypeOK, Clock, Windows
  <1>4. TokensHeld /\ LockHeld
    BY CapacityAssumption DEF Init, TokensHeld, LockHeld, Idle, In
  <1>5. \A w \in Windows : log[w]["dispatch"] = 0 /\ log[w]["receipt"] = 0
    BY DEF Init, Kinds
  <1>6. BucketsInOrder /\ BudgetHolds
    BY <1>5, CapacityAssumption DEF Init, BucketsInOrder, BudgetHolds, Windows
  <1>7. Hushed
    BY DEF Init, Hushed
  <1>8. PermitsCounted
    <2>1. Stored = {}
      BY DEF Init, Stored
    <2> QED
      BY <2>1, FS_EmptySet, CapacityAssumption DEF PermitsCounted
  <1> QED
    BY <1>3, <1>4, <1>6, <1>7, <1>8 DEF Inv

-----------------------------------------------------------------------------
(***************************************************************************)
(* What the steps do.                                                      *)
(***************************************************************************)

\* The numbers in play.
LEMMA Numbers ==
    ASSUME TypeOK
    PROVE  /\ clock \in Nat /\ window_id \in Nat /\ used \in Nat
           /\ next_probe \in Nat /\ quiet \in Nat
           /\ Rps \in Nat /\ Rps >= 2
           /\ \A w \in Windows : log[w]["dispatch"] \in Nat
                                 /\ log[w]["receipt"] \in Nat
           /\ \A c \in Callers : callers[c].now \in Nat
                                 /\ callers[c].cooldown \in Nat
                                 /\ callers[c].silence \in Nat
                                 /\ callers[c].reads \in Nat
  <1>1. /\ clock \in Nat /\ window_id \in Nat /\ used \in Nat
        /\ next_probe \in Nat /\ quiet \in Nat
        /\ Rps \in Nat /\ Rps >= 2
    BY CapacityAssumption DEF TypeOK, Clock, Windows
  <1>2. ASSUME NEW w \in Windows
        PROVE  log[w]["dispatch"] \in Nat /\ log[w]["receipt"] \in Nat
    <2>1. log[w] \in [Kinds -> 0 .. Rps]
      BY DEF TypeOK
    <2> QED
      BY <2>1, CapacityAssumption DEF Kinds
  <1>3. ASSUME NEW c \in Callers
        PROVE  /\ callers[c].now \in Nat /\ callers[c].cooldown \in Nat
               /\ callers[c].silence \in Nat /\ callers[c].reads \in Nat
    <2>1. callers[c] \in CallerRecords
      BY DEF TypeOK
    <2>2. /\ callers[c].now \in 0 .. MaxClock
          /\ callers[c].cooldown \in Cooldowns \cup {0}
          /\ callers[c].silence \in 0 .. ClientTimeout
          /\ callers[c].reads \in 0 .. MaxReads
      BY <2>1 DEF CallerRecords, Windows
    <2>3. Cooldowns \cup {0} \subseteq Nat
      BY CapacityAssumption
    <2>4. callers[c].cooldown \in Nat
      BY <2>2, <2>3
    <2>5. \A n \in Nat : 0 .. n \subseteq Nat
      OBVIOUS
    <2>6. /\ callers[c].now \in Nat
          /\ callers[c].silence \in Nat
          /\ callers[c].reads \in Nat
      BY <2>2, <2>5, CapacityAssumption
    <2> QED
      BY <2>4, <2>6
  <1> QED
    BY <1>1, <1>2, <1>3

LEMMA IdleRecord ==
    Idle \in CallerRecords /\ Idle.phase = "idle" /\ Idle.token = None
  BY CapacityAssumption DEF Idle, CallerRecords, Phases, Kinds, Windows

LEMMA AskStep ==
    ASSUME Inv, NEW c \in Callers, NEW kind \in Kinds, Ask(c, kind)
    PROVE  Inv'
  <1>0. TypeOK /\ In("asking") = {}
        /\ UNCHANGED <<clock, setbacks, window_id, used, next_probe, permits,
                       log, quiet>>
    BY DEF Ask, Unlocked, Inv
  <1> DEFINE r == [Idle EXCEPT !.phase = "asking", !.kind = kind,
                               !.now = CurrentWindow,
                               !.eligible = next_probe <= clock]
  <1>1. /\ CurrentWindow \in Windows
        /\ CurrentWindow >= window_id
    BY <1>0, CapacityAssumption
       DEF CurrentWindow, Later, TypeOK, Windows, Clock
  <1>2. r \in CallerRecords
    <2>1. \A b \in BOOLEAN :
              [Idle EXCEPT !.phase = "asking", !.kind = kind,
                           !.now = CurrentWindow, !.eligible = b]
                  \in CallerRecords
      BY <1>1, IdleRecord DEF CallerRecords, Phases
    <2>2. (next_probe <= clock) \in BOOLEAN
      OBVIOUS
    <2> QED
      BY <2>1, <2>2
  <1>3. /\ r.phase = "asking" /\ r.token = None
        /\ r.now = CurrentWindow
        /\ r.eligible = (next_probe <= clock)
    BY DEF Idle
  <1>4. callers' = [callers EXCEPT ![c] = r] /\ callers \in [Callers -> CallerRecords]
    BY <1>0 DEF Ask, TypeOK
  <1>5. TypeOK'
    BY <1>0, <1>2, <1>4 DEF TypeOK
  <1>6. TokensHeld'
    BY <1>3, <1>4, CapacityAssumption DEF Inv, TokensHeld
  <1>7. In("asking")' = {c}
    BY <1>0, <1>3, <1>4 DEF In
  <1>8. next_probe <= clock => quiet = 0
    BY <1>0, Numbers DEF Inv, Hushed
  <1>9. LockHeld'
    BY <1>0, <1>1, <1>3, <1>4, <1>7, <1>8 DEF LockHeld
  <1> QED
    BY <1>0, <1>5, <1>6, <1>9
       DEF Inv, BucketsInOrder, BudgetHolds, Hushed, PermitsCounted, Stored

\* The bucket that c draws from before and after a permit is granted.
LEMMA GrantBudget ==
    ASSUME Inv, NEW c \in Callers, NEW t \in Tokens, Grant(c, t)
    PROVE  /\ log' \in [Windows -> [Kinds -> 0 .. Rps]]
           /\ window_id' \in Windows
           /\ used' \in 0 .. Rps
           /\ BucketsInOrder'
           /\ BudgetHolds'
  <1> DEFINE n == callers[c].now
  <1> DEFINE k == callers[c].kind
  <1>0. TypeOK /\ n \in Windows /\ k \in Kinds /\ window_id \in Windows
    BY DEF Inv, TypeOK, CallerRecords
  <1>1. n >= window_id
    BY DEF Inv, LockHeld, Grant, In
  <1>2. /\ log' = [log EXCEPT ![n][k] = @ + 1]
        /\ window_id' = n
        /\ used' = Drawn(c) + 1
        /\ Drawn(c) < Limit(k)
    BY DEF Grant, Grantable
  <1>3. log[n]["dispatch"] + log[n]["receipt"] = Drawn(c) /\ Drawn(c) \in Nat
    <2>1. CASE window_id = n
      BY <1>0, <2>1, Numbers DEF Drawn, Inv, BucketsInOrder
    <2>2. CASE window_id # n
      <3>1. n > window_id
        BY <1>0, <1>1, <2>2, Numbers
      <3> QED
        BY <1>0, <2>2, <3>1 DEF Drawn, Inv, BucketsInOrder
    <2> QED
      BY <2>1, <2>2
  <1>4. /\ \A w \in Windows : w # n => log'[w] = log[w]
        /\ \A kind \in Kinds : kind # k => log'[n][kind] = log[n][kind]
        /\ log'[n][k] = log[n][k] + 1
    BY <1>0, <1>2 DEF TypeOK
  <1>5. log[n]["dispatch"] \in Nat /\ log[n]["receipt"] \in Nat
    BY <1>0, Numbers
  <1>6. /\ log'[n]["dispatch"] + log'[n]["receipt"] = used'
        /\ log'[n]["dispatch"] + log'[n]["receipt"] <= Rps
        /\ log'[n]["dispatch"] < Rps
        /\ log'[n]["dispatch"] \in Nat /\ log'[n]["receipt"] \in Nat
        /\ used' \in Nat
    <2>1. CASE k = "dispatch"
      <3>1. /\ log'[n]["dispatch"] = log[n]["dispatch"] + 1
            /\ log'[n]["receipt"] = log[n]["receipt"]
        BY <1>4, <2>1 DEF Kinds
      <3>2. Drawn(c) < Rps - 1
        BY <1>2, <2>1 DEF Limit
      <3> QED
        BY <1>0, <1>2, <1>3, <1>5, <3>1, <3>2, Numbers
    <2>2. CASE k = "receipt"
      <3>1. /\ log'[n]["receipt"] = log[n]["receipt"] + 1
            /\ log'[n]["dispatch"] = log[n]["dispatch"]
        BY <1>4, <2>2 DEF Kinds
      <3>2. Drawn(c) < Rps
        BY <1>2, <2>2 DEF Limit
      <3> QED
        BY <1>0, <1>2, <1>3, <1>5, <3>1, <3>2, Numbers
    <2> QED
      BY <1>0, <2>1, <2>2 DEF Kinds
  <1>7. log'[n][k] \in 0 .. Rps
    BY <1>0, <1>6, Numbers DEF Kinds
  <1>8. log' \in [Windows -> [Kinds -> 0 .. Rps]]
    BY <1>0, <1>2, <1>4, <1>7 DEF TypeOK
  <1>9. BudgetHolds'
    BY <1>4, <1>6 DEF Inv, BudgetHolds
  <1>10. BucketsInOrder'
    <2>1. ASSUME NEW w \in Windows, w > n
          PROVE  log'[w]["dispatch"] = 0 /\ log'[w]["receipt"] = 0
      <3>1. w > window_id /\ w # n
        BY <1>0, <1>1, <2>1, CapacityAssumption DEF Windows
      <3> QED
        BY <1>4, <3>1 DEF Inv, BucketsInOrder
    <2> QED
      BY <1>2, <1>6, <2>1 DEF BucketsInOrder
  <1>11. used' \in 0 .. Rps
    BY <1>0, <1>6, Numbers
  <1> QED
    BY <1>0, <1>2, <1>8, <1>9, <1>10, <1>11

\* What acquire leaves of the permits: those that are live.
LEMMA KeptPermits ==
    ASSUME TypeOK
    PROVE  /\ Kept \in [Tokens -> Nat \cup {None}]
           /\ \A t \in Tokens : Kept[t] # None <=> t \in Live
           /\ \A t \in Live : Kept[t] = permits[t]
           /\ Live \subseteq Stored
  BY DEF Kept, Live, Stored, TypeOK

LEMMA GrantStep ==
    ASSUME Inv, NEW c \in Callers, NEW t \in Tokens, Grant(c, t)
    PROVE  Inv'
  <1>0. TypeOK /\ callers \in [Callers -> CallerRecords]
        /\ UNCHANGED <<clock, setbacks, next_probe, quiet>>
        /\ callers[c].phase = "asking"
    BY DEF Inv, TypeOK, Grant
  <1> DEFINE r == [Idle EXCEPT !.phase = "calling", !.kind = callers[c].kind,
                               !.token = t]
  <1>1. r \in CallerRecords
    <2>1. callers[c].kind \in Kinds
      BY <1>0 DEF CallerRecords
    <2> QED
      BY <2>1, IdleRecord DEF CallerRecords, Phases
  <1>2. r.phase = "calling" /\ r.token = t
    BY DEF Idle
  <1>3. callers' = [callers EXCEPT ![c] = r]
    BY DEF Grant
  <1>4. /\ permits' = [Kept EXCEPT ![t] = clock + PermitLife]
        /\ clock + PermitLife \in Nat
    BY <1>0, Numbers, CapacityAssumption DEF Grant
  <1>5. TypeOK'
    <2>1. permits' \in [Tokens -> Nat \cup {None}]
      BY <1>0, <1>4, KeptPermits
    <2> QED
      BY <1>0, <1>1, <1>3, <2>1, GrantBudget DEF TypeOK
  <1>6. TokensHeld'
    <2>1. \A d \in Callers : callers[d].token # t
      BY DEF Grant
    <2> QED
      BY <1>0, <1>2, <1>3, <2>1 DEF Inv, TokensHeld
  <1>7. In("asking")' = {}
    BY <1>0, <1>2, <1>3 DEF In, Inv, LockHeld
  <1>8. LockHeld'
    BY <1>7 DEF LockHeld
  <1>9. PermitsCounted'
    <2>1. IsFiniteSet(Live) /\ Cardinality(Live) < Concurrency
      <3>1. Live \subseteq Tokens
        BY DEF Live
      <3> QED
        BY <3>1, CapacityFiniteness, FS_Subset DEF Grant, Grantable
    <2>2. Stored' = Live \cup {t}
      BY <1>0, <1>4, KeptPermits, CapacityAssumption DEF Stored, Live
    <2>3. Cardinality(Live \cup {t}) \in {Cardinality(Live), Cardinality(Live) + 1}
      BY <2>1, FS_AddElement
    <2>4. Cardinality(Live) \in Nat
      BY <2>1, FS_CardinalityType
    <2> QED
      BY <2>1, <2>2, <2>3, <2>4, CapacityAssumption DEF PermitsCounted
  <1>10. Hushed'
    BY <1>0 DEF Inv, Hushed
  <1> QED
    BY <1>5, <1>6, <1>8, <1>9, <1>10, GrantBudget DEF Inv

\* Fewer permits than before.
LEMMA PermitsGo ==
    ASSUME Inv, Stored' \subseteq Stored
    PROVE  PermitsCounted'
  <1>1. IsFiniteSet(Stored)
    BY CapacityFiniteness, FS_Subset DEF Stored
  <1>2. /\ Cardinality(Stored') <= Cardinality(Stored)
        /\ Cardinality(Stored') \in Nat /\ Cardinality(Stored) \in Nat
    BY <1>1, FS_Subset, FS_CardinalityType
  <1> QED
    BY <1>2, CapacityAssumption DEF Inv, PermitsCounted

LEMMA RefuseStep ==
    ASSUME Inv, NEW c \in Callers, Refuse(c)
    PROVE  Inv'
  <1>0. /\ TypeOK
        /\ callers \in [Callers -> CallerRecords]
        /\ callers' = [callers EXCEPT ![c] = Idle]
        /\ permits' = Kept
        /\ UNCHANGED <<clock, setbacks, window_id, used, next_probe, log, quiet>>
    BY DEF Inv, TypeOK, Refuse
  <1>1. Idle \in CallerRecords /\ Idle.phase = "idle" /\ Idle.token = None
    BY IdleRecord
  <1>2. TypeOK'
    BY <1>0, <1>1, KeptPermits DEF TypeOK
  <1>3. TokensHeld'
    BY <1>0, <1>1, CapacityAssumption DEF Inv, TokensHeld
  <1>4. LockHeld'
    BY <1>0, <1>1 DEF Inv, LockHeld, In
  <1>5. PermitsCounted'
    BY <1>0, KeptPermits, PermitsGo DEF Stored
  <1> QED
    BY <1>0, <1>2, <1>3, <1>4, <1>5 DEF Inv, BucketsInOrder, BudgetHolds, Hushed

\* A call goes on, ends or is given up with its caller: the database is not
\* touched.
LEMMA CallStep ==
    ASSUME Inv, NEW c \in Callers,
           \/ Trickle(c)
           \/ \E cooldown \in Cooldowns \cup {0} : End(c, cooldown)
           \/ Die(c)
    PROVE  Inv'
  <1>0. /\ TypeOK
        /\ callers \in [Callers -> CallerRecords]
        /\ UNCHANGED <<clock, setbacks, window_id, used, next_probe, permits,
                       log, quiet>>
    BY DEF Inv, TypeOK, Trickle, End, Die
  <1> DEFINE Becomes(r) ==
        /\ callers' = [callers EXCEPT ![c] = r]
        /\ r.phase # "asking"
        /\ \/ r.token = None /\ r.phase = "idle"
           \/ r.token = callers[c].token /\ callers[c].token \in Tokens
  <1>1. \E r \in CallerRecords : Becomes(r)
    <2>1. CASE Trickle(c)
      <3> DEFINE r == [callers[c] EXCEPT !.silence = 0, !.reads = @ + 1]
      <3>1. callers[c].reads + 1 \in 0 .. MaxReads /\ 0 \in 0 .. ClientTimeout
        BY <1>0, <2>1, CapacityAssumption DEF Trickle, CallerRecords
      <3>2. r \in CallerRecords
        BY <1>0, <3>1 DEF CallerRecords
      <3>3. callers' = [callers EXCEPT ![c] = r]
        BY <1>0, <2>1 DEF Trickle, CallerRecords
      <3>4. r.phase = "calling" /\ r.token = callers[c].token
        BY <1>0, <2>1 DEF Trickle, CallerRecords
      <3>5. callers[c].token \in Tokens
        BY <2>1 DEF Trickle, Inv, TokensHeld
      <3>6. Becomes(r)
        BY <3>3, <3>4, <3>5
      <3> QED
        BY <3>2, <3>6
    <2>2. ASSUME NEW cooldown \in Cooldowns \cup {0}, End(c, cooldown)
          PROVE  \E r \in CallerRecords : Becomes(r)
      <3> DEFINE r == [callers[c] EXCEPT !.phase = "releasing",
                                         !.cooldown = cooldown]
      <3>1. r \in CallerRecords
        BY <1>0 DEF CallerRecords, Phases
      <3>2. callers' = [callers EXCEPT ![c] = r]
        BY <1>0, <2>2 DEF End, CallerRecords
      <3>3. r.phase = "releasing" /\ r.token = callers[c].token
        BY <1>0 DEF CallerRecords
      <3>4. callers[c].token \in Tokens
        BY <2>2 DEF End, Inv, TokensHeld
      <3>5. Becomes(r)
        BY <3>2, <3>3, <3>4
      <3> QED
        BY <3>1, <3>5
    <2>3. CASE Die(c)
      <3>1. Becomes(Idle)
        BY <2>3, IdleRecord DEF Die
      <3> QED
        BY <3>1, IdleRecord
    <2> QED
      BY <2>1, <2>2, <2>3
  <1>2. PICK r \in CallerRecords : Becomes(r)
    BY <1>1
  <1>3. TypeOK'
    BY <1>0, <1>2 DEF TypeOK
  <1>4. TokensHeld'
    BY <1>0, <1>2, CapacityAssumption DEF Inv, TokensHeld
  <1>5. LockHeld'
    BY <1>0, <1>2 DEF Inv, LockHeld, In
  <1> QED
    BY <1>0, <1>3, <1>4, <1>5
       DEF Inv, BucketsInOrder, BudgetHolds, Hushed, PermitsCounted, Stored

LEMMA ReleaseStep ==
    ASSUME Inv, NEW c \in Callers, Release(c)
    PROVE  Inv'
  <1> DEFINE cooldown == callers[c].cooldown
  <1>0. /\ TypeOK
        /\ callers \in [Callers -> CallerRecords]
        /\ callers[c].phase = "releasing"
        /\ callers[c].token \in Tokens
        /\ callers' = [callers EXCEPT ![c] = Idle]
        /\ permits' = [permits EXCEPT ![callers[c].token] = None]
        /\ next_probe' = Probe(cooldown)
        /\ quiet' = Later(quiet, cooldown)
        /\ UNCHANGED <<clock, setbacks, window_id, used, log>>
        /\ cooldown > 0 => Unlocked
    BY DEF Inv, TypeOK, Release, TokensHeld
  <1>1. Idle \in CallerRecords /\ Idle.phase = "idle" /\ Idle.token = None
    BY IdleRecord
  <1>2. next_probe' \in Nat /\ quiet' \in Nat
    BY <1>0, Numbers DEF Probe, Later
  <1>3. TypeOK'
    BY <1>0, <1>1, <1>2 DEF TypeOK
  <1>4. TokensHeld'
    BY <1>0, <1>1, CapacityAssumption DEF Inv, TokensHeld
  <1>5. LockHeld'
    <2>1. In("asking")' \subseteq In("asking")
      BY <1>0, <1>1 DEF In
    <2>2. CASE cooldown > 0
      BY <1>0, <2>1, <2>2 DEF Unlocked, LockHeld
    <2>3. CASE ~(cooldown > 0)
      <3>1. quiet' = quiet
        BY <1>0, <2>3, Numbers DEF Later
      <3>2. \A d \in In("asking")' : callers'[d] = callers[d]
        BY <1>0, <1>1 DEF In
      <3> QED
        BY <1>0, <2>1, <3>1, <3>2 DEF Inv, LockHeld
    <2> QED
      BY <2>2, <2>3
  <1>6. Hushed'
    BY <1>0, Numbers DEF Inv, Hushed, Probe, Later
  <1>7. PermitsCounted'
    BY <1>0, PermitsGo DEF Stored, TypeOK
  <1> QED
    BY <1>0, <1>3, <1>4, <1>5, <1>6, <1>7 DEF Inv, BucketsInOrder, BudgetHolds

LEMMA TickStep ==
    ASSUME Inv, Tick
    PROVE  Inv'
  <1>0. /\ TypeOK
        /\ clock' = clock + 1
        /\ quiet' = IF quiet > 0 THEN quiet - 1 ELSE 0
        /\ callers' = [c \in Callers |->
               IF callers[c].phase = "calling"
               THEN [callers[c] EXCEPT !.silence = @ + 1]
               ELSE callers[c]]
        /\ UNCHANGED <<setbacks, window_id, used, next_probe, permits, log>>
    BY DEF Inv, Tick
  <1>1. clock' \in Clock /\ quiet' \in Nat
    BY <1>0, CapacityAssumption DEF Tick, TypeOK, Clock
  <1>2. ASSUME NEW c \in Callers
        PROVE  /\ callers'[c] \in CallerRecords
               /\ callers'[c].phase = callers[c].phase
               /\ callers'[c].token = callers[c].token
               /\ callers'[c].now = callers[c].now
               /\ callers'[c].eligible = callers[c].eligible
    <2>1. callers[c] \in CallerRecords
      BY <1>0 DEF TypeOK
    <2>2. CASE callers[c].phase = "calling"
      <3>1. callers[c].silence < ClientTimeout
        BY <2>2 DEF Tick, In
      <3>2. callers[c].silence + 1 \in 0 .. ClientTimeout
        BY <2>1, <3>1, CapacityAssumption DEF CallerRecords
      <3>3. callers'[c] = [callers[c] EXCEPT !.silence = @ + 1]
        BY <1>0, <2>2
      <3> QED
        BY <2>1, <3>2, <3>3 DEF CallerRecords
    <2>3. CASE callers[c].phase # "calling"
      BY <1>0, <2>1, <2>3
    <2> QED
      BY <2>2, <2>3
  <1>3. TypeOK'
    <2>1. callers' \in [Callers -> CallerRecords]
      BY <1>0, <1>2
    <2> QED
      BY <1>0, <1>1, <2>1 DEF TypeOK
  <1>4. TokensHeld'
    BY <1>0, <1>2 DEF Inv, TokensHeld
  <1>5. In("asking")' = In("asking")
    BY <1>2 DEF In
  <1>6. quiet = 0 => quiet' = 0
    BY <1>0
  <1>7. LockHeld'
    BY <1>0, <1>2, <1>5, <1>6 DEF Inv, LockHeld, In
  <1>8. Hushed'
    BY <1>0, Numbers DEF Inv, Hushed
  <1> QED
    BY <1>0, <1>3, <1>4, <1>7, <1>8
       DEF Inv, BucketsInOrder, BudgetHolds, PermitsCounted, Stored

LEMMA SetBackStep ==
    ASSUME Inv, SetBack
    PROVE  Inv'
  <1>0. /\ TypeOK
        /\ clock' = clock - 1
        /\ UNCHANGED <<window_id, used, next_probe, permits, log, callers, quiet>>
    BY DEF Inv, SetBack
  <1>1. TypeOK'
    BY <1>0, CapacityAssumption DEF SetBack, TypeOK, Clock
  <1>2. Hushed'
    BY <1>0, Numbers DEF Inv, Hushed
  <1>3. TokensHeld' /\ LockHeld'
    BY <1>0 DEF Inv, TokensHeld, LockHeld, In
  <1> QED
    BY <1>0, <1>1, <1>2, <1>3
       DEF Inv, BucketsInOrder, BudgetHolds, PermitsCounted, Stored

LEMMA StutterStep ==
    ASSUME Inv, UNCHANGED vars
    PROVE  Inv'
  <1>1. TypeOK' /\ TokensHeld' /\ LockHeld'
    BY DEF Inv, vars, TypeOK, TokensHeld, LockHeld, In
  <1> QED
    BY <1>1
       DEF Inv, vars, BucketsInOrder, BudgetHolds, Hushed, PermitsCounted, Stored

\* Permits, buckets and cooldowns stay accounted for through every
\* interleaving of acquire and release, deaths of clients and set-back clocks.
THEOREM Invariance == Spec => []Inv
  <1>1. Init => Inv
    BY InitInv
  <1>2. Inv /\ [Next]_vars => Inv'
    BY AskStep, GrantStep, RefuseStep, CallStep, ReleaseStep, TickStep,
       SetBackStep, StutterStep DEF Next, Acquire, Call
  <1> QED
    BY <1>1, <1>2, PTL DEF Spec

\* Rows and memories keep the shape of capacity.sql and capacity.Client.
THEOREM TypeCorrect == Spec => []TypeOK
  <1>1. Inv => TypeOK
    BY DEF Inv
  <1> QED
    BY <1>1, Invariance, PTL

\* A bucket is never overdrawn, nor its last request given to a dispatch, even
\* if the clock runs through it twice (capacity.acquire).
THEOREM BudgetIsKept == Spec => []BudgetHolds
  <1>1. Inv => BudgetHolds
    BY DEF Inv
  <1> QED
    BY <1>1, Invariance, PTL

-----------------------------------------------------------------------------
(***************************************************************************)
(* Cooldowns.                                                              *)
(***************************************************************************)

\* No permit is issued before the cooldown of every recorded failure has
\* elapsed (capacity.release and acquire).
THEOREM CooldownIsKept == Spec => CooldownHolds
  <1>1. ASSUME Inv, [Next]_vars, log' # log
        PROVE  quiet = 0
    <2>1. PICK c \in Callers, t \in Tokens : Grant(c, t)
      BY <1>1 DEF Next, Acquire, Call, Ask, Refuse, Trickle, End, Release, Die,
         Tick, SetBack, vars
    <2>2. callers[c].phase = "asking" /\ callers[c].eligible
      BY <2>1 DEF Grant, Grantable
    <2> QED
      BY <1>1, <2>2 DEF Inv, LockHeld, In
  <1>2. Inv /\ [Next]_vars => [log' # log => quiet = 0]_vars
    BY <1>1
  <1> QED
    BY <1>2, Invariance, PTL DEF Spec, CooldownHolds

-----------------------------------------------------------------------------
(***************************************************************************)
(* Concurrency, for patient permits.                                       *)
(***************************************************************************)

\* A permit outlives the longest call: every read of the response may take as
\* long as the client endures silence.
Patient == PermitLife > (MaxReads + 1) * ClientTimeout

\* Elapsed seconds of a call, at most.
Elapsed(c) == callers[c].reads * ClientTimeout + callers[c].silence

\* The permit of a call under way is stored and has not expired.
Covered ==
    \A c \in In("calling") :
        /\ permits[callers[c].token] # None
        /\ permits[callers[c].token] + Elapsed(c) >= clock + PermitLife

\* The arithmetic of elapsed time.
LEMMA Product ==
    ASSUME NEW a \in Nat, NEW b \in Nat
    PROVE  /\ a * b \in Nat
           /\ (a + 1) * b = a * b + b
           /\ \A n \in Nat : a <= n => a * b <= n * b
  <1>1. a * b \in Nat /\ (a + 1) * b = a * b + b
    OBVIOUS
  <1>2. ASSUME NEW n \in Nat, a <= n
        PROVE  a * b <= n * b
    <2>1. n - a \in Nat /\ (n - a) * b \in Nat
      BY <1>2
    <2>2. n * b = a * b + (n - a) * b
      BY <1>2
    <2> QED
      BY <1>1, <2>1, <2>2
  <1> QED
    BY <1>1, <1>2

\* Permits of calls under way are not deleted as expired.
LEMMA CoveredIsLive ==
    ASSUME Patient, Inv, Covered, NEW c \in In("calling")
    PROVE  /\ callers[c].token \in Live
           /\ permits[callers[c].token] \in Nat
  <1> DEFINE p == permits[callers[c].token]
  <1>1. c \in Callers /\ callers[c].token \in Tokens
    BY DEF Inv, TokensHeld, In
  <1>2. p \in Nat /\ p + Elapsed(c) >= clock + PermitLife
    BY <1>1 DEF Covered, Inv, TypeOK
  <1>3. /\ callers[c].reads \in Nat /\ callers[c].reads <= MaxReads
        /\ callers[c].silence \in Nat /\ callers[c].silence <= ClientTimeout
    <2>1. callers[c] \in CallerRecords
      BY <1>1 DEF Inv, TypeOK
    <2> QED
      BY <2>1, CapacityAssumption DEF CallerRecords
  <1>4. callers[c].reads * ClientTimeout <= MaxReads * ClientTimeout
    BY <1>3, Product, CapacityAssumption
  <1>5. (MaxReads + 1) * ClientTimeout = MaxReads * ClientTimeout + ClientTimeout
    BY Product, CapacityAssumption
  <1>6. /\ callers[c].reads * ClientTimeout \in Nat
        /\ MaxReads * ClientTimeout \in Nat
    BY <1>3, Product, CapacityAssumption
  <1>7. Elapsed(c) < PermitLife /\ Elapsed(c) \in Nat
    BY <1>3, <1>4, <1>5, <1>6, CapacityAssumption DEF Patient, Elapsed
  <1>8. p > clock
    <2>1. clock \in Nat
      BY Numbers DEF Inv
    <2> HIDE DEF p
    <2> QED
      BY <1>2, <1>7, <2>1, CapacityAssumption
  <1> QED
    BY <1>1, <1>2, <1>8, CapacityAssumption DEF Live, Covered

LEMMA CoveredStep ==
    ASSUME Patient, Inv, Covered, [Next]_vars
    PROVE  Covered'
  <1>0. TypeOK /\ callers \in [Callers -> CallerRecords] /\ clock \in Nat
        /\ permits \in [Tokens -> Nat \cup {None}]
        /\ ClientTimeout \in Nat /\ PermitLife \in Nat
    BY Numbers, CapacityAssumption DEF Inv, TypeOK
  <1> SUFFICES ASSUME NEW c \in In("calling")'
               PROVE  /\ permits'[callers'[c].token] # None
                      /\ permits'[callers'[c].token] + Elapsed(c)'
                             >= clock' + PermitLife
    BY DEF Covered
  <1>1. c \in Callers /\ callers'[c].phase = "calling"
    BY DEF In
  <1> DEFINE Same == /\ c \in In("calling")
                     /\ callers'[c] = callers[c]
                     /\ permits'[callers[c].token] = permits[callers[c].token]
                     /\ clock' <= clock /\ clock' \in Nat
  <1>2. ASSUME Same
        PROVE  /\ permits'[callers'[c].token] # None
               /\ permits'[callers'[c].token] + Elapsed(c)'
                      >= clock' + PermitLife
    <2>1. /\ permits[callers[c].token] # None
          /\ permits[callers[c].token] + Elapsed(c) >= clock + PermitLife
          /\ permits[callers[c].token] \in Nat
      BY <1>2, CoveredIsLive DEF Covered
    <2>2. Elapsed(c)' = Elapsed(c) /\ Elapsed(c) \in Nat
      BY <1>0, <1>1, <1>2, Numbers, Product DEF Elapsed
    <2> QED
      BY <1>0, <1>2, <2>1, <2>2
  <1>3. ASSUME NEW d \in Callers,
               \/ \E kind \in Kinds : Ask(d, kind)
               \/ \E cooldown \in Cooldowns \cup {0} : End(d, cooldown)
               \/ Die(d)
        PROVE  Same
    <2>1. clock' = clock /\ permits' = permits
      BY <1>3 DEF Ask, End, Die
    <2>2. callers'[d].phase # "calling"
      <3>1. ASSUME NEW kind \in Kinds, Ask(d, kind)
            PROVE  callers'[d].phase = "asking"
        BY <1>0, <3>1 DEF Ask, Idle
      <3>2. ASSUME NEW cooldown \in Cooldowns \cup {0}, End(d, cooldown)
            PROVE  callers'[d].phase = "releasing"
        BY <1>0, <3>2 DEF End, CallerRecords
      <3>3. CASE Die(d)
        BY <1>0, <3>3, IdleRecord DEF Die
      <3> QED
        BY <1>3, <3>1, <3>2, <3>3
    <2>3. c # d
      BY <1>1, <2>2
    <2>4. callers'[c] = callers[c]
      BY <1>0, <1>1, <1>3, <2>3 DEF Ask, End, Die
    <2> QED
      BY <1>0, <1>1, <2>1, <2>4 DEF In
  <1>4. ASSUME NEW d \in Callers, NEW t \in Tokens, Grant(d, t)
        PROVE  /\ permits'[callers'[c].token] # None
               /\ permits'[callers'[c].token] + Elapsed(c)'
                      >= clock' + PermitLife
    <2>1. /\ permits' = [Kept EXCEPT ![t] = clock + PermitLife]
          /\ clock' = clock
          /\ Kept \in [Tokens -> Nat \cup {None}]
          /\ clock + PermitLife \in Nat
      BY <1>0, <1>4, KeptPermits DEF Grant
    <2>2. CASE c = d
      <3>1. /\ callers'[c].token = t
            /\ callers'[c].reads = 0 /\ callers'[c].silence = 0
        BY <1>0, <1>1, <1>4, <2>2 DEF Grant, Idle
      <3>2. permits'[t] = clock + PermitLife
        BY <2>1
      <3>3. Elapsed(c)' = 0
        BY <1>0, <3>1 DEF Elapsed
      <3> QED
        BY <1>0, <2>1, <3>1, <3>2, <3>3, CapacityAssumption
    <2>3. CASE c # d
      <3>1. callers'[c] = callers[c] /\ c \in In("calling")
        BY <1>0, <1>1, <1>4, <2>3 DEF Grant, In
      <3>2. callers[c].token # t
        BY <1>1, <1>4 DEF Grant
      <3>3. callers[c].token \in Live
        BY <3>1, CoveredIsLive
      <3>4. permits'[callers[c].token] = permits[callers[c].token]
        BY <1>0, <2>1, <3>2, <3>3, KeptPermits DEF Live
      <3> QED
        BY <1>0, <1>2, <2>1, <3>1, <3>4
    <2> QED
      BY <2>2, <2>3
  <1>5. ASSUME NEW d \in Callers, Refuse(d)
        PROVE  Same
    <2>1. /\ callers' = [callers EXCEPT ![d] = Idle]
          /\ permits' = Kept /\ clock' = clock
      BY <1>5 DEF Refuse
    <2>2. c # d /\ callers'[c] = callers[c]
      BY <1>0, <1>1, <2>1, IdleRecord
    <2>3. c \in In("calling")
      BY <1>1, <2>2 DEF In
    <2> QED
      BY <1>0, <2>1, <2>2, <2>3, CoveredIsLive, KeptPermits
  <1>6. ASSUME NEW d \in Callers, Trickle(d)
        PROVE  /\ permits'[callers'[c].token] # None
               /\ permits'[callers'[c].token] + Elapsed(c)'
                      >= clock' + PermitLife
    <2>1. permits' = permits /\ clock' = clock
      BY <1>6 DEF Trickle
    <2>2. CASE c # d
      <3>1. callers'[c] = callers[c] /\ c \in In("calling")
        BY <1>0, <1>1, <1>6, <2>2 DEF Trickle, In
      <3> QED
        BY <1>0, <1>2, <2>1, <3>1
    <2>3. CASE c = d
      <3>1. /\ callers'[c].token = callers[c].token
            /\ callers'[c].reads = callers[c].reads + 1
            /\ callers'[c].silence = 0
            /\ c \in In("calling")
        BY <1>0, <1>1, <1>6, <2>3 DEF Trickle, In, CallerRecords
      <3>2. /\ permits[callers[c].token] # None
            /\ permits[callers[c].token] + Elapsed(c) >= clock + PermitLife
            /\ permits[callers[c].token] \in Nat
        BY <3>1, CoveredIsLive DEF Covered
      <3>3. /\ callers[c].silence <= ClientTimeout
            /\ callers[c].silence \in Nat /\ callers[c].reads \in Nat
        <4>1. callers[c] \in CallerRecords
          BY <1>0, <1>1
        <4> QED
          BY <4>1, CapacityAssumption DEF CallerRecords
      <3>4. /\ (callers[c].reads + 1) * ClientTimeout =
                   callers[c].reads * ClientTimeout + ClientTimeout
            /\ callers[c].reads * ClientTimeout \in Nat
        BY <1>0, <3>3, Product
      <3>5. Elapsed(c)' >= Elapsed(c) /\ Elapsed(c) \in Nat /\ Elapsed(c)' \in Nat
        BY <1>0, <3>1, <3>3, <3>4 DEF Elapsed
      <3> QED
        BY <1>0, <2>1, <3>1, <3>2, <3>5
    <2> QED
      BY <2>2, <2>3
  <1>7. ASSUME NEW d \in Callers, Release(d)
        PROVE  Same
    <2>1. /\ callers' = [callers EXCEPT ![d] = Idle]
          /\ permits' = [permits EXCEPT ![callers[d].token] = None]
          /\ clock' = clock
          /\ callers[d].phase = "releasing"
      BY <1>7 DEF Release
    <2>2. c # d /\ callers'[c] = callers[c]
      BY <1>0, <1>1, <2>1, IdleRecord
    <2>3. c \in In("calling") /\ callers[c].token \in Tokens
      BY <1>1, <2>2 DEF In, Inv, TokensHeld
    <2>4. callers[c].token # callers[d].token
      BY <1>1, <2>2, <2>3 DEF Inv, TokensHeld
    <2> QED
      BY <1>0, <2>1, <2>2, <2>3, <2>4
  <1>8. ASSUME Tick
        PROVE  /\ permits'[callers'[c].token] # None
               /\ permits'[callers'[c].token] + Elapsed(c)'
                      >= clock' + PermitLife
    <2>1. permits' = permits /\ clock' = clock + 1
      BY <1>8 DEF Tick
    <2>2. /\ callers'[c].token = callers[c].token
          /\ callers'[c].reads = callers[c].reads
          /\ callers'[c].silence = callers[c].silence + 1
          /\ c \in In("calling")
      <3>1. callers[c] \in CallerRecords
        BY <1>0, <1>1
      <3>2. callers[c].phase = "calling"
        BY <1>1, <1>8, <3>1 DEF Tick, CallerRecords
      <3>3. callers'[c] = [callers[c] EXCEPT !.silence = @ + 1]
        BY <1>1, <1>8, <3>2 DEF Tick
      <3> QED
        BY <1>1, <3>1, <3>2, <3>3 DEF CallerRecords, In
    <2>3. /\ permits[callers[c].token] # None
          /\ permits[callers[c].token] + Elapsed(c) >= clock + PermitLife
          /\ permits[callers[c].token] \in Nat
      BY <2>2, CoveredIsLive DEF Covered
    <2>4. callers[c].silence \in Nat /\ callers[c].reads * ClientTimeout \in Nat
      BY <1>0, <1>1, Numbers, Product
    <2>5. Elapsed(c)' = Elapsed(c) + 1 /\ Elapsed(c) \in Nat
      BY <2>2, <2>4 DEF Elapsed
    <2> QED
      BY <1>0, <2>1, <2>2, <2>3, <2>5
  <1>9. ASSUME SetBack
        PROVE  Same
    BY <1>0, <1>1, <1>9 DEF SetBack, In
  <1>10. ASSUME UNCHANGED vars
         PROVE  Same
    BY <1>0, <1>1, <1>10 DEF vars, In
  <1> QED
    BY <1>2, <1>3, <1>4, <1>5, <1>6, <1>7, <1>8, <1>9, <1>10
       DEF Next, Acquire, Call

LEMMA CoveredBound ==
    ASSUME Patient, Inv, Covered
    PROVE  ConcurrencyHolds
  <1> DEFINE f == [c \in In("calling") |-> callers[c].token]
  <1>1. /\ IsFiniteSet(Stored) /\ IsFiniteSet(In("calling"))
    BY CapacityFiniteness, FS_Subset DEF Stored, In
  <1>2. f \in Injection(In("calling"), Stored)
    <2>1. \A c \in In("calling") : callers[c].token \in Stored
      BY CoveredIsLive, KeptPermits DEF Inv
    <2>2. \A c, d \in In("calling") :
              callers[c].token = callers[d].token => c = d
      BY DEF Inv, TokensHeld, In
    <2> QED
      BY <2>1, <2>2 DEF Injection, IsInjective
  <1>3. Cardinality(In("calling")) <= Cardinality(Stored)
    BY <1>1, <1>2, FS_Injection DEF ExistsInjection
  <1>4. Cardinality(In("calling")) \in Nat /\ Cardinality(Stored) \in Nat
    BY <1>1, FS_CardinalityType
  <1> QED
    BY <1>3, <1>4, CapacityAssumption DEF Inv, PermitsCounted, ConcurrencyHolds

\* If a permit outlives the longest call, no more calls are under way than the
\* destination allows, through deaths of clients and set-back clocks
\* (capacity.acquire and Client.request).
THEOREM ConcurrencyIsBounded ==
    ASSUME Patient
    PROVE  Spec => []ConcurrencyHolds
  <1>1. Init => Covered
    BY DEF Init, Covered, In, Idle
  <1>2. Inv /\ Covered /\ [Next]_vars => Covered'
    BY CoveredStep
  <1>3. Inv /\ Covered => ConcurrencyHolds
    BY CoveredBound
  <1> QED
    BY <1>1, <1>2, <1>3, Invariance, PTL DEF Spec

=============================================================================
