------------------------------ MODULE Capacity ------------------------------
(***************************************************************************)
(* The request permits of one destination (capacity.py, capacity.sql).     *)
(*                                                                         *)
(* Every call to a destination, receipt lookup or dispatch, needs a permit *)
(* of its own.  acquire decides under the row lock of the destination's    *)
(* capacity_state, in two statements between which time may pass: the one  *)
(* that takes the lock also reads the clock.  A permit bounds the client's *)
(* side of a call: it expires, so that a client that died gives it back.   *)
(*                                                                         *)
(* The clock is the database server's, in whole seconds; it may be set     *)
(* back.  Silences and cooldowns are elapsed seconds, which it does not    *)
(* rule.                                                                   *)
(***************************************************************************)
EXTENDS Integers, FiniteSets

CONSTANTS
    Callers,        \* worker connections that call the destination
    Tokens,         \* permit ids
    None,           \* no permit
    Rps,            \* destinations.requests_per_second
    Concurrency,    \* destinations.concurrency
    PermitLife,     \* seconds a permit lives (30 in the code)
    ClientTimeout,  \* seconds of silence a client endures (at most 5)
    Cooldowns,      \* seconds a failed call may ask for (2, or Retry-After)
    MaxReads,       \* bound: times a response may break its own silence
    MaxClock,       \* bound: the clock
    MaxSetBacks     \* bound: times the clock is set back

\* capacity.sql, CHECK constraints; worker.execute's check of the timeout.
ASSUME CapacityAssumption ==
    /\ Rps \in Nat /\ Rps >= 2
    /\ Concurrency \in Nat /\ Concurrency >= 1
    /\ PermitLife \in Nat
    /\ ClientTimeout \in Nat /\ ClientTimeout >= 1
    /\ Cooldowns \subseteq Nat \ {0}
    /\ MaxReads \in Nat
    /\ MaxClock \in Nat /\ MaxClock >= 1
    /\ MaxSetBacks \in Nat
    /\ None \notin Tokens
    /\ None \notin Int

ASSUME CapacityFiniteness == IsFiniteSet(Callers) /\ IsFiniteSet(Tokens)

VARIABLES
    clock,      \* clock_timestamp() of the database server
    setbacks,   \* counts the times it was set back
    window_id,  \* capacity_state.window_id: the last bucket drawn from
    used,       \* capacity_state.used: what was drawn from it
    next_probe, \* capacity_state.next_probe: end of the cooldown
    permits,    \* request_permits: token -> expires
    log,        \* capacity_requests: rows per bucket and kind
    callers,    \* what each caller is doing
    quiet       \* auxiliary: elapsed seconds a failed call still asks for

vars == <<clock, setbacks, window_id, used, next_probe, permits, log, callers,
          quiet>>

-----------------------------------------------------------------------------
Kinds == {"dispatch", "receipt"}

Clock == 1 .. MaxClock

\* The default 0 of window_id is a bucket before all others.
Windows == 0 .. MaxClock

\* idle; asking, with the row lock and what the locking SELECT read; calling;
\* releasing, with the cooldown of a failed call, 0 for one that succeeded.
Phases == {"idle", "asking", "calling", "releasing"}

CallerRecords ==
    [phase: Phases, kind: Kinds, token: Tokens \cup {None}, now: Windows,
     eligible: BOOLEAN, reads: 0 .. MaxReads, silence: 0 .. ClientTimeout,
     cooldown: Cooldowns \cup {0}]

Idle == [phase |-> "idle", kind |-> "receipt", token |-> None, now |-> 0,
         eligible |-> FALSE, reads |-> 0, silence |-> 0, cooldown |-> 0]

In(phase) == {c \in Callers : callers[c].phase = phase}

\* Rows and memories have the shape of capacity.sql and capacity.Client.
TypeOK ==
    /\ clock \in Clock
    /\ setbacks \in 0 .. MaxSetBacks
    /\ window_id \in Windows
    /\ used \in 0 .. Rps
    /\ next_probe \in Nat
    /\ permits \in [Tokens -> Nat \cup {None}]
    /\ log \in [Windows -> [Kinds -> 0 .. Rps]]
    /\ callers \in [Callers -> CallerRecords]
    /\ quiet \in Nat

Init ==
    /\ clock = 1
    /\ setbacks = 0
    /\ window_id = 0
    /\ used = 0
    /\ next_probe = 0
    /\ permits = [t \in Tokens |-> None]
    /\ log = [w \in Windows |-> [kind \in Kinds |-> 0]]
    /\ callers = [c \in Callers |-> Idle]
    /\ quiet = 0

-----------------------------------------------------------------------------
Later(a, b) == IF a >= b THEN a ELSE b

\* No transaction holds the row of capacity_state.
Unlocked == In("asking") = {}

\* Mutant of CurrentWindow: the bucket of the clock, whatever was drawn before.
CurrentWindowOfClock == clock

\* A bucket that lies ahead of the clock stays the current one.
CurrentWindow == Later(clock, window_id)

\* acquire, up to its locking SELECT.
Ask(c, kind) ==
    /\ callers[c] = Idle
    /\ Unlocked
    /\ callers' = [callers EXCEPT ![c] =
           [Idle EXCEPT !.phase = "asking", !.kind = kind,
                        !.now = CurrentWindow,
                        !.eligible = next_probe <= clock]]
    /\ UNCHANGED <<clock, setbacks, window_id, used, next_probe, permits, log,
                   quiet>>

\* Mutant of Live: a permit is forgotten in its last second.
LiveButLast == {t \in Tokens : permits[t] # None /\ permits[t] > clock + 1}

\* Permits that acquire does not delete as expired.
Live == {t \in Tokens : permits[t] # None /\ permits[t] > clock}

\* Mutant of Drawn: used restarts with every request.
DrawnNothing(c) == 0

\* What the bucket chosen by c has given away.
Drawn(c) == IF window_id = callers[c].now THEN used ELSE 0

\* One request a second is reserved for receipt lookup.
Limit(kind) == IF kind = "dispatch" THEN Rps - 1 ELSE Rps

Grantable(c) ==
    /\ callers[c].eligible
    /\ Drawn(c) < Limit(callers[c].kind)
    /\ Cardinality(Live) < Concurrency

Kept == [t \in Tokens |-> IF t \in Live THEN permits[t] ELSE None]

\* acquire commits a permit and the call begins.  uuid4 never repeats: a token
\* in nobody's hands stands for a new one.
Grant(c, t) ==
    /\ callers[c].phase = "asking"
    /\ Grantable(c)
    /\ permits[t] = None
    /\ \A d \in Callers : callers[d].token # t
    /\ permits' = [Kept EXCEPT ![t] = clock + PermitLife]
    /\ log' = [log EXCEPT ![callers[c].now][callers[c].kind] = @ + 1]
    /\ window_id' = callers[c].now
    /\ used' = Drawn(c) + 1
    /\ callers' = [callers EXCEPT ![c] =
           [Idle EXCEPT !.phase = "calling", !.kind = callers[c].kind,
                        !.token = t]]
    /\ UNCHANGED <<clock, setbacks, next_probe, quiet>>

\* acquire returns None and the caller raises Deferred; expired permits go.
Refuse(c) ==
    /\ callers[c].phase = "asking"
    /\ ~Grantable(c)
    /\ permits' = Kept
    /\ callers' = [callers EXCEPT ![c] = Idle]
    /\ UNCHANGED <<clock, setbacks, window_id, used, next_probe, log, quiet>>

\* A part of the response arrives in time: the client's timeout, which is one
\* of silence, starts anew.
Trickle(c) ==
    /\ callers[c].phase = "calling"
    /\ callers[c].reads < MaxReads
    /\ callers' = [callers EXCEPT ![c].silence = 0, ![c].reads = @ + 1]
    /\ UNCHANGED <<clock, setbacks, window_id, used, next_probe, permits, log,
                   quiet>>

\* The call ends: with a response, or with a TransportError, of which a
\* timeout is one.
End(c, cooldown) ==
    /\ callers[c].phase = "calling"
    /\ callers' = [callers EXCEPT ![c].phase = "releasing",
                                  ![c].cooldown = cooldown]
    /\ UNCHANGED <<clock, setbacks, window_id, used, next_probe, permits, log,
                   quiet>>

\* Mutant of Probe: the last failure decides.
ProbeLast(cooldown) == IF cooldown > 0 THEN clock + cooldown ELSE next_probe

\* The end of the cooldown after a call that asked for cooldown seconds.
Probe(cooldown) ==
    IF cooldown > 0 THEN Later(next_probe, clock + cooldown) ELSE next_probe

\* release: a failed call needs the row lock.
Release(c) ==
    LET cooldown == callers[c].cooldown
    IN  /\ callers[c].phase = "releasing"
        /\ cooldown > 0 => Unlocked
        /\ permits' = [permits EXCEPT ![callers[c].token] = None]
        /\ next_probe' = Probe(cooldown)
        /\ quiet' = Later(quiet, cooldown)
        /\ callers' = [callers EXCEPT ![c] = Idle]
        /\ UNCHANGED <<clock, setbacks, window_id, used, log>>

\* The process dies, or its connection to the database fails, anywhere: an
\* open transaction rolls back, a permit stays.
Die(c) ==
    /\ callers[c] # Idle
    /\ callers' = [callers EXCEPT ![c] = Idle]
    /\ UNCHANGED <<clock, setbacks, window_id, used, next_probe, permits, log,
                   quiet>>

\* A second passes.  No client endures more silence than its timeout.
Tick ==
    /\ clock < MaxClock
    /\ \A c \in In("calling") : callers[c].silence < ClientTimeout
    /\ clock' = clock + 1
    /\ callers' = [c \in Callers |->
           IF callers[c].phase = "calling"
           THEN [callers[c] EXCEPT !.silence = @ + 1]
           ELSE callers[c]]
    /\ quiet' = IF quiet > 0 THEN quiet - 1 ELSE 0
    /\ UNCHANGED <<setbacks, window_id, used, next_probe, permits, log>>

\* The clock of the database server is set back.
SetBack ==
    /\ setbacks < MaxSetBacks
    /\ clock > 1
    /\ setbacks' = setbacks + 1
    /\ clock' = clock - 1
    /\ UNCHANGED <<window_id, used, next_probe, permits, log, callers, quiet>>

-----------------------------------------------------------------------------
Acquire ==
    \E c \in Callers :
        \/ \E kind \in Kinds : Ask(c, kind)
        \/ \E t \in Tokens : Grant(c, t)
        \/ Refuse(c)

Call ==
    \E c \in Callers :
        \/ Trickle(c)
        \/ \E cooldown \in Cooldowns \cup {0} : End(c, cooldown)
        \/ Release(c)
        \/ Die(c)

Next == Acquire \/ Call \/ Tick \/ SetBack

Spec == Init /\ [][Next]_vars

-----------------------------------------------------------------------------
(***************************************************************************)
(* Properties.                                                             *)
(***************************************************************************)

\* No bucket ever gives away more than the destination's requests per second,
\* nor its last one to a dispatch, even if the clock runs through it twice
\* (acquire, "cannot reopen a previously spent bucket").
BudgetHolds ==
    \A w \in Windows :
        /\ log[w]["dispatch"] + log[w]["receipt"] <= Rps
        /\ log[w]["dispatch"] < Rps

\* No more calls are under way than the destination allows, though permits
\* expire and clients die (acquire, "Permits live for 30 seconds, longer than
\* the enforced client timeout").
ConcurrencyHolds == Cardinality(In("calling")) <= Concurrency

\* No permit is issued before the cooldown of every failed call that has been
\* recorded has elapsed, whatever calls failed after it and however the clock
\* was set back (release, greatest(next_probe, ...)).
CooldownHolds == [][log' # log => quiet = 0]_vars

=============================================================================
