------------------------------- MODULE Locker -------------------------------
(***************************************************************************)
(* MemoryLocker of locker.go: reservations of keys that end by release or  *)
(* by expiry.  Both operations hold the locker's mutex, so each is one     *)
(* step.                                                                   *)
(***************************************************************************)
EXTENDS Integers, FiniteSets

CONSTANTS
    Keys, Callers,
    Ttls,           \* the times callers reserve for
    MinSweep,       \* store size at which TryLock first removes expired keys
    MaxTime         \* bound: the last time considered

ASSUME LockerAssumption ==
    /\ Ttls \subseteq Nat \ {0}
    /\ MinSweep \in Nat \ {0}
    /\ MaxTime \in Nat

VARIABLES
    now,        \* Clock.Now
    held,       \* MemoryLocker.held, a function on the stored keys
    seq, nextSweep,
    reserved    \* per caller, what its release function captured

lockerVars == <<now, held, seq, nextSweep, reserved>>

Nothing == [token |-> 0]

InForce(key) == key \in DOMAIN held /\ now < held[key].until

-----------------------------------------------------------------------------
LInit ==
    /\ now = 0
    /\ held = [k \in {} |-> Nothing] /\ seq = 0 /\ nextSweep = MinSweep
    /\ reserved = [c \in Callers |-> Nothing]

Sweeps == Cardinality(DOMAIN held) >= nextSweep

Unexpired == {key \in DOMAIN held : InForce(key)}

Kept == IF Sweeps THEN Unexpired ELSE DOMAIN held

NextSweep ==
    IF ~Sweeps THEN nextSweep
    ELSE IF 2 * Cardinality(Unexpired) > MinSweep THEN 2 * Cardinality(Unexpired)
    ELSE MinSweep

\* TryLock, when it succeeds.  When it fails it changes nothing.
TryLock(caller, key, ttl) ==
    /\ ~InForce(key)
    /\ seq' = seq + 1
    /\ nextSweep' = NextSweep
    /\ LET lock == [until |-> now + ttl, token |-> seq + 1]
       IN  /\ held' = [k \in Kept \union {key} |-> IF k = key THEN lock ELSE held[k]]
           /\ reserved' = [reserved EXCEPT ![caller] =
                              [token |-> seq + 1, key |-> key, until |-> now + ttl,
                               released |-> FALSE]]
    /\ UNCHANGED now

Owns(r) == r.key \in DOMAIN held /\ held[r.key].token = r.token

ReleaseKey(caller) ==   \* mutant: does not compare the tokens
    LET r == reserved[caller]
    IN  /\ r.token # 0
        /\ held' = [k \in DOMAIN held \ {r.key} |-> held[k]]
        /\ reserved' = [reserved EXCEPT ![caller].released = TRUE]
        /\ UNCHANGED <<now, seq, nextSweep>>

\* The release function, which may be called again, and after the expiry.
Release(caller) ==
    LET r == reserved[caller]
    IN  /\ r.token # 0
        /\ held' = [k \in IF Owns(r) THEN DOMAIN held \ {r.key} ELSE DOMAIN held |->
                       held[k]]
        /\ reserved' = [reserved EXCEPT ![caller].released = TRUE]
        /\ UNCHANGED <<now, seq, nextSweep>>

Tick == now < MaxTime /\ now' = now + 1 /\ UNCHANGED <<held, seq, nextSweep, reserved>>

LNext ==
    \/ Tick
    \/ \E c \in Callers : Release(c)
    \/ \E c \in Callers, key \in Keys, ttl \in Ttls : TryLock(c, key, ttl)

LSpec == LInit /\ [][LNext]_lockerVars

-----------------------------------------------------------------------------
(* Invariants *)

\* Every token was handed out, and no two callers have the same.
TokensUnique ==
    /\ now \in Nat /\ seq \in Nat
    /\ reserved \in [Callers -> {Nothing} \union [token : 1..seq, key : Keys, until : Nat,
                                                 released : BOOLEAN]]
    /\ \A c, d \in Callers : c # d /\ reserved[c].token # 0 =>
                              reserved[c].token # reserved[d].token

\* A reservation that was neither released nor has expired is in the store,
\* whatever other callers reserve, release late or sweep: nobody else can
\* take its key.
ReservationsStand ==
    \A c \in Callers :
        reserved[c].token # 0 /\ ~reserved[c].released /\ now < reserved[c].until =>
        /\ reserved[c].key \in DOMAIN held
        /\ held[reserved[c].key] = [until |-> reserved[c].until, token |-> reserved[c].token]
=============================================================================
