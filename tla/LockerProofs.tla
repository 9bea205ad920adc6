---------------------------- MODULE LockerProofs ----------------------------
(***************************************************************************)
(* A reservation of MemoryLocker that is in force cannot be taken, swept   *)
(* or released by others, for all keys, callers and times.                 *)
(***************************************************************************)
EXTENDS Locker, TLAPS

LockerInv == TokensUnique /\ ReservationsStand

LEMMA LockerInitially == LInit => LockerInv
BY DEF LInit, LockerInv, TokensUnique, ReservationsStand, Nothing

\* What an unexpired reservation says of the store.
LEMMA StandingInForce ==
    ASSUME ReservationsStand, NEW c \in Callers, reserved[c].token # 0,
           ~reserved[c].released, now < reserved[c].until
    PROVE  InForce(reserved[c].key)
<1>1. /\ reserved[c].key \in DOMAIN held
      /\ held[reserved[c].key] = [until |-> reserved[c].until, token |-> reserved[c].token]
    BY DEF ReservationsStand
<1>2. held[reserved[c].key].until = reserved[c].until
    BY <1>1
<1>3. QED
    BY <1>1, <1>2 DEF InForce

LEMMA TryLockKeeps ==
    ASSUME LockerInv, NEW caller \in Callers, NEW key \in Keys, NEW ttl \in Ttls,
           TryLock(caller, key, ttl)
    PROVE  LockerInv'
<1> DEFINE lock == [until |-> now + ttl, token |-> seq + 1]
           claim == [token |-> seq + 1, key |-> key, until |-> now + ttl, released |-> FALSE]
<1>1. /\ held' = [k \in Kept \union {key} |-> IF k = key THEN lock ELSE held[k]]
      /\ reserved' = [reserved EXCEPT ![caller] = claim]
      /\ seq' = seq + 1 /\ now' = now /\ ~InForce(key)
    BY DEF TryLock
<1>2. ttl \in Nat
    BY LockerAssumption
<1>3. TokensUnique'
    <2>1. reserved' \in [Callers -> {Nothing} \union [token : 1..seq', key : Keys, until : Nat,
                                                    released : BOOLEAN]]
        BY <1>1, <1>2, SMTT(30) DEF LockerInv, TokensUnique, Nothing
    <2>2. \A c \in Callers : reserved[c].token \in Nat /\ reserved[c].token # seq + 1
        BY DEF LockerInv, TokensUnique, Nothing
    <2>3. ASSUME NEW c \in Callers, NEW d \in Callers, c # d, reserved'[c].token # 0
          PROVE  reserved'[c].token # reserved'[d].token
        BY <1>1, <2>2, <2>3 DEF LockerInv, TokensUnique
    <2>4. QED
        BY <1>1, <2>1, <2>3 DEF LockerInv, TokensUnique
<1>4. ReservationsStand'
    <2>1. SUFFICES ASSUME NEW c \in Callers, reserved'[c].token # 0,
                          ~reserved'[c].released, now' < reserved'[c].until
                   PROVE  /\ reserved'[c].key \in DOMAIN held'
                          /\ held'[reserved'[c].key] =
                                [until |-> reserved'[c].until, token |-> reserved'[c].token]
        BY DEF ReservationsStand
    <2>2. CASE c = caller
        BY <1>1, <2>2 DEF LockerInv, TokensUnique
    <2>3. CASE c # caller
        <3>1. reserved'[c] = reserved[c]
            BY <1>1, <2>3 DEF LockerInv, TokensUnique
        <3>2. InForce(reserved[c].key)
            BY <1>1, <2>1, <3>1, StandingInForce DEF LockerInv
        <3>3. reserved[c].key # key /\ reserved[c].key \in Kept
            BY <1>1, <3>2 DEF Kept, Unexpired, InForce
        <3>4. /\ reserved[c].key \in DOMAIN held'
              /\ held'[reserved[c].key] = held[reserved[c].key]
            BY <1>1, <3>3
        <3>5. held[reserved[c].key] =
                  [until |-> reserved[c].until, token |-> reserved[c].token]
            BY <1>1, <2>1, <3>1 DEF LockerInv, ReservationsStand
        <3>6. QED
            BY <3>1, <3>4, <3>5
    <2>4. QED
        BY <2>2, <2>3
<1>5. QED
    BY <1>3, <1>4 DEF LockerInv

LEMMA ReleaseKeeps ==
    ASSUME LockerInv, NEW caller \in Callers, Release(caller)
    PROVE  LockerInv'
<1> DEFINE r == reserved[caller]
<1>1. /\ r.token # 0
      /\ held' = [k \in IF Owns(r) THEN DOMAIN held \ {r.key} ELSE DOMAIN held |-> held[k]]
      /\ reserved' = [reserved EXCEPT ![caller].released = TRUE]
      /\ UNCHANGED <<now, seq>>
    BY DEF Release
<1>2. /\ \A c \in Callers \ {caller} : reserved'[c] = reserved[c]
      /\ reserved'[caller] = [r EXCEPT !.released = TRUE]
      /\ r \in [token : 1..seq, key : Keys, until : Nat, released : BOOLEAN]
    BY <1>1 DEF LockerInv, TokensUnique, Nothing
<1>3. TokensUnique'
    <2>1. /\ reserved'[caller] \in [token : 1..seq, key : Keys, until : Nat, released : BOOLEAN]
          /\ reserved'[caller].token = r.token
        BY <1>2
    <2>2. reserved' \in [Callers -> {Nothing} \union [token : 1..seq, key : Keys, until : Nat,
                                                      released : BOOLEAN]]
        BY <1>1, <2>1 DEF LockerInv, TokensUnique
    <2>3. \A c \in Callers : reserved'[c].token = reserved[c].token
        BY <1>2, <2>1
    <2>4. QED
        BY <1>1, <2>2, <2>3 DEF LockerInv, TokensUnique
<1>4. ReservationsStand'
    <2>1. SUFFICES ASSUME NEW c \in Callers, reserved'[c].token # 0,
                          ~reserved'[c].released, now' < reserved'[c].until
                   PROVE  /\ reserved'[c].key \in DOMAIN held'
                          /\ held'[reserved'[c].key] =
                                [until |-> reserved'[c].until, token |-> reserved'[c].token]
        BY DEF ReservationsStand
    <2>2. c # caller /\ reserved'[c] = reserved[c]
        BY <1>2, <2>1
    <2>3. /\ reserved[c].key \in DOMAIN held
          /\ held[reserved[c].key] = [until |-> reserved[c].until, token |-> reserved[c].token]
        BY <1>1, <2>1, <2>2 DEF LockerInv, ReservationsStand
    <2>4. reserved[c].token # r.token
        BY <1>1, <2>2 DEF LockerInv, TokensUnique
    <2>5. ~(Owns(r) /\ r.key = reserved[c].key)
        BY <2>3, <2>4 DEF Owns
    <2>6. QED
        BY <1>1, <2>2, <2>3, <2>5
<1>5. QED
    BY <1>3, <1>4 DEF LockerInv

LEMMA LockerInductive == LockerInv /\ [LNext]_lockerVars => LockerInv'
<1>1. SUFFICES ASSUME LockerInv, [LNext]_lockerVars PROVE LockerInv'
    OBVIOUS
<1>2. CASE UNCHANGED lockerVars
    BY <1>1, <1>2 DEF lockerVars, LockerInv, TokensUnique, ReservationsStand
<1>3. CASE Tick
    <2>1. now' = now + 1 /\ UNCHANGED <<held, seq, reserved>>
        BY <1>3 DEF Tick
    <2>2. TokensUnique'
        BY <1>1, <2>1 DEF LockerInv, TokensUnique
    <2>3. \A c \in Callers : reserved[c].token # 0 => reserved[c].until \in Nat
        BY <1>1 DEF LockerInv, TokensUnique, Nothing
    <2>4. ReservationsStand'
        BY <1>1, <2>1, <2>3 DEF LockerInv, TokensUnique, ReservationsStand
    <2>5. QED
        BY <2>2, <2>4 DEF LockerInv
<1>4. ASSUME NEW c \in Callers, Release(c) PROVE LockerInv'
    BY <1>1, <1>4, ReleaseKeeps
<1>5. ASSUME NEW c \in Callers, NEW key \in Keys, NEW ttl \in Ttls, TryLock(c, key, ttl)
      PROVE  LockerInv'
    BY <1>1, <1>5, TryLockKeeps
<1>6. QED
    BY <1>1, <1>2, <1>3, <1>4, <1>5 DEF LNext

\* Nobody takes, sweeps or releases the key of a reservation that is in force.
THEOREM ReservationsAlwaysStand == LSpec => []ReservationsStand
<1>1. LInit => LockerInv
    BY LockerInitially
<1>2. LockerInv /\ [LNext]_lockerVars => LockerInv'
    BY LockerInductive
<1>3. LockerInv => ReservationsStand
    BY DEF LockerInv
<1>4. QED
    BY <1>1, <1>2, <1>3, PTL DEF LSpec
=============================================================================
