------------------------- MODULE ReplayGuardProofs -------------------------
(***************************************************************************)
(* Proofs about ReplayGuard, for every width of the counter and every size *)
(* of the reservation that ReserveAssumption allows.                       *)
(*                                                                         *)
(* The safety properties are not inductive.  NoReplay needs that the floor *)
(* is above every used counter, which after a reset needs that the stored  *)
(* ceiling was, which needs that the RAM ceiling an acceptance is compared *)
(* with is the stored one.  GuardInv says so, step of the call by step.    *)
(***************************************************************************)
EXTENDS ReplayGuard, TLAPS

(* A call in progress, whatever the storage has done.                      *)
CallInv ==
  /\ stored # 0
  /\ step \in {"extend", "commit"} => gReplayReady /\ mFloor < arg
  /\ step = "reserve" => /\ ~gReplayReady
                         /\ mPersistent
                         /\ mFloor = 0
                         /\ mCeiling = Reserve
  /\ step = "extend" => mCeiling = arg + Reserve
  /\ ~gReplayReady => mFloor = 0

(* While no storage failure has cost the reservation, flash accounts for   *)
(* every used counter and RAM agrees with flash.                           *)
IntactInv ==
  Intact =>
    /\ stored = NotStored => used = {} /\ ~gReplayReady
    /\ \A u \in used : u <= Durable
    /\ step = "reserve" => stored = NotStored
    /\ gReplayReady => /\ mPersistent
                       /\ mFloor <= Durable
                       /\ \A u \in used : u <= mFloor
    /\ gReplayReady /\ step # "extend" => mCeiling = Durable
    /\ step = "extend" => Durable <= arg
    /\ step = "commit" => arg <= Durable

GuardInv == /\ TypeOK
            /\ CallInv
            /\ IntactInv
            /\ BurnBounded

(* Where the sum of a counter and the reservation does not wrap it is the  *)
(* plain sum, still a counter.                                             *)
LEMMA NextCeilingSum ==
  ASSUME NEW c \in Counter, NextCeiling(c) >= c
  PROVE  NextCeiling(c) = c + Reserve /\ NextCeiling(c) \in Counter
<1>1. CASE c + Reserve < Modulus
  BY <1>1, ReserveAssumption DEF Counter, NextCeiling
<1>2. CASE c + Reserve >= Modulus
  <2>1. (c + Reserve) % Modulus = c + Reserve - Modulus
    BY <1>2, ReserveAssumption DEF Counter
  <2> QED BY <2>1, ReserveAssumption DEF Counter, NextCeiling
<1> QED BY <1>1, <1>2, ReserveAssumption DEF Counter

LEMMA ConstantCounters == 0 \in Counter /\ Reserve \in Counter
BY ReserveAssumption DEF Counter

LEMMA GuardInvInit == GuardInit => GuardInv
<1>1. GuardInit => TypeOK
  BY ConstantCounters DEF GuardInit, TypeOK
<1>2. GuardInit => CallInv /\ IntactInv /\ BurnBounded
  BY ReserveAssumption
  DEF GuardInit, CallInv, IntactInv, BurnBounded, NotStored, Durable
<1> QED BY <1>1, <1>2 DEF GuardInv

(* Every step keeps the types.                                             *)
LEMMA TypeOKStep ==
  ASSUME TypeOK, [GuardNext]_guardVars
  PROVE  TypeOK'
<1> USE ConstantCounters DEF TypeOK, Faults, ram, hist
<1>1. CASE InitNotPersistent
  BY <1>1 DEF InitNotPersistent
<1>2. CASE LoadCeiling
  BY <1>2 DEF LoadCeiling, Durable
<1>3. CASE LoadNothing
  BY <1>3 DEF LoadNothing, ReserveFirst
<1>4. CASE LoadFails
  BY <1>4 DEF LoadFails, ReserveFirst
<1>5. CASE ReserveSaved
  BY <1>5 DEF ReserveSaved
<1>6. CASE ReserveFails
  BY <1>6 DEF ReserveFails
<1>7. ASSUME NEW c \in Counter, AcceptReserved(c) PROVE TypeOK'
  BY <1>7 DEF AcceptReserved, AcceptCalled, IsFresh
<1>8. ASSUME NEW c \in Counter, AcceptExhausted(c) PROVE TypeOK'
  BY <1>8 DEF AcceptExhausted, guardVars
<1>9. ASSUME NEW c \in Counter, AcceptExtend(c) PROVE TypeOK'
  BY <1>9, NextCeilingSum DEF AcceptExtend, AcceptCalled, IsFresh
<1>10. CASE ExtendSaved
  BY <1>10 DEF ExtendSaved
<1>11. CASE ExtendFails
  BY <1>11 DEF ExtendFails
<1>12. CASE Commit
  BY <1>12 DEF Commit
<1>13. CASE Reset
  BY <1>13 DEF Reset
<1>14. CASE UNCHANGED guardVars
  BY <1>14 DEF guardVars
<1> QED
  BY <1>1, <1>2, <1>3, <1>4, <1>5, <1>6, <1>7,
     <1>8, <1>9, <1>10, <1>11, <1>12, <1>13, <1>14 DEF GuardNext

(* Every step keeps what is known of a call in progress.                   *)
LEMMA CallInvStep ==
  ASSUME TypeOK, CallInv, [GuardNext]_guardVars
  PROVE  CallInv'
<1> USE ReserveAssumption DEF TypeOK, CallInv, Counter, NotStored, Durable,
        InitCalled, ram, hist
<1>1. CASE InitNotPersistent
  BY <1>1 DEF InitNotPersistent
<1>2. CASE LoadCeiling
  BY <1>2 DEF LoadCeiling
<1>3. CASE LoadNothing
  BY <1>3 DEF LoadNothing, ReserveFirst
<1>4. CASE LoadFails
  BY <1>4 DEF LoadFails, ReserveFirst
<1>5. CASE ReserveSaved
  BY <1>5 DEF ReserveSaved
<1>6. CASE ReserveFails
  BY <1>6 DEF ReserveFails
<1>7. ASSUME NEW c \in Counter, AcceptReserved(c) PROVE CallInv'
  BY <1>7 DEF AcceptReserved, AcceptCalled, IsFresh
<1>8. ASSUME NEW c \in Counter, AcceptExhausted(c) PROVE CallInv'
  BY <1>8 DEF AcceptExhausted, guardVars
<1>9. ASSUME NEW c \in Counter, AcceptExtend(c) PROVE CallInv'
  BY <1>9, NextCeilingSum DEF AcceptExtend, AcceptCalled, IsFresh
<1>10. CASE ExtendSaved
  BY <1>10 DEF ExtendSaved
<1>11. CASE ExtendFails
  BY <1>11 DEF ExtendFails
<1>12. CASE Commit
  BY <1>12 DEF Commit
<1>13. CASE Reset
  BY <1>13 DEF Reset
<1>14. CASE UNCHANGED guardVars
  BY <1>14 DEF guardVars
<1> QED
  BY <1>1, <1>2, <1>3, <1>4, <1>5, <1>6, <1>7,
     <1>8, <1>9, <1>10, <1>11, <1>12, <1>13, <1>14 DEF GuardNext

(* Every step keeps flash and RAM in agreement while the storage is intact. *)
LEMMA IntactInvStep ==
  ASSUME TypeOK, CallInv, IntactInv, [GuardNext]_guardVars
  PROVE  IntactInv'
<1> USE ReserveAssumption DEF TypeOK, CallInv, IntactInv, Intact, Counter,
        NotStored, Durable, InitCalled, ram, hist
<1>1. CASE InitNotPersistent
  BY <1>1 DEF InitNotPersistent
<1>2. CASE LoadCeiling
  BY <1>2 DEF LoadCeiling
<1>3. CASE LoadNothing
  BY <1>3 DEF LoadNothing, ReserveFirst
<1>4. CASE LoadFails
  BY <1>4 DEF LoadFails, ReserveFirst
<1>5. CASE ReserveSaved
  BY <1>5 DEF ReserveSaved
<1>6. CASE ReserveFails
  BY <1>6 DEF ReserveFails
<1>7. ASSUME NEW c \in Counter, AcceptReserved(c) PROVE IntactInv'
  BY <1>7 DEF AcceptReserved, AcceptCalled, IsFresh
<1>8. ASSUME NEW c \in Counter, AcceptExhausted(c) PROVE IntactInv'
  BY <1>8 DEF AcceptExhausted, guardVars
<1>9. ASSUME NEW c \in Counter, AcceptExtend(c) PROVE IntactInv'
  BY <1>9, NextCeilingSum DEF AcceptExtend, AcceptCalled, IsFresh
<1>10. CASE ExtendSaved
  BY <1>10 DEF ExtendSaved
<1>11. CASE ExtendFails
  BY <1>11 DEF ExtendFails
<1>12. CASE Commit
  BY <1>12 DEF Commit
<1>13. CASE Reset
  BY <1>13 DEF Reset
<1>14. CASE UNCHANGED guardVars
  BY <1>14 DEF guardVars
<1> QED
  BY <1>1, <1>2, <1>3, <1>4, <1>5, <1>6, <1>7,
     <1>8, <1>9, <1>10, <1>11, <1>12, <1>13, <1>14 DEF GuardNext

(* Every step keeps the burn of a reset within the reservation.            *)
LEMMA BurnBoundedStep ==
  ASSUME TypeOK, CallInv, IntactInv, BurnBounded, [GuardNext]_guardVars
  PROVE  BurnBounded'
<1> USE ReserveAssumption DEF TypeOK, CallInv, IntactInv, Intact, BurnBounded,
        Counter, NotStored, Durable, InitCalled, ram, hist
<1>1. CASE InitNotPersistent
  BY <1>1 DEF InitNotPersistent
<1>2. CASE LoadCeiling
  BY <1>2 DEF LoadCeiling
<1>3. CASE LoadNothing
  BY <1>3 DEF LoadNothing, ReserveFirst
<1>4. CASE LoadFails
  BY <1>4 DEF LoadFails, ReserveFirst
<1>5. CASE ReserveSaved
  BY <1>5 DEF ReserveSaved
<1>6. CASE ReserveFails
  BY <1>6 DEF ReserveFails
<1>7. ASSUME NEW c \in Counter, AcceptReserved(c) PROVE BurnBounded'
  BY <1>7 DEF AcceptReserved, AcceptCalled, IsFresh
<1>8. ASSUME NEW c \in Counter, AcceptExhausted(c) PROVE BurnBounded'
  BY <1>8 DEF AcceptExhausted, guardVars
<1>9. ASSUME NEW c \in Counter, AcceptExtend(c) PROVE BurnBounded'
  BY <1>9, NextCeilingSum DEF AcceptExtend, AcceptCalled, IsFresh
<1>10. CASE ExtendSaved
  BY <1>10 DEF ExtendSaved
<1>11. CASE ExtendFails
  BY <1>11 DEF ExtendFails
<1>12. CASE Commit
  BY <1>12 DEF Commit
<1>13. CASE Reset
  BY <1>13 DEF Reset
<1>14. CASE UNCHANGED guardVars
  BY <1>14 DEF guardVars
<1> QED
  BY <1>1, <1>2, <1>3, <1>4, <1>5, <1>6, <1>7,
     <1>8, <1>9, <1>10, <1>11, <1>12, <1>13, <1>14 DEF GuardNext

LEMMA GuardInvStep == GuardInv /\ [GuardNext]_guardVars => GuardInv'
BY TypeOKStep, CallInvStep, IntactInvStep, BurnBoundedStep DEF GuardInv

LEMMA GuardInvHolds == Spec => []GuardInv
BY GuardInvInit, GuardInvStep, PTL DEF Spec
-----------------------------------------------------------------------------
(* The members keep their types, whatever the storage and the counters do. *)
THEOREM TypeCorrect == Spec => []TypeOK
<1>1. GuardInv => TypeOK  BY DEF GuardInv
<1> QED BY <1>1, GuardInvHolds, PTL

(* No counter is ever accepted twice, for every counter width, reservation *)
(* and number of resets, while the storage keeps the reservation.          *)
THEOREM NoReplayHolds == Spec => []NoReplay
<1>1. GuardInv => NoReplay
  <2> SUFFICES ASSUME GuardInv, Intact, step = "commit", NEW u \in used
               PROVE  u < arg
    BY DEF NoReplay
  <2>1. u <= mFloor /\ mFloor < arg
    BY DEF GuardInv, CallInv, IntactInv
  <2> QED BY <2>1 DEF GuardInv, TypeOK, Counter
<1> QED BY <1>1, GuardInvHolds, PTL

(* What the next boot loads covers every counter accepted, at any moment.  *)
THEOREM ReservationCoversHolds == Spec => []ReservationCovers
<1>1. GuardInv => ReservationCovers
  BY DEF GuardInv, IntactInv, ReservationCovers
<1> QED BY <1>1, GuardInvHolds, PTL

(* A reset burns at most Reserve counters.                                 *)
THEOREM BurnBoundedHolds == Spec => []BurnBounded
<1>1. GuardInv => BurnBounded  BY DEF GuardInv
<1> QED BY <1>1, GuardInvHolds, PTL

LEMMA FloorStep ==
  ASSUME GuardInv, [GuardNext]_guardVars
  PROVE  Intact' => BootFloor' >= BootFloor
<1> USE ReserveAssumption
    DEF GuardInv, TypeOK, CallInv, IntactInv, Intact, Counter, NotStored,
        Durable, BootFloor, InitCalled, ram, hist
<1>1. CASE InitNotPersistent
  BY <1>1 DEF InitNotPersistent
<1>2. CASE LoadCeiling
  BY <1>2 DEF LoadCeiling
<1>3. CASE LoadNothing
  BY <1>3 DEF LoadNothing, ReserveFirst
<1>4. CASE LoadFails
  BY <1>4 DEF LoadFails, ReserveFirst
<1>5. CASE ReserveSaved
  BY <1>5 DEF ReserveSaved
<1>6. CASE ReserveFails
  BY <1>6 DEF ReserveFails
<1>7. ASSUME NEW c \in Counter, AcceptReserved(c) PROVE Intact' => BootFloor' >= BootFloor
  BY <1>7 DEF AcceptReserved, AcceptCalled, IsFresh
<1>8. ASSUME NEW c \in Counter, AcceptExhausted(c) PROVE Intact' => BootFloor' >= BootFloor
  BY <1>8 DEF AcceptExhausted, guardVars
<1>9. ASSUME NEW c \in Counter, AcceptExtend(c) PROVE Intact' => BootFloor' >= BootFloor
  BY <1>9, NextCeilingSum DEF AcceptExtend, AcceptCalled, IsFresh
<1>10. CASE ExtendSaved
  BY <1>10 DEF ExtendSaved
<1>11. CASE ExtendFails
  BY <1>11 DEF ExtendFails
<1>12. CASE Commit
  BY <1>12 DEF Commit
<1>13. CASE Reset
  BY <1>13 DEF Reset
<1>14. CASE UNCHANGED guardVars
  BY <1>14 DEF guardVars
<1> QED
  BY <1>1, <1>2, <1>3, <1>4, <1>5, <1>6, <1>7,
     <1>8, <1>9, <1>10, <1>11, <1>12, <1>13, <1>14 DEF GuardNext

(* The floor never moves backwards across resets while the storage keeps   *)
(* the reservation.                                                        *)
THEOREM FloorNeverMovesBackHolds == Spec => FloorNeverMovesBack
<1>1. GuardInv /\ [GuardNext]_guardVars =>
        [Intact' => BootFloor' >= BootFloor]_guardVars
  BY FloorStep
<1> QED BY <1>1, GuardInvHolds, PTL DEF Spec, FloorNeverMovesBack

LEMMA FloorInBootStep ==
  ASSUME GuardInv, [GuardNext]_guardVars
  PROVE  mFloor' < mFloor => ~gReplayReady'
<1> USE ReserveAssumption
    DEF GuardInv, TypeOK, CallInv, Counter, NotStored, Durable, InitCalled,
        ram, hist
<1>1. CASE InitNotPersistent
  BY <1>1 DEF InitNotPersistent
<1>2. CASE LoadCeiling
  BY <1>2 DEF LoadCeiling
<1>3. CASE LoadNothing
  BY <1>3 DEF LoadNothing, ReserveFirst
<1>4. CASE LoadFails
  BY <1>4 DEF LoadFails, ReserveFirst
<1>5. CASE ReserveSaved
  BY <1>5 DEF ReserveSaved
<1>6. CASE ReserveFails
  BY <1>6 DEF ReserveFails
<1>7. ASSUME NEW c \in Counter, AcceptReserved(c) PROVE mFloor' < mFloor => ~gReplayReady'
  BY <1>7 DEF AcceptReserved, AcceptCalled, IsFresh
<1>8. ASSUME NEW c \in Counter, AcceptExhausted(c) PROVE mFloor' < mFloor => ~gReplayReady'
  BY <1>8 DEF AcceptExhausted, guardVars
<1>9. ASSUME NEW c \in Counter, AcceptExtend(c) PROVE mFloor' < mFloor => ~gReplayReady'
  BY <1>9, NextCeilingSum DEF AcceptExtend, AcceptCalled, IsFresh
<1>10. CASE ExtendSaved
  BY <1>10 DEF ExtendSaved
<1>11. CASE ExtendFails
  BY <1>11 DEF ExtendFails
<1>12. CASE Commit
  BY <1>12 DEF Commit
<1>13. CASE Reset
  BY <1>13 DEF Reset
<1>14. CASE UNCHANGED guardVars
  BY <1>14 DEF guardVars
<1> QED
  BY <1>1, <1>2, <1>3, <1>4, <1>5, <1>6, <1>7,
     <1>8, <1>9, <1>10, <1>11, <1>12, <1>13, <1>14 DEF GuardNext

(* Within a boot the floor only rises, whatever the storage does.          *)
THEOREM FloorKeptInBootHolds == Spec => FloorKeptInBoot
<1>1. GuardInv /\ [GuardNext]_guardVars =>
        [mFloor' < mFloor => ~gReplayReady']_guardVars
  BY FloorInBootStep
<1> QED BY <1>1, GuardInvHolds, PTL DEF Spec, FloorKeptInBoot

LEMMA WriteStep ==
  ASSUME GuardInv, [GuardNext]_guardVars
  PROVE  Intact' /\ stored' # stored => stored' >= Durable + Reserve
<1> USE ReserveAssumption
    DEF GuardInv, TypeOK, CallInv, IntactInv, Intact, Counter, NotStored,
        Durable, InitCalled, ram, hist
<1>1. CASE InitNotPersistent
  BY <1>1 DEF InitNotPersistent
<1>2. CASE LoadCeiling
  BY <1>2 DEF LoadCeiling
<1>3. CASE LoadNothing
  BY <1>3 DEF LoadNothing, ReserveFirst
<1>4. CASE LoadFails
  BY <1>4 DEF LoadFails, ReserveFirst
<1>5. CASE ReserveSaved
  BY <1>5 DEF ReserveSaved
<1>6. CASE ReserveFails
  BY <1>6 DEF ReserveFails
<1>7. ASSUME NEW c \in Counter, AcceptReserved(c) PROVE Intact' /\ stored' # stored => stored' >= Durable + Reserve
  BY <1>7 DEF AcceptReserved, AcceptCalled, IsFresh
<1>8. ASSUME NEW c \in Counter, AcceptExhausted(c) PROVE Intact' /\ stored' # stored => stored' >= Durable + Reserve
  BY <1>8 DEF AcceptExhausted, guardVars
<1>9. ASSUME NEW c \in Counter, AcceptExtend(c) PROVE Intact' /\ stored' # stored => stored' >= Durable + Reserve
  BY <1>9, NextCeilingSum DEF AcceptExtend, AcceptCalled, IsFresh
<1>10. CASE ExtendSaved
  BY <1>10 DEF ExtendSaved
<1>11. CASE ExtendFails
  BY <1>11 DEF ExtendFails
<1>12. CASE Commit
  BY <1>12 DEF Commit
<1>13. CASE Reset
  BY <1>13 DEF Reset
<1>14. CASE UNCHANGED guardVars
  BY <1>14 DEF guardVars
<1> QED
  BY <1>1, <1>2, <1>3, <1>4, <1>5, <1>6, <1>7,
     <1>8, <1>9, <1>10, <1>11, <1>12, <1>13, <1>14 DEF GuardNext

(* Two writes of the ceiling are at least Reserve counters apart.          *)
THEOREM WritesSpacedHolds == Spec => WritesSpaced
<1>1. GuardInv /\ [GuardNext]_guardVars =>
        [Intact' /\ stored' # stored => stored' >= Durable + Reserve]_guardVars
  BY WriteStep
<1> QED BY <1>1, GuardInvHolds, PTL DEF Spec, WritesSpaced

-----------------------------------------------------------------------------
LEMMA RefinementInit == GuardInit => Abstract!Init
BY DEF GuardInit, Abstract!Init, BootFloor, Durable, Intact

(* Every step of the guard is a step of the abstract specification, or     *)
(* leaves its variables alone.                                             *)
LEMMA RefinementStep ==
  ASSUME GuardInv, GuardInv', [GuardNext]_guardVars
  PROVE  [Abstract!Next]_(Abstract!vars)
<1>1. Abstract!Counter = Counter
  BY DEF Abstract!Counter, Counter
<1>2. BootFloor \in Counter /\ BootFloor' \in Counter
  BY ConstantCounters DEF GuardInv, TypeOK, BootFloor, Durable
<1>3. CASE Commit
  <2>1. arg \in Counter /\ BootFloor' = arg /\ used' = used \cup {arg}
    BY <1>3 DEF Commit, GuardInv, TypeOK, CallInv, BootFloor
  <2>2. Intact' = Intact
    BY <1>3 DEF Commit, Intact
  <2>3. CASE Intact
    <3>1. BootFloor < arg
      BY <1>3 DEF Commit, GuardInv, CallInv, BootFloor
    <3> QED
      BY <1>1, <2>1, <2>2, <3>1 DEF Abstract!Next, Abstract!Use
  <2>4. CASE ~Intact
    BY <1>1, <2>1, <2>2, <2>4 DEF Abstract!Next, Abstract!UseUnprotected
  <2> QED BY <2>3, <2>4
<1>4. CASE ~Commit
  <2>1. used' = used
    BY <1>4 DEF GuardNext, InitNotPersistent, LoadCeiling, LoadNothing,
       LoadFails, ReserveFirst, ReserveSaved, ReserveFails, AcceptReserved,
       AcceptExhausted, AcceptExtend, ExtendSaved, ExtendFails, Reset,
       guardVars, hist
  <2>2. Intact' => Intact
    BY DEF GuardNext, InitNotPersistent, LoadCeiling, LoadNothing,
       LoadFails, ReserveFirst, ReserveSaved, ReserveFails, AcceptReserved,
       AcceptExhausted, AcceptExtend, ExtendSaved, ExtendFails, Commit,
       Reset, guardVars, hist, Intact
  <2>3. CASE Intact'
    <3>1. BootFloor <= BootFloor'
      BY <2>3, <1>2, FloorStep DEF Counter
    <3> QED
      BY <1>1, <1>2, <2>1, <2>2, <2>3, <3>1 DEF Abstract!Next, Abstract!Burn
  <2>4. CASE ~Intact'
    BY <1>1, <1>2, <2>1, <2>4 DEF Abstract!Next, Abstract!Lost
  <2> QED BY <2>3, <2>4
<1> QED BY <1>3, <1>4

(* The guard of the code implements the promise of ReplaySpec.             *)
THEOREM Refinement == Spec => ImplementsReplaySpec
<1>1. GuardInv /\ GuardInv' /\ [GuardNext]_guardVars =>
        [Abstract!Next]_(Abstract!vars)
  BY RefinementStep
<1> QED
  BY <1>1, RefinementInit, GuardInvHolds, PTL
  DEF Spec, ImplementsReplaySpec, Abstract!Spec

(* What ReplaySpec promises follows from its actions alone.                *)
LEMMA UsedBelowFloorHolds == Abstract!Spec => []Abstract!UsedBelowFloor
<1> DEFINE Inv == /\ used \subseteq Int /\ BootFloor \in Int
                  /\ Abstract!UsedBelowFloor
<1>1. Abstract!Init => Inv
  BY DEF Abstract!Init, Abstract!UsedBelowFloor
<1>2. Inv /\ [Abstract!Next]_(Abstract!vars) => Inv'
  <2> SUFFICES ASSUME Inv, [Abstract!Next]_(Abstract!vars) PROVE Inv'
    OBVIOUS
  <2> USE DEF Abstract!UsedBelowFloor, Abstract!Counter
  <2>1. ASSUME NEW c \in Abstract!Counter, Abstract!Use(c) PROVE Inv'
    BY <2>1 DEF Abstract!Use
  <2>2. ASSUME NEW c \in Abstract!Counter, Abstract!Burn(c) PROVE Inv'
    BY <2>2 DEF Abstract!Burn
  <2>3. ASSUME NEW c \in Abstract!Counter, Abstract!Lost(c) PROVE Inv'
    BY <2>3 DEF Abstract!Lost
  <2>4. ASSUME NEW c \in Abstract!Counter, Abstract!UseUnprotected(c) PROVE Inv'
    BY <2>4 DEF Abstract!UseUnprotected
  <2>5. CASE UNCHANGED Abstract!vars
    BY <2>5 DEF Abstract!vars
  <2> QED
    BY <2>1, <2>2, <2>3, <2>4, <2>5 DEF Abstract!Next
<1> QED
  BY <1>1, <1>2, PTL DEF Abstract!Spec

(* So the guard keeps the promise: while the storage is intact, what the   *)
(* floor would be after a reset covers every used counter                  *)
(* (tunnel_replay.h:33).                                                   *)
THEOREM GuardKeepsPromise == Spec => []Abstract!UsedBelowFloor
BY Refinement, UsedBelowFloorHolds, PTL DEF ImplementsReplaySpec
=============================================================================
