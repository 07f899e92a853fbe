---------------------------- MODULE ReplayGuard ----------------------------
(***************************************************************************)
(* The reserved-ceiling replay guard (src/lib/tunnel/tunnel_replay.cpp),   *)
(* with the lazy initialisation EnsureReplay gives it in tunnel_server.cpp.*)
(*                                                                         *)
(* A call of the guard is cut at its accesses to the settings storage, so  *)
(* that a reset of the device can fall between any two of its effects, and *)
(* every access may fail the way the code allows for.  The calls of one    *)
(* device are sequential here (one transport).                             *)
(***************************************************************************)
EXTENDS Integers

CONSTANTS Modulus,  \* uint32_t wraps at it: 2^32 in the code
          Reserve   \* kReserve: counters reserved by one write

ASSUME ReserveAssumption == /\ Modulus \in Nat
                            /\ Reserve \in 1 .. (Modulus - 1)

Counter == 0 .. (Modulus - 1)

NotStored == -1  \* the settings key "tunnel/ceiling" has no value

(* The storage failures of a ready guard or of one that is about to be.    *)
Faults == {"notPersistent",  \* settings_subsys_init failed
           "loadLost",       \* a stored ceiling could not be read
           "extendLost",     \* a write in Accept failed, nothing written
           "extendErred"}    \* a write in Accept failed after it had written

VARIABLES
  stored,       \* the value of "tunnel/ceiling" in flash, or NotStored
  mFloor, mCeiling, mPersistent,  \* the members of ReplayGuard
  gReplayReady, \* ReplayGuard::Init has succeeded since the last reset
  step,         \* the access the call in progress makes next, or "idle"
  arg,          \* the counter of the Accept in progress, 0 between calls
  used,         \* history: every counter Accept ever returned success for
  faults        \* history: the kinds of storage failure there have been

ram  == <<mFloor, mCeiling, mPersistent, gReplayReady>>
hist == <<used, faults>>
guardVars == <<stored, mFloor, mCeiling, mPersistent, gReplayReady,
               step, arg, used, faults>>

TypeOK ==
  /\ stored \in Counter \cup {NotStored}
  /\ mFloor \in Counter /\ mCeiling \in Counter /\ mPersistent \in BOOLEAN
  /\ gReplayReady \in BOOLEAN
  /\ step \in {"idle", "reserve", "extend", "commit"} /\ arg \in Counter
  /\ used \subseteq Counter /\ faults \subseteq Faults

(* What Init reads: LoadCb is not called for a key that has no value, and  *)
(* a missing value counts as 0.                                            *)
Durable == IF stored = NotStored THEN 0 ELSE stored

(* The floor this boot works with, or will once Init has loaded it.        *)
BootFloor == IF gReplayReady THEN mFloor ELSE Durable

GuardInit ==
  /\ stored = NotStored /\ mFloor = 0 /\ mCeiling = 0 /\ mPersistent = FALSE
  /\ gReplayReady = FALSE /\ step = "idle" /\ arg = 0 /\ used = {}
  /\ faults = {}

-----------------------------------------------------------------------------
(* Variants of the definitions below, each with a plausible slip in it.    *)
(* The project's mutants substitute them; no action uses them.             *)
IsFreshOrEqual(c) == c >= mFloor
IsFreshDropped(c) == TRUE
NextCeilingNoWrap(c) == c + Reserve
NextCeilingShort(c) == (c + 1) % Modulus
NextCeilingBeyond(c) == (c + Reserve + 1) % Modulus
LoadCeilingFloorZero ==
  /\ step = "idle" /\ ~gReplayReady
  /\ Durable > 0
  /\ mPersistent' = TRUE /\ mCeiling' = Durable /\ mFloor' = 0
  /\ gReplayReady' = TRUE
  /\ UNCHANGED <<stored, step, arg, used, faults>>
AcceptThenExtend(c) ==
  /\ step = "idle" /\ gReplayReady
  /\ c > mFloor /\ c >= mCeiling /\ c + Reserve < Modulus
  /\ mCeiling' = c + Reserve /\ step' = "extend" /\ mFloor' = c
  /\ used' = used \cup {c}
  /\ arg' = c
  /\ UNCHANGED <<stored, mPersistent, gReplayReady, faults>>

-----------------------------------------------------------------------------
(* EnsureReplay and ReplayGuard::Init.                                     *)

InitCalled == step = "idle" /\ ~gReplayReady

(* settings_subsys_init fails: the guard works from RAM alone.             *)
InitNotPersistent ==
  /\ InitCalled
  /\ mFloor' = 0 /\ mCeiling' = Reserve /\ mPersistent' = FALSE
  /\ gReplayReady' = TRUE
  /\ faults' = faults \cup {"notPersistent"}
  /\ UNCHANGED <<stored, step, arg, used>>

(* A ceiling other than 0 is loaded and becomes the floor.                 *)
LoadCeiling ==
  /\ InitCalled
  /\ Durable > 0
  /\ mPersistent' = TRUE /\ mCeiling' = Durable /\ mFloor' = Durable
  /\ gReplayReady' = TRUE
  /\ UNCHANGED <<stored, step, arg, used, faults>>

(* PersistCeiling(kReserve), up to its settings_save_one.                  *)
ReserveFirst ==
  /\ mPersistent' = TRUE /\ mFloor' = 0 /\ mCeiling' = Reserve
  /\ step' = "reserve"
  /\ UNCHANGED <<stored, gReplayReady, arg, used>>

(* Nothing is stored: first boot.                                          *)
LoadNothing ==
  /\ InitCalled
  /\ Durable = 0
  /\ ReserveFirst
  /\ UNCHANGED faults

(* A stored ceiling cannot be read (LoadCb returns an error, or is not     *)
(* called): the failure is logged and the boot goes on as a first boot.    *)
LoadFails ==
  /\ InitCalled
  /\ stored # NotStored
  /\ ReserveFirst
  /\ faults' = faults \cup {"loadLost"}

(* The first reservation is saved and Init succeeds.                       *)
ReserveSaved ==
  /\ step = "reserve" /\ stored' = mCeiling /\ gReplayReady' = TRUE
  /\ step' = "idle"
  /\ UNCHANGED <<mFloor, mCeiling, mPersistent, arg, used, faults>>

(* settings_save_one returns an error, with or without having written.     *)
(* Init fails and the next signed request runs it again.                   *)
ReserveFails ==
  /\ step = "reserve"
  /\ stored' \in {stored, mCeiling}
  /\ step' = "idle"
  /\ UNCHANGED <<ram, arg, hist>>

-----------------------------------------------------------------------------
(* ReplayGuard::IsFresh and ReplayGuard::Accept.                           *)

IsFresh(c) == c > mFloor

NextCeiling(c) == (c + Reserve) % Modulus

(* Accept(c) has been called and the counter is fresh.                     *)
AcceptCalled(c) == /\ step = "idle" /\ gReplayReady
                   /\ IsFresh(c)

(* Below the ceiling there is nothing to write.                            *)
AcceptReserved(c) ==
  /\ AcceptCalled(c)
  /\ c < mCeiling
  /\ step' = "commit" /\ arg' = c
  /\ UNCHANGED <<stored, ram, hist>>

(* The sum wrapped: CHIP_ERROR_INTERNAL, nothing changes.                  *)
AcceptExhausted(c) ==
  /\ AcceptCalled(c)
  /\ c >= mCeiling
  /\ NextCeiling(c) < c
  /\ UNCHANGED guardVars

(* PersistCeiling moves the RAM ceiling before it writes.                  *)
AcceptExtend(c) ==
  /\ AcceptCalled(c)
  /\ c >= mCeiling
  /\ NextCeiling(c) >= c
  /\ mCeiling' = NextCeiling(c)
  /\ step' = IF mPersistent THEN "extend" ELSE "commit"
  /\ arg' = c
  /\ UNCHANGED <<stored, mFloor, mPersistent, gReplayReady, hist>>

ExtendSaved ==
  /\ step = "extend" /\ stored' = mCeiling /\ step' = "commit"
  /\ UNCHANGED <<ram, arg, hist>>

(* settings_save_one returns an error: Accept fails, the RAM ceiling stays *)
(* where PersistCeiling put it.                                            *)
ExtendFails ==
  /\ step = "extend" /\ stored' \in {stored, mCeiling} /\ step' = "idle"
  /\ arg' = 0
  /\ faults' = faults \cup (IF stored' = mCeiling THEN {"extendErred"}
                                                 ELSE {"extendLost"})
  /\ UNCHANGED <<ram, used>>

(* The floor moves and Accept returns success.                             *)
Commit ==
  /\ step = "commit" /\ mFloor' = arg
  /\ used' = used \cup {arg}
  /\ step' = "idle" /\ arg' = 0
  /\ UNCHANGED <<stored, mCeiling, mPersistent, gReplayReady, faults>>

-----------------------------------------------------------------------------
(* A reset, at any point of any call: RAM is lost, flash stays.            *)
Reset ==
  /\ mFloor' = 0 /\ mCeiling' = 0 /\ mPersistent' = FALSE
  /\ gReplayReady' = FALSE /\ step' = "idle" /\ arg' = 0
  /\ UNCHANGED <<stored, hist>>

GuardNext ==
  \/ InitNotPersistent \/ LoadCeiling \/ LoadNothing \/ LoadFails
  \/ ReserveSaved \/ ReserveFails
  \/ \E c \in Counter :
       AcceptReserved(c) \/ AcceptExhausted(c) \/ AcceptExtend(c)
  \/ ExtendSaved \/ ExtendFails \/ Commit
  \/ Reset

Spec == GuardInit /\ [][GuardNext]_guardVars
-----------------------------------------------------------------------------
(***************************************************************************)
(* Properties.  Intact: since the device was made no storage failure has   *)
(* cost the guard its reservation.  Resets at any point, a first write     *)
(* that fails, a write that fails late and any order of counters are all   *)
(* within it.                                                              *)
(***************************************************************************)

Intact == faults \subseteq {"extendErred"}

(* No replay: a counter about to be accepted is above every counter ever   *)
(* accepted, in this boot or an earlier one (tunnel_replay.cpp:97-116).    *)
NoReplay == Intact /\ step = "commit" => \A u \in used : u < arg

(* A reset can lose an acceptance, never a reservation: what the next boot *)
(* will load is at or above every counter accepted so far, at every point  *)
(* at which the device can reset (tunnel_replay.cpp:101-113).              *)
ReservationCovers == Intact => \A u \in used : u <= Durable

(* A reset burns at most kReserve counters: the next boot's floor is at    *)
(* most kReserve above this boot's floor or the counter being accepted,    *)
(* unless a write reported as failed had been made after all               *)
(* (tunnel_replay.h:33-36).                                                *)
BurnBounded ==
  faults = {} /\ gReplayReady =>
    Durable <= Reserve + (IF step = "commit" THEN arg ELSE mFloor)

(* The floor the device refuses below never moves backwards, across resets *)
(* and repeated initialisations (tunnel_replay.h:33).                      *)
FloorNeverMovesBack == [][Intact' => BootFloor' >= BootFloor]_guardVars

(* Whatever the storage does, only a reset can lower the RAM floor: within *)
(* one boot a captured command cannot be presented twice.                  *)
FloorKeptInBoot == [][mFloor' < mFloor => ~gReplayReady']_guardVars

(* The flash is spared: one write of the ceiling is at least kReserve      *)
(* above the one before (tunnel_replay.h:33-34).                           *)
WritesSpaced ==
  [][Intact' /\ stored' # stored => stored' >= Durable + Reserve]_guardVars

(* The guard implements the abstract specification.                        *)
Abstract == INSTANCE ReplaySpec WITH floor <- BootFloor, intact <- Intact
ImplementsReplaySpec == Abstract!Spec

-----------------------------------------------------------------------------
(* What the source says of itself without a condition.                     *)

(* "Extend the reservation *before* accepting, so a reset between the two  *)
(* can only lose the acceptance, never the reservation"                    *)
(* (tunnel_replay.cpp:101-103).  Here the only harmful failure there may   *)
(* have been is a settings_save_one in Accept that returned its error.     *)
ReservationBeforeAcceptance ==
  faults \subseteq {"extendLost"} => \A u \in used : u <= Durable
=============================================================================
