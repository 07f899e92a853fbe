----------------------------- MODULE ReplaySpec -----------------------------
(***************************************************************************)
(* What the replay guard of the tunnel promises, with no word of how it    *)
(* keeps the promise: a counter is used only above a floor, using it moves *)
(* the floor to it, and the floor may also rise by itself (a reboot burns  *)
(* counters) but never falls.  The promise holds for as long as the        *)
(* storage underneath is intact; once it is not, nothing is promised.      *)
(*                                                                         *)
(* ReplayGuard.tla models the code and implements this module.             *)
(***************************************************************************)
EXTENDS Integers

CONSTANT Modulus  \* counters are unsigned, modulo this (2^32 in the code)

Counter == 0 .. (Modulus - 1)

VARIABLES used,    \* every counter accepted in the life of the device
          floor,   \* counters at or below it are refused
          intact   \* FALSE once the storage has failed the guard

vars == <<used, floor, intact>>

TypeOK == /\ used \subseteq Counter
          /\ floor \in Counter
          /\ intact \in BOOLEAN

Init == /\ used = {}
        /\ floor = 0
        /\ intact = TRUE

(* A counter above the floor is accepted. *)
Use(c) == /\ floor < c
          /\ floor' = c
          /\ used' = used \cup {c}
          /\ UNCHANGED intact

(* A reboot gives up some counters it can no longer account for. *)
Burn(f) == /\ floor <= f
           /\ floor' = f
           /\ UNCHANGED <<used, intact>>

(* The storage lost the reservation, or has lost it before. *)
Lost(f) == /\ intact' = FALSE
           /\ floor' = f
           /\ UNCHANGED used

(* Past that point any counter may be accepted. *)
UseUnprotected(c) == /\ intact = FALSE
                     /\ floor' = c
                     /\ used' = used \cup {c}
                     /\ UNCHANGED intact

Next == \E c \in Counter : \/ Use(c)
                           \/ Burn(c)
                           \/ Lost(c)
                           \/ UseUnprotected(c)

Spec == Init /\ [][Next]_vars

(* While the storage is intact no used counter is above the floor, so none  *)
(* is ever used a second time: the promise of tunnel_replay.h:33.           *)
UsedBelowFloor == intact => \A u \in used : u <= floor
=============================================================================
