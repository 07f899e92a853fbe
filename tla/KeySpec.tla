------------------------------ MODULE KeySpec ------------------------------
(***************************************************************************)
(* What the registration of a client key promises, with no word of windows *)
(* or buttons, of RAM or of the order of its writes: a key is taken once   *)
(* for each time somebody was at the device, a reset leaves either the key *)
(* of before or the new one, and a key that was acknowledged is saved.     *)
(* When the storage fails the device may forget its key or return to the   *)
(* saved one; a key nobody was there to register is still not taken.       *)
(*                                                                         *)
(* ClientKeyStore.tla models the code and implements this module.          *)
(***************************************************************************)
CONSTANTS Keys, NoKey

VARIABLES key,    \* the key signatures are checked with, or NoKey
          saved,  \* the key a reset returns to
          owned,  \* the keys the device may rightly hold
          armed,  \* somebody is at the device
          intact  \* FALSE once the storage has failed the store

vars == <<key, saved, owned, armed, intact>>

Init ==
  /\ key = NoKey /\ saved = NoKey /\ owned = {NoKey}
  /\ armed = FALSE /\ intact = TRUE

(* Somebody comes to the device, or leaves it.                             *)
Attend ==
  /\ armed' \in BOOLEAN
  /\ UNCHANGED <<key, saved, owned, intact>>

(* One registration for each time.                                         *)
Register(k) ==
  /\ armed /\ armed' = FALSE
  /\ key' = k
  /\ owned' = owned \cup {k}
  /\ UNCHANGED <<saved, intact>>

Save ==
  /\ saved' = key
  /\ UNCHANGED <<key, owned, armed, intact>>

(* The key is acknowledged, which makes it the only one rightly held.      *)
Acknowledge ==
  /\ intact => saved = key
  /\ owned' = {key}
  /\ UNCHANGED <<key, saved, armed, intact>>

(* A reset, or the load after it.                                          *)
Return ==
  /\ key' = saved
  /\ armed' \in {armed, FALSE}
  /\ UNCHANGED <<saved, owned, intact>>

(* A read fails and the key is not there, or a write fails.                *)
Fail ==
  /\ intact' = FALSE
  /\ key' \in {key, NoKey}
  /\ UNCHANGED <<saved, owned, armed>>

Next ==
  \/ Attend \/ Save \/ Acknowledge \/ Return \/ Fail
  \/ \E k \in Keys : Register(k)

Spec == Init /\ [][Next]_vars

(* While the storage is intact the device holds, and would return to, no   *)
(* key but one it rightly holds: the one acknowledged last or the one of a *)
(* registration a reset cut short (tunnel_client_key.cpp:118-129).         *)
HoldsOwnedKey == intact => {key, saved} \subseteq owned
=============================================================================
