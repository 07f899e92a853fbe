------------------------ MODULE ClientKeyStoreProofs ------------------------
(***************************************************************************)
(* Proofs about ClientKeyStore, for every set of keys, window length and   *)
(* length of a boot.  Each property gets the conjunct of StoreInv that     *)
(* makes it inductive.                                                     *)
(***************************************************************************)
EXTENDS ClientKeyStore, TLAPS

(* A handle is imported only after Init, so Init never changes the key     *)
(* under a handle.                                                         *)
ImportInv == mImported # NoKey => mImported = mKey /\ gHandler

(* A press recorded as opening the window owns the window, and an open     *)
(* window between registrations is owned by such a press.                  *)
WindowInv ==
  /\ press.seen = "opened" => /\ regStep = "idle"
                              /\ press.at >= 0
                              /\ mWindowUntil = press.at + Window
  /\ regStep = "idle" /\ WindowOpen => press.seen = "opened"

(* While the storage has not failed, flash holds a trusted key and RAM     *)
(* agrees with it between registrations.                                   *)
KeyInv ==
  keyFaults = {} =>
    /\ storedKey \in trusted
    /\ regStep # "idle" => mKey \in trusted
    /\ regStep = "close" => mKey = storedKey
    /\ regStep = "idle" /\ gHandler => mKey = storedKey
    /\ regStep = "idle" /\ ~gHandler => mKey \in {NoKey, storedKey}

(* A registration under way is of a key in RAM.                            *)
HeldInv == regStep # "idle" => HasKey

StoreInv == /\ StoreTypeOK
            /\ ImportInv
            /\ WindowInv
            /\ KeyInv
            /\ HeldInv

LEMMA NoPressType ==
  /\ NoPress \in [at : -1 .. MaxUptime,
                  seen : {"none", "opened", "registering", "ignored"}]
  /\ 0 \in 0 .. MaxUptime
  /\ 0 \in 0 .. (MaxUptime + Window)
BY StoreAssumption DEF NoPress

LEMMA StoreInvInit == StoreInit => StoreInv
<1>1. StoreInit => StoreTypeOK
  BY NoPressType DEF StoreInit, StoreTypeOK
<1>2. StoreInit => ImportInv /\ WindowInv /\ KeyInv /\ HeldInv
  BY StoreAssumption
  DEF StoreInit, ImportInv, WindowInv, KeyInv, HeldInv, NoPress, WindowOpen
<1> QED BY <1>1, <1>2 DEF StoreInv

(* Every step keeps the types.                                             *)
LEMMA StoreTypeStep ==
  ASSUME StoreTypeOK, [StoreNext]_storeVars
  PROVE  StoreTypeOK'
<1> USE StoreAssumption DEF StoreTypeOK, WindowOpen, HasKey
<1>1. CASE InitLoadsKey
  BY <1>1 DEF InitLoadsKey
<1>2. CASE InitLoadFails
  BY <1>2 DEF InitLoadFails
<1>3. CASE ButtonPressed
  BY <1>3 DEF ButtonPressed, OpenWindow, WindowEnd, Seen
<1>4. CASE ButtonIgnored
  BY <1>4 DEF ButtonIgnored
<1>5. CASE TriggerPulled
  BY <1>5 DEF TriggerPulled, OpenWindow, WindowEnd, Seen
<1>6. CASE Tick
  BY <1>6 DEF Tick
<1>7. ASSUME NEW k \in Keys \cup {Malformed}, RegisterRefused(k) PROVE StoreTypeOK'
  BY <1>7 DEF RegisterRefused, storeVars
<1>8. ASSUME NEW k \in Keys \cup {Malformed}, RegisterKey(k) PROVE StoreTypeOK'
  BY <1>8, NoPressType DEF RegisterKey
<1>9. CASE RegisterSaved
  BY <1>9 DEF RegisterSaved
<1>10. CASE RegisterSaveFails
  BY <1>10 DEF RegisterSaveFails
<1>11. CASE RegisterDone
  BY <1>11 DEF RegisterDone
<1>12. CASE VerifyImports
  BY <1>12 DEF VerifyImports
<1>13. CASE StoreReset
  BY <1>13, NoPressType DEF StoreReset
<1>14. CASE UNCHANGED storeVars
  BY <1>14 DEF storeVars
<1> QED
  BY <1>1, <1>2, <1>3, <1>4, <1>5, <1>6, <1>7,
     <1>8, <1>9, <1>10, <1>11, <1>12, <1>13, <1>14 DEF StoreNext

(* Every step keeps the handle that of the registered key.                 *)
LEMMA ImportStep ==
  ASSUME StoreTypeOK, ImportInv, [StoreNext]_storeVars
  PROVE  ImportInv'
<1> USE StoreAssumption DEF StoreTypeOK, ImportInv, HasKey
<1>1. CASE InitLoadsKey
  BY <1>1 DEF InitLoadsKey
<1>2. CASE InitLoadFails
  BY <1>2 DEF InitLoadFails
<1>3. CASE ButtonPressed
  BY <1>3 DEF ButtonPressed, OpenWindow, WindowEnd, Seen
<1>4. CASE ButtonIgnored
  BY <1>4 DEF ButtonIgnored
<1>5. CASE TriggerPulled
  BY <1>5 DEF TriggerPulled, OpenWindow, WindowEnd, Seen
<1>6. CASE Tick
  BY <1>6 DEF Tick
<1>7. ASSUME NEW k \in Keys \cup {Malformed}, RegisterRefused(k) PROVE ImportInv'
  BY <1>7 DEF RegisterRefused, storeVars
<1>8. ASSUME NEW k \in Keys \cup {Malformed}, RegisterKey(k) PROVE ImportInv'
  BY <1>8 DEF RegisterKey
<1>9. CASE RegisterSaved
  BY <1>9 DEF RegisterSaved
<1>10. CASE RegisterSaveFails
  BY <1>10 DEF RegisterSaveFails
<1>11. CASE RegisterDone
  BY <1>11 DEF RegisterDone
<1>12. CASE VerifyImports
  BY <1>12 DEF VerifyImports
<1>13. CASE StoreReset
  BY <1>13 DEF StoreReset
<1>14. CASE UNCHANGED storeVars
  BY <1>14 DEF storeVars
<1> QED
  BY <1>1, <1>2, <1>3, <1>4, <1>5, <1>6, <1>7,
     <1>8, <1>9, <1>10, <1>11, <1>12, <1>13, <1>14 DEF StoreNext

(* Every step keeps window and press together.                             *)
LEMMA WindowStep ==
  ASSUME StoreTypeOK, WindowInv, [StoreNext]_storeVars
  PROVE  WindowInv'
<1> USE StoreAssumption DEF StoreTypeOK, WindowInv, WindowOpen, NoPress
<1>1. CASE InitLoadsKey
  BY <1>1 DEF InitLoadsKey
<1>2. CASE InitLoadFails
  BY <1>2 DEF InitLoadFails
<1>3. CASE ButtonPressed
  BY <1>3 DEF ButtonPressed, OpenWindow, WindowEnd, Seen
<1>4. CASE ButtonIgnored
  BY <1>4 DEF ButtonIgnored
<1>5. CASE TriggerPulled
  BY <1>5 DEF TriggerPulled, OpenWindow, WindowEnd, Seen
<1>6. CASE Tick
  BY <1>6 DEF Tick
<1>7. ASSUME NEW k \in Keys \cup {Malformed}, RegisterRefused(k) PROVE WindowInv'
  BY <1>7 DEF RegisterRefused, storeVars
<1>8. ASSUME NEW k \in Keys \cup {Malformed}, RegisterKey(k) PROVE WindowInv'
  BY <1>8 DEF RegisterKey
<1>9. CASE RegisterSaved
  BY <1>9 DEF RegisterSaved
<1>10. CASE RegisterSaveFails
  BY <1>10 DEF RegisterSaveFails
<1>11. CASE RegisterDone
  BY <1>11 DEF RegisterDone
<1>12. CASE VerifyImports
  BY <1>12 DEF VerifyImports
<1>13. CASE StoreReset
  BY <1>13 DEF StoreReset
<1>14. CASE UNCHANGED storeVars
  BY <1>14 DEF storeVars
<1> QED
  BY <1>1, <1>2, <1>3, <1>4, <1>5, <1>6, <1>7,
     <1>8, <1>9, <1>10, <1>11, <1>12, <1>13, <1>14 DEF StoreNext

(* Every step keeps RAM and flash in agreement.                            *)
LEMMA KeyStep ==
  ASSUME StoreTypeOK, KeyInv, [StoreNext]_storeVars
  PROVE  KeyInv'
<1> USE StoreAssumption DEF StoreTypeOK, KeyInv
<1>1. CASE InitLoadsKey
  BY <1>1 DEF InitLoadsKey
<1>2. CASE InitLoadFails
  BY <1>2 DEF InitLoadFails
<1>3. CASE ButtonPressed
  BY <1>3 DEF ButtonPressed, OpenWindow, WindowEnd, Seen
<1>4. CASE ButtonIgnored
  BY <1>4 DEF ButtonIgnored
<1>5. CASE TriggerPulled
  BY <1>5 DEF TriggerPulled, OpenWindow, WindowEnd, Seen
<1>6. CASE Tick
  BY <1>6 DEF Tick
<1>7. ASSUME NEW k \in Keys \cup {Malformed}, RegisterRefused(k) PROVE KeyInv'
  BY <1>7 DEF RegisterRefused, storeVars
<1>8. ASSUME NEW k \in Keys \cup {Malformed}, RegisterKey(k) PROVE KeyInv'
  BY <1>8 DEF RegisterKey
<1>9. CASE RegisterSaved
  BY <1>9 DEF RegisterSaved
<1>10. CASE RegisterSaveFails
  BY <1>10 DEF RegisterSaveFails
<1>11. CASE RegisterDone
  BY <1>11 DEF RegisterDone
<1>12. CASE VerifyImports
  BY <1>12 DEF VerifyImports
<1>13. CASE StoreReset
  BY <1>13 DEF StoreReset
<1>14. CASE UNCHANGED storeVars
  BY <1>14 DEF storeVars
<1> QED
  BY <1>1, <1>2, <1>3, <1>4, <1>5, <1>6, <1>7,
     <1>8, <1>9, <1>10, <1>11, <1>12, <1>13, <1>14 DEF StoreNext

(* RAM loses its key to a reset only, which ends the registration.         *)
LEMMA HeldStep ==
  ASSUME HeldInv, [StoreNext]_storeVars
  PROVE  HeldInv'
BY StoreAssumption
DEF HeldInv, HasKey, StoreNext, InitLoadsKey, InitLoadFails, ButtonPressed,
  ButtonIgnored, TriggerPulled, OpenWindow, Tick, RegisterRefused, RegisterKey,
  RegisterSaved, RegisterSaveFails, RegisterDone, VerifyImports, StoreReset,
  storeVars

LEMMA StoreInvStep == StoreInv /\ [StoreNext]_storeVars => StoreInv'
BY StoreTypeStep, ImportStep, WindowStep, KeyStep, HeldStep DEF StoreInv

LEMMA StoreInvHolds == StoreSpec => []StoreInv
BY StoreInvInit, StoreInvStep, PTL DEF StoreSpec

-----------------------------------------------------------------------------
(* The members keep their types, whatever the storage does.                *)
THEOREM StoreTypeCorrect == StoreSpec => []StoreTypeOK
<1>1. StoreInv => StoreTypeOK  BY DEF StoreInv
<1> QED BY <1>1, StoreInvHolds, PTL

(* The handle signatures are checked with is that of the registered key.   *)
THEOREM ImportedIsRegisteredHolds == StoreSpec => []ImportedIsRegistered
<1>1. StoreInv => ImportedIsRegistered
  BY DEF StoreInv, ImportInv, ImportedIsRegistered
<1> QED BY <1>1, StoreInvHolds, PTL

(* A press that opened the window holds it open until its time is over or  *)
(* a registration uses it.                                                 *)
THEOREM PressHoldsWindowHolds == StoreSpec => []PressHoldsWindow
<1>1. StoreInv => PressHoldsWindow
  BY StoreAssumption
  DEF StoreInv, StoreTypeOK, WindowInv, PressHoldsWindow, WindowOpen
<1> QED BY <1>1, StoreInvHolds, PTL

(* No acknowledged key is lost or rolled back while the storage works.     *)
THEOREM KeyIsTrustedHolds == StoreSpec => []KeyIsTrusted
<1>1. StoreInv => KeyIsTrusted
  BY DEF StoreInv, StoreTypeOK, KeyInv, KeyIsTrusted
<1> QED BY <1>1, StoreInvHolds, PTL

(* A registration begins only in a window that a press owns.               *)
LEMMA RegistrationStep ==
  ASSUME StoreInv, [StoreNext]_storeVars
  PROVE  regStep = "idle" /\ regStep' = "save" =>
            press.seen = "opened" /\ uptime < press.at + Window
<1> USE StoreAssumption
    DEF StoreInv, StoreTypeOK, WindowInv, WindowOpen
<1>1. CASE InitLoadsKey
  BY <1>1 DEF InitLoadsKey
<1>2. CASE InitLoadFails
  BY <1>2 DEF InitLoadFails
<1>3. CASE ButtonPressed
  BY <1>3 DEF ButtonPressed, OpenWindow, WindowEnd, Seen
<1>4. CASE ButtonIgnored
  BY <1>4 DEF ButtonIgnored
<1>5. CASE TriggerPulled
  BY <1>5 DEF TriggerPulled, OpenWindow, WindowEnd, Seen
<1>6. CASE Tick
  BY <1>6 DEF Tick
<1>7. ASSUME NEW k \in Keys \cup {Malformed}, RegisterRefused(k) PROVE
         regStep = "idle" /\ regStep' = "save" =>
            press.seen = "opened" /\ uptime < press.at + Window
  BY <1>7 DEF RegisterRefused, storeVars
<1>8. ASSUME NEW k \in Keys \cup {Malformed}, RegisterKey(k) PROVE
         regStep = "idle" /\ regStep' = "save" =>
            press.seen = "opened" /\ uptime < press.at + Window
  BY <1>8 DEF RegisterKey
<1>9. CASE RegisterSaved
  BY <1>9 DEF RegisterSaved
<1>10. CASE RegisterSaveFails
  BY <1>10 DEF RegisterSaveFails
<1>11. CASE RegisterDone
  BY <1>11 DEF RegisterDone
<1>12. CASE VerifyImports
  BY <1>12 DEF VerifyImports
<1>13. CASE StoreReset
  BY <1>13 DEF StoreReset
<1>14. CASE UNCHANGED storeVars
  BY <1>14 DEF storeVars
<1> QED
  BY <1>1, <1>2, <1>3, <1>4, <1>5, <1>6, <1>7,
     <1>8, <1>9, <1>10, <1>11, <1>12, <1>13, <1>14 DEF StoreNext

(* Every registration has a press of its own, less than Window ago.        *)
THEOREM OneRegistrationPerPressHolds == StoreSpec => OneRegistrationPerPress
<1>1. StoreInv /\ [StoreNext]_storeVars =>
        [regStep = "idle" /\ regStep' = "save" =>
           press.seen = "opened" /\ uptime < press.at + Window]_storeVars
  BY RegistrationStep
<1> QED BY <1>1, StoreInvHolds, PTL DEF StoreSpec, OneRegistrationPerPress

-----------------------------------------------------------------------------
LEMMA KeyRefinementInit == StoreInit => Abstract!Init
BY DEF StoreInit, Abstract!Init, Held, Attended, NoPress

(* Presses, time and resets leave the keys alone but for the return to the *)
(* saved one.                                                              *)
LEMMA KeyRefinementStep ==
  ASSUME StoreInv, [StoreNext]_storeVars
  PROVE  [Abstract!Next]_(Abstract!vars)
<1> USE StoreAssumption DEF Held, HasKey, Abstract!Next
<1>0. Attended \in BOOLEAN /\ Attended' \in BOOLEAN
  BY DEF Attended
<1>1. CASE InitLoadsKey
  <2>1. Attended' = Attended
    BY <1>1 DEF InitLoadsKey, Attended
  <2>2. Held' = Held \/ Held' = storedKey
    BY <1>1 DEF InitLoadsKey
  <2>3. UNCHANGED <<storedKey, trusted, keyFaults>>
    BY <1>1 DEF InitLoadsKey
  <2> QED BY <2>1, <2>2, <2>3 DEF Abstract!Return, Abstract!vars
<1>2. CASE InitLoadFails
  <2>1. Attended' = Attended
    BY <1>2 DEF InitLoadFails, Attended
  <2>2. Held' \in {Held, NoKey} /\ ~(keyFaults' = {})
    BY <1>2 DEF InitLoadFails
  <2>3. UNCHANGED <<storedKey, trusted>>
    BY <1>2 DEF InitLoadFails
  <2> QED BY <2>1, <2>2, <2>3 DEF Abstract!Fail
<1>3. CASE ButtonPressed \/ ButtonIgnored \/ TriggerPulled \/ Tick
  <2>1. UNCHANGED <<Held, storedKey, trusted, keyFaults>>
    BY <1>3 DEF ButtonPressed, ButtonIgnored, TriggerPulled, OpenWindow, Tick
  <2> QED BY <1>0, <2>1 DEF Abstract!Attend
<1>4. ASSUME NEW k \in Keys \cup {Malformed}, RegisterRefused(k)
      PROVE  [Abstract!Next]_(Abstract!vars)
  BY <1>4 DEF RegisterRefused, storeVars, Abstract!vars, Attended
<1>5. ASSUME NEW k \in Keys \cup {Malformed}, RegisterKey(k)
      PROVE  [Abstract!Next]_(Abstract!vars)
  <2>1. Attended
    BY <1>5, RegistrationStep DEF StoreNext, RegisterKey, Attended
  <2>2. ~Attended'
    BY <1>5 DEF RegisterKey, Attended, NoPress
  <2>3. k \in Keys /\ Held' = k
    BY <1>5 DEF RegisterKey
  <2>4. trusted' = trusted \cup {k} /\ UNCHANGED <<storedKey, keyFaults>>
    BY <1>5 DEF RegisterKey
  <2> QED BY <2>1, <2>2, <2>3, <2>4 DEF Abstract!Register
<1>6. CASE RegisterSaved
  <2>1. Attended' = Attended
    BY <1>6 DEF RegisterSaved, Attended
  <2>2. storedKey' = Held /\ Held' = Held
    BY <1>6 DEF RegisterSaved, StoreInv, HeldInv
  <2>3. UNCHANGED <<trusted, keyFaults>>
    BY <1>6 DEF RegisterSaved
  <2> QED BY <2>1, <2>2, <2>3 DEF Abstract!Save
<1>7. CASE RegisterSaveFails
  <2>1. Attended' = Attended
    BY <1>7 DEF RegisterSaveFails, Attended
  <2>2. Held' = Held /\ ~(keyFaults' = {})
    BY <1>7 DEF RegisterSaveFails
  <2>3. UNCHANGED <<storedKey, trusted>>
    BY <1>7 DEF RegisterSaveFails
  <2> QED BY <2>1, <2>2, <2>3 DEF Abstract!Fail
<1>8. CASE RegisterDone
  <2>1. Attended' = Attended
    BY <1>8 DEF RegisterDone, Attended
  <2>2. keyFaults = {} => storedKey = Held
    BY <1>8 DEF RegisterDone, StoreInv, KeyInv
  <2>3. trusted' = {Held}
    BY <1>8 DEF RegisterDone, StoreInv, HeldInv
  <2>4. UNCHANGED <<Held, storedKey, keyFaults>>
    BY <1>8 DEF RegisterDone
  <2> QED BY <2>1, <2>2, <2>3, <2>4 DEF Abstract!Acknowledge
<1>9. CASE VerifyImports
  BY <1>9 DEF VerifyImports, Abstract!vars, Attended
<1>10. CASE StoreReset
  <2>1. ~Attended'
    BY <1>10 DEF StoreReset, Attended, NoPress
  <2>2. Held' = storedKey /\ UNCHANGED <<storedKey, trusted, keyFaults>>
    BY <1>10 DEF StoreReset
  <2>3. Attended' = FALSE
    BY <1>0, <2>1
  <2> QED BY <2>2, <2>3, Zenon DEF Abstract!Return
<1>11. CASE UNCHANGED storeVars
  BY <1>11 DEF storeVars, Abstract!vars, Attended
<1> QED
  BY <1>1, <1>2, <1>3, <1>4, <1>5, <1>6, <1>7, <1>8, <1>9, <1>10, <1>11
  DEF StoreNext

(* The key store of the code implements the promise of KeySpec: whatever   *)
(* the storage does, no key comes in that nobody was there to register.    *)
THEOREM KeyRefinement == StoreSpec => ImplementsKeySpec
<1>1. StoreInv /\ [StoreNext]_storeVars => [Abstract!Next]_(Abstract!vars)
  BY KeyRefinementStep
<1> QED
  BY <1>1, KeyRefinementInit, StoreInvHolds, PTL
  DEF StoreSpec, ImplementsKeySpec, Abstract!Spec

(* What KeySpec promises follows from its actions alone.                   *)
LEMMA HoldsOwnedKeyHolds == Abstract!Spec => []Abstract!HoldsOwnedKey
<1>1. Abstract!Init => Abstract!HoldsOwnedKey
  BY DEF Abstract!Init, Abstract!HoldsOwnedKey
<1>2. Abstract!HoldsOwnedKey /\ [Abstract!Next]_(Abstract!vars)
        => Abstract!HoldsOwnedKey'
  BY DEF Abstract!HoldsOwnedKey, Abstract!Next, Abstract!Attend,
    Abstract!Register, Abstract!Save, Abstract!Acknowledge, Abstract!Return,
    Abstract!Fail, Abstract!vars
<1> QED BY <1>1, <1>2, PTL DEF Abstract!Spec

(* So the key a device holds, before the first request of a boot too, and  *)
(* the one in its flash are keys it rightly holds                          *)
(* (tunnel_client_key.cpp:118-129).                                        *)
THEOREM StoreKeepsPromise == StoreSpec => []Abstract!HoldsOwnedKey
BY KeyRefinement, HoldsOwnedKeyHolds, PTL DEF ImplementsKeySpec
=============================================================================
