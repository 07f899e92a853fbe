--------------------------- MODULE ClientKeyStore ---------------------------
(***************************************************************************)
(* Registration of the client's public key under physical presence         *)
(* (src/lib/tunnel/tunnel_client_key.cpp).                                 *)
(*                                                                         *)
(* Init, Register and Verify are called by the thread that processes       *)
(* requests, one at a time; Init only once per boot, by the first signed   *)
(* request (EnsureReplay, tunnel_server.cpp:124-139).  Time, the button    *)
(* (whose handler runs on the system work queue) and resets fall between   *)
(* any two steps, those of Register included.                              *)
(***************************************************************************)
EXTENDS Integers

CONSTANTS Keys,       \* Ed25519 public keys of 32 bytes
          NoKey,      \* mKeyLen = 0, no value stored, PSA_KEY_ID_NULL
          Malformed,  \* a key of another length
          Window,     \* kRegistrationWindowMs, in ticks
          MaxUptime   \* bound: ticks a boot lasts in the model

ASSUME StoreAssumption == /\ NoKey \notin Keys /\ Malformed \notin Keys
                          /\ NoKey # Malformed
                          /\ Window \in Nat \ {0}
                          /\ MaxUptime \in Nat

NoPress == [at |-> -1, seen |-> "none"]

VARIABLES
  storedKey,     \* the value of "tunnel/clientkey" in flash
  mKey,          \* the registered key in RAM
  mImported,     \* the key the imported PSA handle stands for
  mWindowUntil,  \* uptime at which the window closes, 0 for closed
  uptime,        \* k_uptime_get()
  gHandler,      \* the button handler is installed: Init has run
  regStep,       \* the step Register makes next, or "idle"
  press,         \* history: the last press not yet used by a registration
  trusted,       \* history: the keys the device may rightly hold
  keyFaults      \* history: the storage failures there have been

storeVars == <<storedKey, mKey, mImported, mWindowUntil, uptime, gHandler,
               regStep, press, trusted, keyFaults>>

StoreTypeOK ==
  /\ storedKey \in Keys \cup {NoKey}
  /\ mKey \in Keys \cup {NoKey}
  /\ mImported \in Keys \cup {NoKey}
  /\ mWindowUntil \in 0 .. (MaxUptime + Window) /\ uptime \in 0 .. MaxUptime
  /\ gHandler \in BOOLEAN /\ regStep \in {"idle", "save", "close"}
  /\ press \in [at : -1 .. MaxUptime,
                seen : {"none", "opened", "registering", "ignored"}]
  /\ trusted \subseteq Keys \cup {NoKey}
  /\ keyFaults \subseteq {"saveLost", "loadLost"}

HasKey == mKey # NoKey

StoreInit ==
  /\ storedKey = NoKey /\ mKey = NoKey /\ mImported = NoKey
  /\ mWindowUntil = 0 /\ uptime = 0 /\ gHandler = FALSE /\ regStep = "idle"
  /\ press = NoPress /\ trusted = {NoKey} /\ keyFaults = {}

-----------------------------------------------------------------------------
(* Variants with a plausible slip, substituted by the project's mutants.   *)
RegisterKeepsHandle(k) ==
  /\ regStep = "idle"
  /\ mWindowUntil # 0 /\ uptime < mWindowUntil
  /\ k \in Keys /\ mKey' = k /\ regStep' = "save" /\ press' = NoPress
  /\ trusted' = trusted \cup {k}
  /\ UNCHANGED <<storedKey, mImported, mWindowUntil, uptime, gHandler,
                 keyFaults>>
RegisterLeavesWindow ==
  /\ regStep = "close" /\ regStep' = "idle" /\ trusted' = {mKey}
  /\ UNCHANGED <<storedKey, mKey, mImported, mWindowUntil, uptime, gHandler,
                 press, keyFaults>>
RegisterAcksUnsaved ==
  /\ regStep = "save" /\ regStep' = "close"
  /\ UNCHANGED <<storedKey, mKey, mImported, mWindowUntil, uptime, gHandler,
                 press, trusted, keyFaults>>
StoreInitClosesWindow ==
  /\ regStep = "idle" /\ ~gHandler
  /\ mKey' = IF storedKey = NoKey THEN mKey ELSE storedKey
  /\ gHandler' = TRUE /\ mWindowUntil' = 0
  /\ UNCHANGED <<storedKey, mImported, uptime, regStep, press, trusted,
                 keyFaults>>
OpenWindowLong == uptime + 2 * Window

-----------------------------------------------------------------------------
(* ClientKeyStore::Init.                                                   *)

(* A stored key is loaded over the one in RAM; the handler is installed.   *)
InitLoadsKey ==
  /\ regStep = "idle" /\ ~gHandler
  /\ mKey' = IF storedKey = NoKey THEN mKey ELSE storedKey
  /\ gHandler' = TRUE
  /\ UNCHANGED <<storedKey, mImported, mWindowUntil, uptime, regStep, press,
                 trusted, keyFaults>>

(* settings_subsys_init, the load or LoadCb fails: no key is loaded, and   *)
(* nothing is reported.                                                    *)
InitLoadFails ==
  /\ regStep = "idle" /\ ~gHandler
  /\ storedKey # NoKey
  /\ gHandler' = TRUE
  /\ keyFaults' = keyFaults \cup {"loadLost"}
  /\ UNCHANGED <<storedKey, mKey, mImported, mWindowUntil, uptime, regStep,
                 press, trusted>>

-----------------------------------------------------------------------------
(* The registration window.                                                *)

WindowOpen == mWindowUntil # 0 /\ uptime < mWindowUntil

WindowEnd == uptime + Window

OpenWindow ==
  /\ mWindowUntil' = WindowEnd
  /\ UNCHANGED <<storedKey, mKey, mImported, uptime, gHandler, regStep,
                 trusted, keyFaults>>

Seen == IF regStep = "idle" THEN "opened" ELSE "registering"

(* Button 4 with the handler installed.                                    *)
ButtonPressed ==
  /\ gHandler
  /\ OpenWindow
  /\ press' = [at |-> uptime, seen |-> Seen]

(* Button 4 before anything has installed the handler.                     *)
ButtonIgnored ==
  /\ ~gHandler
  /\ press' = IF WindowOpen THEN press ELSE [at |-> uptime, seen |-> "ignored"]
  /\ UNCHANGED <<storedKey, mKey, mImported, mWindowUntil, uptime, gHandler,
                 regStep, trusted, keyFaults>>

(* A product that has its own physical trigger calls OpenWindow directly   *)
(* (SECURITY.md:49-54).                                                    *)
TriggerPulled ==
  /\ OpenWindow
  /\ press' = [at |-> uptime, seen |-> Seen]

Tick ==
  /\ uptime < MaxUptime
  /\ uptime' = uptime + 1
  /\ UNCHANGED <<storedKey, mKey, mImported, mWindowUntil, gHandler, regStep,
                 press, trusted, keyFaults>>

-----------------------------------------------------------------------------
(* ClientKeyStore::Register.                                               *)

RegisterRefused(k) ==
  /\ regStep = "idle"
  /\ ~WindowOpen \/ k = Malformed
  /\ UNCHANGED storeVars

(* The key is copied and the handle of the old key dropped.                *)
RegisterKey(k) ==
  /\ regStep = "idle"
  /\ WindowOpen
  /\ k \in Keys /\ mKey' = k /\ mImported' = NoKey /\ regStep' = "save"
  /\ press' = NoPress
  /\ trusted' = trusted \cup {k}
  /\ UNCHANGED <<storedKey, mWindowUntil, uptime, gHandler, keyFaults>>

RegisterSaved ==
  /\ regStep = "save" /\ storedKey' = mKey /\ regStep' = "close"
  /\ UNCHANGED <<mKey, mImported, mWindowUntil, uptime, gHandler, press,
                 trusted, keyFaults>>

(* settings_save_one returns an error and the key is not written.  The     *)
(* error is logged and no more, so one returned after the write is the     *)
(* step above.                                                             *)
RegisterSaveFails ==
  /\ regStep = "save"
  /\ storedKey # mKey
  /\ regStep' = "close"
  /\ keyFaults' = keyFaults \cup {"saveLost"}
  /\ UNCHANGED <<storedKey, mKey, mImported, mWindowUntil, uptime, gHandler,
                 press, trusted>>

(* The window is closed and Register returns success: from here on the     *)
(* device acknowledges the key.                                            *)
RegisterDone ==
  /\ regStep = "close" /\ mWindowUntil' = 0 /\ regStep' = "idle"
  /\ trusted' = {mKey}
  /\ UNCHANGED <<storedKey, mKey, mImported, uptime, gHandler, press,
                 keyFaults>>

-----------------------------------------------------------------------------
(* ClientKeyStore::Verify imports the key on its first use; the import may *)
(* fail, and then the next Verify tries again.                             *)
VerifyImports ==
  /\ regStep = "idle" /\ gHandler
  /\ HasKey
  /\ mImported = NoKey /\ mImported' = mKey
  /\ UNCHANGED <<storedKey, mKey, mWindowUntil, uptime, gHandler, regStep,
                 press, trusted, keyFaults>>

(* The signer whose signatures Verify accepts once it has imported.        *)
VerifyingKey == mImported

StoreReset ==
  /\ mKey' = NoKey /\ mImported' = NoKey /\ mWindowUntil' = 0 /\ uptime' = 0
  /\ gHandler' = FALSE /\ regStep' = "idle" /\ press' = NoPress
  /\ UNCHANGED <<storedKey, trusted, keyFaults>>

StoreNext ==
  \/ InitLoadsKey \/ InitLoadFails
  \/ ButtonPressed \/ ButtonIgnored \/ TriggerPulled \/ Tick
  \/ \E k \in Keys \cup {Malformed} : RegisterRefused(k) \/ RegisterKey(k)
  \/ RegisterSaved \/ RegisterSaveFails \/ RegisterDone
  \/ VerifyImports
  \/ StoreReset

StoreSpec == StoreInit /\ [][StoreNext]_storeVars

-----------------------------------------------------------------------------
(* The signatures the device accepts are those of the key it holds: the    *)
(* imported handle never outlives a registration                           *)
(* (tunnel_client_key.cpp:112-116, 138-147).                               *)
ImportedIsRegistered == mImported # NoKey => mImported = mKey

(* One registration per press: a key is taken only within Window of a      *)
(* press (or the product's trigger) that no earlier registration of this   *)
(* boot has used, a press in the middle of one included                    *)
(* (tunnel_client_key.cpp:106, 123-125).                                   *)
OneRegistrationPerPress ==
  [][regStep = "idle" /\ regStep' = "save" =>
       /\ press.seen = "opened"
       /\ uptime < press.at + Window]_storeVars

(* A press the handler sees while no registration is under way holds the   *)
(* window open for its whole length, unless a registration uses it:        *)
(* neither Init, Verify nor another press shortens it.                     *)
PressHoldsWindow ==
  press.seen = "opened" /\ uptime < press.at + Window => WindowOpen

(* The key the device holds is the one it acknowledged last, or the one of *)
(* a registration that a reset cut short after it had begun; it is never   *)
(* lost or rolled back to an older one, while the storage does not fail.   *)
KeyIsTrusted ==
  keyFaults = {} /\ gHandler => mKey \in trusted

(* The key the device holds, or will once this boot has loaded it.         *)
Held == IF gHandler \/ mKey # NoKey THEN mKey ELSE storedKey

(* Somebody is at the device while a press of theirs is good for a         *)
(* registration that has not begun.                                        *)
Attended == press.seen = "opened" /\ uptime < press.at + Window

(* The store implements the abstract specification.                        *)
Abstract == INSTANCE KeySpec WITH
  key <- Held, saved <- storedKey, owned <- trusted, armed <- Attended,
  intact <- (keyFaults = {})
ImplementsKeySpec == Abstract!Spec

-----------------------------------------------------------------------------
(* "A button press on the device opens a registration window (60 s)"       *)
(* (tunnel_client_key.h:29).  Presses in the middle of a registration are  *)
(* left out of the claim.                                                  *)
ButtonOpensWindow ==
  press.seen \in {"opened", "ignored"} /\ uptime < press.at + Window
    => WindowOpen
=============================================================================
