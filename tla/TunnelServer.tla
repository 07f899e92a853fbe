---------------------------- MODULE TunnelServer ----------------------------
(***************************************************************************)
(* One device: tunnel::ProcessRequest (src/lib/tunnel/tunnel_server.cpp)   *)
(* over its replay guard and its client key store, as built with           *)
(* CONFIG_TUNNEL_SECURITY and CONFIG_TUNNEL_CLIENT_AUTH and one transport. *)
(*                                                                         *)
(* Requests come from a relay nobody trusts, so any request may arrive at  *)
(* any time and as often as the relay likes.  They are processed one after *)
(* another; the button, time and resets fall between any two steps.        *)
(* Signatures are those of Preimage.tla: a request's signer is the key its *)
(* signature verifies under with the fields it carries, NoKey when there   *)
(* is none (a field was altered, or it was made for another device).       *)
(***************************************************************************)
EXTENDS Integers, FiniteSets

CONSTANTS Modulus, Reserve,                          \* see ReplayGuard
          Keys, NoKey, Malformed, Window, MaxUptime, \* see ClientKeyStore
          MaxFaults      \* bound on the kinds of storage failure met

ASSUME ServerAssumption ==
         /\ Modulus \in Nat /\ Reserve \in 1 .. (Modulus - 1)
         /\ NoKey \notin Keys /\ Malformed \notin Keys /\ NoKey # Malformed
         /\ Window \in Nat \ {0} /\ MaxUptime \in Nat
         /\ MaxFaults \in Nat

VARIABLES stored, mFloor, mCeiling, mPersistent, gReplayReady, step, arg,
          used, faults
VARIABLES storedKey, mKey, mImported, mWindowUntil, uptime, gHandler,
          regStep, press, trusted, keyFaults
VARIABLES gBundle,  \* gBundleLen # 0: identity and device key are ready
          phase,    \* what ProcessRequest does next, or "idle"
          req,      \* the request in progress, NoRequest between requests
          reply,    \* what the last request was answered with
          responded \* history: the counters of the responses sent

Guard == INSTANCE ReplayGuard
Store == INSTANCE ClientKeyStore

guardVars == <<stored, mFloor, mCeiling, mPersistent, gReplayReady, step, arg,
               used, faults>>
storeVars == <<storedKey, mKey, mImported, mWindowUntil, uptime, gHandler,
               regStep, press, trusted, keyFaults>>
serverVars == <<gBundle, phase, req, reply, responded>>
vars == <<guardVars, storeVars, serverVars>>

(* A payload is told apart only by its length, which is looked at twice:   *)
(* against the preimage buffer and against the response                    *)
(* (tunnel_server.cpp:276-281, 336).  It is chosen there.                  *)
Signed == [type : {"signed"}, counter : Guard!Counter,
           signer : Keys \cup {NoKey}]
Register == [type : {"register"}, key : Keys \cup {Malformed}]
Plain == [type : {"echo", "identity", "invalid"}]
Request == Signed \cup Register \cup Plain

Plainly(t) == [type |-> t]
NoRequest == Plainly("none")

-----------------------------------------------------------------------------
(* Variants with a plausible slip, substituted by the project's mutants.   *)
AuthPassesUnchecked ==
  /\ phase = "auth" /\ mImported # NoKey
  /\ phase' = "fresh"
  /\ UNCHANGED <<gBundle, req, reply, responded, guardVars, storeVars>>
SignResponseUndoesAccept ==
  /\ phase = "sign"
  /\ phase' = "idle" /\ req' = NoRequest
  /\ UNCHANGED <<gBundle, responded>>
  /\ \/ /\ reply' = "failure"
        /\ mFloor' = mFloor - 1
        /\ UNCHANGED <<stored, mCeiling, mPersistent, gReplayReady, step, arg,
                       used, faults>>
     \/ reply' = "none" /\ UNCHANGED guardVars
  /\ UNCHANGED storeVars

-----------------------------------------------------------------------------
(* A reply is told apart by its type and what makes the code give it.      *)
Replies == {"none", "echo", "chunk", "response", "ack", "replayReject",
            "authReject", "failure", "invalidCommand", "constraintError"}

TypeOK ==
  /\ Guard!TypeOK /\ Store!StoreTypeOK
  /\ gBundle \in BOOLEAN
  /\ phase \in {"idle", "bundle", "replay", "store", "auth", "fresh",
                "accept", "sign", "register", "ack"}
  /\ req \in Request \cup {NoRequest}
  /\ reply \in Replies /\ responded \subseteq Guard!Counter

Init ==
  /\ Guard!GuardInit /\ Store!StoreInit
  /\ gBundle = FALSE /\ phase = "idle" /\ req = NoRequest /\ reply = "none"
  /\ responded = {}

-----------------------------------------------------------------------------
(* ProcessRequest returns with an answer.                                  *)
Answer(a) == /\ phase' = "idle"
             /\ reply' = a
             /\ req' = NoRequest
             /\ UNCHANGED gBundle

AnswerOnly(a) == Answer(a) /\ UNCHANGED responded

Go(p) == phase' = p /\ UNCHANGED <<gBundle, req, reply, responded>>

KeepParts == UNCHANGED <<guardVars, storeVars>>

(* A failure of the storage under one of the parts may come next.          *)
MayFail == Cardinality(faults) + Cardinality(keyFaults) < MaxFaults

-----------------------------------------------------------------------------
(* Parsing and the switch on the type.                                     *)
Receive(m) ==
  /\ phase = "idle"
  /\ \/ m.type = "echo"
        /\ \/ AnswerOnly("echo")
           \/ AnswerOnly("constraintError")  \* longer than out
     \/ m.type = "invalid" /\ AnswerOnly("invalidCommand")
     \/ /\ m.type \in {"identity", "signed", "register"}
        /\ phase' = "bundle"
        /\ req' = m
        /\ reply' = "none"
        /\ UNCHANGED <<gBundle, responded>>
  /\ KeepParts

(* EnsureBundle, which every type but Echo needs: the signer, the DAC      *)
(* signature, the certificates and the exported device key.  An identity   *)
(* request is refused when its offset is past the end of the bundle.       *)
EnsureBundle ==
  /\ phase = "bundle"
  /\ gBundle' = TRUE
  /\ \/ /\ req.type = "identity"
        /\ phase' = "idle" /\ req' = NoRequest
        /\ reply' \in {"chunk", "constraintError"}
     \/ /\ req.type = "signed"
        /\ phase' = "replay" /\ UNCHANGED <<req, reply>>
     \/ /\ req.type = "register"
        /\ phase' = "register" /\ UNCHANGED <<req, reply>>
  /\ UNCHANGED responded
  /\ KeepParts

(* The signer, the DAC or the buffer fails; the next request tries again.  *)
BundleFails ==
  /\ phase = "bundle" /\ ~gBundle
  /\ AnswerOnly("failure")
  /\ KeepParts

(* EnsureReplay has run in this boot.                                      *)
ReplayReady ==
  /\ phase = "replay" /\ gReplayReady
  /\ Go("auth")
  /\ KeepParts

(* EnsureReplay, first signed request of the boot: ReplayGuard::Init ...   *)
ReplayInit ==
  /\ phase = "replay"
  /\ \/ /\ \/ Guard!LoadCeiling \/ Guard!ReserveSaved
           \/ MayFail /\ Guard!InitNotPersistent
        /\ Go("store")
     \/ /\ Guard!LoadNothing \/ (MayFail /\ Guard!LoadFails)
        /\ UNCHANGED serverVars
     \/ /\ MayFail /\ Guard!ReserveFails
        /\ AnswerOnly("failure")
  /\ UNCHANGED storeVars

(* ... and then ClientKeyStore::Init.                                      *)
StoreInit ==
  /\ phase = "store"
  /\ Store!InitLoadsKey \/ (MayFail /\ Store!InitLoadFails)
  /\ Go("auth")
  /\ UNCHANGED guardVars

(* Authenticity: a registered key, a payload whose preimage fits its       *)
(* buffer, and a signature that verifies under the imported key.  The      *)
(* import may fail.                                                        *)
AuthFails ==
  /\ phase = "auth"
  /\ \/ /\ ~Store!HasKey
        /\ AnswerOnly("authReject")
     \/ /\ Store!HasKey
        /\ AnswerOnly("constraintError")  \* longer than the preimage allows
     \/ /\ Store!HasKey
        /\ mImported = NoKey \/ req.signer # Store!VerifyingKey
        /\ AnswerOnly("authReject")
  /\ KeepParts

AuthImport ==
  /\ phase = "auth"
  /\ Store!VerifyImports
  /\ UNCHANGED <<guardVars, serverVars>>

AuthPasses ==
  /\ phase = "auth"
  /\ mImported # NoKey /\ req.signer = Store!VerifyingKey
  /\ Go("fresh")
  /\ KeepParts

(* Freshness, and the acceptance of the counter.                           *)
StaleRejected ==
  /\ phase = "fresh"
  /\ ~Guard!IsFresh(req.counter)
  /\ AnswerOnly("replayReject")
  /\ KeepParts

AcceptStarts ==
  /\ phase = "fresh"
  /\ \/ /\ Guard!AcceptReserved(req.counter) \/ Guard!AcceptExtend(req.counter)
        /\ Go("accept")
     \/ /\ Guard!AcceptExhausted(req.counter)
        /\ AnswerOnly("failure")
  /\ UNCHANGED storeVars

AcceptEnds ==
  /\ phase = "accept"
  /\ \/ Guard!ExtendSaved /\ UNCHANGED serverVars
     \/ MayFail /\ Guard!ExtendFails /\ AnswerOnly("failure")
     \/ Guard!Commit /\ Go("sign")
  /\ UNCHANGED storeVars

(* The response is signed and, if its payload is short enough, sent.       *)
SignResponse ==
  /\ phase = "sign"
  /\ \/ AnswerOnly("failure")
     \/ AnswerOnly("constraintError")  \* longer than the response allows
     \/ Answer("response") /\ responded' = responded \cup {req.counter}
  /\ KeepParts

(* RegisterClientKey.                                                      *)
RegisterStarts ==
  /\ phase = "register"
  /\ \/ Store!RegisterRefused(req.key)
        /\ AnswerOnly("authReject")
     \/ Store!RegisterKey(req.key) /\ UNCHANGED serverVars
  /\ UNCHANGED guardVars

RegisterEnds ==
  /\ phase = "register"
  /\ \/ /\ Store!RegisterSaved \/ (MayFail /\ Store!RegisterSaveFails)
        /\ UNCHANGED serverVars
     \/ Store!RegisterDone /\ Go("ack")
  /\ UNCHANGED guardVars

(* The stored key is signed with counter 0 and acknowledged.               *)
AckRegistration ==
  /\ phase = "ack"
  /\ \/ AnswerOnly("failure")
     \/ AnswerOnly("ack")
  /\ KeepParts

Process ==
  \/ EnsureBundle \/ BundleFails \/ ReplayReady \/ ReplayInit \/ StoreInit
  \/ AuthFails \/ AuthImport \/ AuthPasses
  \/ StaleRejected \/ AcceptStarts \/ AcceptEnds \/ SignResponse
  \/ RegisterStarts \/ RegisterEnds \/ AckRegistration

-----------------------------------------------------------------------------
(* What happens beside ProcessRequest.                                     *)
Surroundings ==
  /\ \/ Store!ButtonPressed \/ Store!ButtonIgnored \/ Store!TriggerPulled
     \/ Store!Tick
  /\ UNCHANGED <<guardVars, serverVars>>

DeviceReset ==
  /\ Guard!Reset /\ Store!StoreReset
  /\ gBundle' = FALSE /\ phase' = "idle" /\ req' = NoRequest
  /\ reply' = "none"
  /\ UNCHANGED responded

Next ==
  \/ \E m \in Request : Receive(m)
  \/ Process
  \/ Surroundings
  \/ DeviceReset

Spec == Init /\ [][Next]_vars

-----------------------------------------------------------------------------
(* Origin: whatever is executed was signed by the key the device holds at  *)
(* that moment, although checking and answering are steps apart            *)
(* (SECURITY.md:82-84).                                                    *)
AnsweredForRegisteredKey ==
  [][responded' # responded => req.signer = mKey]_vars

(* At most once: a command about to be answered has a counter above that   *)
(* of every command answered before, in any boot, whatever the relay       *)
(* repeats or reorders (SECURITY.md:14-16).                                *)
AtMostOnce ==
  Guard!Intact /\ phase = "sign" => \A c \in responded : c < req.counter

(* A response cannot be taken for a registration acknowledgement: both are *)
(* signed with the same key and direction, the acknowledgement with        *)
(* counter 0 (tunnel_server.cpp:398), which no response ever carries.      *)
AckIsNoResponse == 0 \notin responded

(* Authenticity comes before freshness: once Init has run, nothing but a   *)
(* request signed by the registered key moves the floor, the ceiling or    *)
(* the flash (tunnel_server.cpp:235-237).                                  *)
OnlyAuthenticDrives ==
  [][gReplayReady /\ gReplayReady' /\ <<mFloor, mCeiling, stored>>' #
                                      <<mFloor, mCeiling, stored>>
       => req.type = "signed" /\ req.signer = mKey /\ mKey # NoKey]_vars

(* The device keeps both of its parts to their specifications, so what     *)
(* holds of them alone holds of them here.                                 *)
GuardSpec == Guard!Spec
StoreSpec == Store!StoreSpec
PartsSpec == GuardSpec /\ StoreSpec
=============================================================================
