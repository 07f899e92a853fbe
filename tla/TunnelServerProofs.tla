------------------------- MODULE TunnelServerProofs -------------------------
(***************************************************************************)
(* Proofs about TunnelServer, for every number of counters, size of the    *)
(* reservation, set of keys and number of storage failures.                *)
(*                                                                         *)
(* Each step of the server is a step or a stutter of either part, so the   *)
(* invariants of ReplayGuardProofs and ClientKeyStoreProofs hold of the    *)
(* parts of the server.  Its own properties follow from them and from what *)
(* the stage of ProcessRequest says of the request: StageInv.              *)
(***************************************************************************)
EXTENDS TunnelServer, TLAPS

GP == INSTANCE ReplayGuardProofs
SP == INSTANCE ClientKeyStoreProofs

(* The request under way is a signed one where the code reads its counter; *)
(* the counter Accept works on is its own; once accepted it is used.       *)
StageInv ==
  /\ req \in Request \cup {NoRequest}
  /\ phase \in {"replay", "store", "auth", "fresh", "accept", "sign"}
       => req \in Signed
  /\ phase = "accept" => arg = req.counter
  /\ phase = "sign" => req.counter \in used

(* Past the check of its signature a request is that of the key held.      *)
AuthInv ==
  phase \in {"fresh", "accept", "sign"} => req.signer = mKey /\ mKey # NoKey

(* Only accepted counters are answered, and 0 is never accepted.           *)
OnceInv == responded \subseteq used /\ 0 \notin used

LEMMA StageInit == Init => StageInv /\ AuthInv /\ OnceInv
BY DEF Init, StageInv, AuthInv, OnceInv, NoRequest, Plainly, Guard!GuardInit

LEMMA StageStep ==
  ASSUME StageInv, [Next]_vars
  PROVE  StageInv'
<1> USE DEF StageInv
<1>1. ASSUME NEW m \in Request, Receive(m) PROVE StageInv'
  BY <1>1 DEF Receive, AnswerOnly, Answer
<1>2. CASE EnsureBundle
  BY <1>2 DEF EnsureBundle, Request, Register, Plain, NoRequest, Plainly
<1>3. CASE BundleFails \/ AuthFails \/ StaleRejected \/ SignResponse
           \/ AckRegistration
  BY <1>3 DEF BundleFails, AuthFails, StaleRejected, SignResponse,
    AckRegistration, AnswerOnly, Answer
<1>4. CASE ReplayReady \/ StoreInit \/ AuthPasses
  BY <1>4 DEF ReplayReady, StoreInit, AuthPasses, Go
<1>5. CASE ReplayInit
  BY <1>5 DEF ReplayInit, Go, AnswerOnly, Answer, serverVars
<1>6. CASE AuthImport \/ Surroundings
  BY <1>6 DEF AuthImport, Surroundings, serverVars, guardVars
<1>7. CASE AcceptStarts
  BY <1>7 DEF AcceptStarts, Go, AnswerOnly, Answer, Guard!AcceptReserved,
    Guard!AcceptExtend
<1>8. CASE AcceptEnds
  BY <1>8 DEF AcceptEnds, Go, AnswerOnly, Answer, Guard!ExtendSaved,
    Guard!Commit, serverVars
<1>9. CASE RegisterStarts \/ RegisterEnds
  BY <1>9 DEF RegisterStarts, RegisterEnds, Go, AnswerOnly, Answer, serverVars,
    guardVars
<1>10. CASE DeviceReset
  BY <1>10 DEF DeviceReset
<1>11. CASE UNCHANGED vars
  BY <1>11 DEF vars, serverVars, guardVars
<1> QED
  BY <1>1, <1>2, <1>3, <1>4, <1>5, <1>6, <1>7, <1>8, <1>9, <1>10, <1>11
  DEF Next, Process

-----------------------------------------------------------------------------
(* A step of the server is a step or a stutter of the guard.               *)
LEMMA GuardStep ==
  ASSUME StageInv, [Next]_vars
  PROVE  [Guard!GuardNext]_guardVars
<1> USE DEF Guard!GuardNext
<1>1. ASSUME NEW m \in Request, Receive(m) PROVE UNCHANGED guardVars
  BY <1>1 DEF Receive, KeepParts
<1>2. CASE EnsureBundle \/ BundleFails \/ ReplayReady \/ AuthFails \/ AuthPasses
           \/ StaleRejected \/ SignResponse \/ AckRegistration
  BY <1>2 DEF EnsureBundle, BundleFails, ReplayReady, AuthFails, AuthPasses,
    StaleRejected, SignResponse, AckRegistration, KeepParts
<1>3. CASE StoreInit \/ AuthImport \/ RegisterStarts \/ RegisterEnds
           \/ Surroundings
  BY <1>3 DEF StoreInit, AuthImport, RegisterStarts, RegisterEnds, Surroundings
<1>4. CASE ReplayInit
  BY <1>4 DEF ReplayInit
<1>5. CASE AcceptStarts
  <2>1. req.counter \in Guard!Counter
    BY <1>5 DEF AcceptStarts, StageInv, Signed
  <2> QED BY <1>5, <2>1 DEF AcceptStarts
<1>6. CASE AcceptEnds
  BY <1>6 DEF AcceptEnds
<1>7. CASE DeviceReset
  BY <1>7 DEF DeviceReset
<1>8. CASE UNCHANGED vars
  BY <1>8 DEF vars
<1> QED
  BY <1>1, <1>2, <1>3, <1>4, <1>5, <1>6, <1>7, <1>8 DEF Next, Process

(* A step of the server is a step or a stutter of the key store.           *)
LEMMA StoreStep ==
  ASSUME StageInv, [Next]_vars
  PROVE  [Store!StoreNext]_storeVars
<1> USE DEF Store!StoreNext
<1>1. ASSUME NEW m \in Request, Receive(m) PROVE UNCHANGED storeVars
  BY <1>1 DEF Receive, KeepParts
<1>2. CASE EnsureBundle \/ BundleFails \/ ReplayReady \/ AuthFails \/ AuthPasses
           \/ StaleRejected \/ SignResponse \/ AckRegistration
  BY <1>2 DEF EnsureBundle, BundleFails, ReplayReady, AuthFails, AuthPasses,
    StaleRejected, SignResponse, AckRegistration, KeepParts
<1>3. CASE ReplayInit \/ AcceptStarts \/ AcceptEnds
  BY <1>3 DEF ReplayInit, AcceptStarts, AcceptEnds
<1>4. CASE StoreInit \/ AuthImport \/ Surroundings
  BY <1>4 DEF StoreInit, AuthImport, Surroundings
<1>5. CASE RegisterStarts
  <2>1. CASE UNCHANGED storeVars
    BY <2>1
  <2>2. CASE Store!RegisterKey(req.key)
    BY <2>2 DEF Store!RegisterKey
  <2> QED BY <1>5, <2>1, <2>2 DEF RegisterStarts, Store!RegisterRefused,
    storeVars, Store!storeVars
<1>6. CASE RegisterEnds
  BY <1>6 DEF RegisterEnds
<1>7. CASE DeviceReset
  BY <1>7 DEF DeviceReset
<1>8. CASE UNCHANGED vars
  BY <1>8 DEF vars
<1> QED
  BY <1>1, <1>2, <1>3, <1>4, <1>5, <1>6, <1>7, <1>8 DEF Next, Process

LEMMA StageInvHolds == Spec => []StageInv
BY StageInit, StageStep, PTL DEF Spec

(* The server keeps its replay guard to the specification of the guard.    *)
THEOREM GuardSpecHolds == Spec => GuardSpec
<1>1. Init => Guard!GuardInit
  BY DEF Init
<1>2. StageInv /\ [Next]_vars => [Guard!GuardNext]_(Guard!guardVars)
  BY GuardStep DEF guardVars, Guard!guardVars
<1> QED
  BY <1>1, <1>2, StageInvHolds, PTL DEF Spec, GuardSpec, Guard!Spec

(* The server keeps its key store to the specification of the store.       *)
THEOREM StoreSpecHolds == Spec => StoreSpec
<1>1. Init => Store!StoreInit
  BY DEF Init
<1>2. StageInv /\ [Next]_vars => [Store!StoreNext]_(Store!storeVars)
  BY StoreStep DEF storeVars, Store!storeVars
<1> QED
  BY <1>1, <1>2, StageInvHolds, PTL DEF Spec, StoreSpec, Store!StoreSpec

(* Both at once.                                                           *)
THEOREM PartsSpecHolds == Spec => PartsSpec
BY GuardSpecHolds, StoreSpecHolds, PTL DEF PartsSpec

-----------------------------------------------------------------------------
(* What is proved of the parts is proved of definitions with other names.  *)
LEMMA SameGuard ==
  /\ Guard!GuardInit <=> GP!GuardInit
  /\ [Guard!GuardNext]_(Guard!guardVars) <=> [GP!GuardNext]_(GP!guardVars)
<1>1. Guard!GuardInit <=> GP!GuardInit
  BY DEF Guard!GuardInit, GP!GuardInit, Guard!NotStored, GP!NotStored
<1> USE DEF Guard!ram, GP!ram, Guard!hist, GP!hist, Guard!guardVars,
        GP!guardVars
<1>2. Guard!GuardNext <=> GP!GuardNext
  BY Zenon
  DEF Guard!GuardNext, Guard!InitNotPersistent, Guard!LoadCeiling,
    Guard!LoadNothing, Guard!LoadFails, Guard!ReserveSaved,
    Guard!ReserveFails, Guard!AcceptReserved, Guard!AcceptExhausted,
    Guard!AcceptExtend, Guard!ExtendSaved, Guard!ExtendFails, Guard!Commit,
    Guard!Reset, Guard!Counter, Guard!NotStored, Guard!Durable,
    Guard!InitCalled, Guard!ReserveFirst, Guard!AcceptCalled, Guard!IsFresh,
    Guard!NextCeiling,
    GP!GuardNext, GP!InitNotPersistent, GP!LoadCeiling, GP!LoadNothing,
    GP!LoadFails, GP!ReserveSaved, GP!ReserveFails, GP!AcceptReserved,
    GP!AcceptExhausted, GP!AcceptExtend, GP!ExtendSaved, GP!ExtendFails,
    GP!Commit, GP!Reset, GP!Counter, GP!NotStored, GP!Durable, GP!InitCalled,
    GP!ReserveFirst, GP!AcceptCalled, GP!IsFresh, GP!NextCeiling
<1> QED BY <1>1, <1>2

LEMMA SameStore ==
  /\ Store!StoreInit <=> SP!StoreInit
  /\ [Store!StoreNext]_(Store!storeVars) <=> [SP!StoreNext]_(SP!storeVars)
<1> USE DEF Store!NoPress, SP!NoPress, Store!storeVars, SP!storeVars
<1>1. Store!StoreInit <=> SP!StoreInit
  BY DEF Store!StoreInit, SP!StoreInit
<1>2. Store!StoreNext <=> SP!StoreNext
  BY Zenon
  DEF Store!StoreNext, Store!InitLoadsKey, Store!InitLoadFails,
    Store!ButtonPressed, Store!ButtonIgnored, Store!TriggerPulled, Store!Tick,
    Store!RegisterRefused, Store!RegisterKey, Store!RegisterSaved,
    Store!RegisterSaveFails, Store!RegisterDone, Store!VerifyImports,
    Store!StoreReset, Store!WindowOpen, Store!OpenWindow, Store!WindowEnd,
    Store!Seen, Store!HasKey,
    SP!StoreNext, SP!InitLoadsKey, SP!InitLoadFails, SP!ButtonPressed,
    SP!ButtonIgnored, SP!TriggerPulled, SP!Tick, SP!RegisterRefused,
    SP!RegisterKey, SP!RegisterSaved, SP!RegisterSaveFails, SP!RegisterDone,
    SP!VerifyImports, SP!StoreReset, SP!WindowOpen, SP!OpenWindow,
    SP!WindowEnd, SP!Seen, SP!HasKey
<1> QED BY <1>1, <1>2

PartsInv == GP!GuardInv /\ SP!StoreInv

LEMMA PartsAssumptions == GP!ReserveAssumption /\ SP!StoreAssumption
BY ServerAssumption DEF GP!ReserveAssumption, SP!StoreAssumption

(* So what the two parts promise the server promises: it implements the    *)
(* abstract specification of a replay guard ...                            *)
THEOREM ServerImplementsReplaySpec == Spec => GP!ImplementsReplaySpec
<1>1. GuardSpec => GP!Spec
  BY SameGuard, PTL DEF GuardSpec, Guard!Spec, GP!Spec
<1>2. GP!Spec => GP!ImplementsReplaySpec
  BY PartsAssumptions, GP!Refinement
<1> QED BY <1>1, <1>2, GuardSpecHolds, PTL

(* ... and that of the registration of a client key, so no request makes   *)
(* the device hold a key that nobody was there to register.                *)
THEOREM ServerImplementsKeySpec == Spec => SP!ImplementsKeySpec
<1>1. StoreSpec => SP!StoreSpec
  BY SameStore, PTL DEF StoreSpec, Store!StoreSpec, SP!StoreSpec
<1>2. SP!StoreSpec => SP!ImplementsKeySpec
  BY PartsAssumptions, SP!KeyRefinement
<1> QED BY <1>1, <1>2, StoreSpecHolds, PTL

LEMMA PartsInvHolds == Spec => []PartsInv
<1>1. Init => PartsInv
  BY PartsAssumptions, SameGuard, SameStore, GP!GuardInvInit, SP!StoreInvInit
  DEF Init, PartsInv
<1>2. StageInv /\ PartsInv /\ [Next]_vars => PartsInv'
  <2> SUFFICES ASSUME StageInv, PartsInv, [Next]_vars PROVE PartsInv'
    OBVIOUS
  <2>1. [GP!GuardNext]_(GP!guardVars)
    BY GuardStep, SameGuard DEF guardVars, Guard!guardVars
  <2>2. [SP!StoreNext]_(SP!storeVars)
    BY StoreStep, SameStore DEF storeVars, Store!storeVars
  <2> QED
    BY PartsAssumptions, <2>1, <2>2, GP!GuardInvStep, SP!StoreInvStep DEF PartsInv
<1> QED
  BY <1>1, <1>2, StageInvHolds, PTL DEF Spec

-----------------------------------------------------------------------------
(* Past the check of its signature a request is that of the key held: what *)
(* verified is what was imported, and that is what is registered.          *)
LEMMA AuthStep ==
  ASSUME StageInv, PartsInv, AuthInv, [Next]_vars
  PROVE  AuthInv'
<1> USE DEF AuthInv
<1>1. ASSUME NEW m \in Request, Receive(m) PROVE AuthInv'
  BY <1>1 DEF Receive, AnswerOnly, Answer
<1>2. CASE EnsureBundle \/ ReplayReady
  BY <1>2 DEF EnsureBundle, ReplayReady, Go
<1>3. CASE BundleFails \/ AuthFails \/ StaleRejected \/ SignResponse
           \/ AckRegistration
  BY <1>3 DEF BundleFails, AuthFails, StaleRejected, SignResponse,
    AckRegistration, AnswerOnly, Answer
<1>4. CASE ReplayInit \/ StoreInit
  BY <1>4 DEF ReplayInit, StoreInit, Go, AnswerOnly, Answer, serverVars,
    Guard!LoadNothing
<1>5. CASE AuthImport
  BY <1>5 DEF AuthImport, serverVars
<1>6. CASE AuthPasses
  BY <1>6 DEF AuthPasses, Go, KeepParts, storeVars, PartsInv, SP!StoreInv,
    SP!ImportInv, Store!VerifyingKey
<1>7. CASE AcceptStarts
  BY <1>7 DEF AcceptStarts, Go, AnswerOnly, Answer, storeVars
<1>8. CASE AcceptEnds
  BY <1>8 DEF AcceptEnds, Go, AnswerOnly, Answer, serverVars, storeVars
<1>9. CASE RegisterStarts \/ RegisterEnds
  BY <1>9 DEF RegisterStarts, RegisterEnds, Go, AnswerOnly, Answer, serverVars
<1>10. CASE Surroundings
  BY <1>10 DEF Surroundings, serverVars, Store!ButtonPressed, Store!OpenWindow,
    Store!ButtonIgnored, Store!TriggerPulled, Store!Tick
<1>11. CASE DeviceReset
  BY <1>11 DEF DeviceReset
<1>12. CASE UNCHANGED vars
  BY <1>12 DEF vars, serverVars, storeVars
<1> QED
  BY <1>1, <1>2, <1>3, <1>4, <1>5, <1>6, <1>7, <1>8, <1>9, <1>10, <1>11,
     <1>12 DEF Next, Process

(* A counter becomes used only by a commit, which is of a fresh one.       *)
LEMMA UsedStep ==
  ASSUME PartsInv, 0 \notin used, [Guard!GuardNext]_guardVars
  PROVE  used \subseteq used' /\ 0 \notin used'
<1>1. step = "commit" => arg # 0
  BY PartsAssumptions DEF PartsInv, GP!GuardInv, GP!CallInv, GP!TypeOK, GP!Counter
<1> QED
  BY <1>1
  DEF guardVars, Guard!GuardNext, Guard!InitNotPersistent, Guard!LoadCeiling,
    Guard!LoadNothing, Guard!LoadFails, Guard!ReserveFirst, Guard!ReserveSaved,
    Guard!ReserveFails, Guard!AcceptReserved, Guard!AcceptExhausted,
    Guard!AcceptExtend, Guard!ExtendSaved, Guard!ExtendFails, Guard!Commit,
    Guard!Reset, Guard!guardVars, Guard!hist

LEMMA OnceStep ==
  ASSUME StageInv, PartsInv, OnceInv, [Next]_vars
  PROVE  OnceInv'
<1>1. used \subseteq used' /\ 0 \notin used'
  BY GuardStep, UsedStep DEF OnceInv
<1>2. CASE SignResponse
  BY <1>1, <1>2 DEF SignResponse, AnswerOnly, Answer, StageInv, OnceInv
<1>3. CASE ~SignResponse
  <2>1. responded' = responded
    BY <1>3
    DEF Next, Process, Receive, EnsureBundle, BundleFails, ReplayReady,
      ReplayInit, StoreInit, AuthFails, AuthImport, AuthPasses, StaleRejected,
      AcceptStarts, AcceptEnds, RegisterStarts, RegisterEnds, AckRegistration,
      AnswerOnly, Answer, Go, Surroundings, DeviceReset, vars, serverVars
  <2> QED BY <1>1, <2>1 DEF OnceInv
<1> QED BY <1>2, <1>3

ServerInv == StageInv /\ PartsInv /\ AuthInv /\ OnceInv

LEMMA ServerInvHolds == Spec => []ServerInv
<1>1. Init => AuthInv /\ OnceInv
  BY StageInit
<1>2. StageInv /\ PartsInv /\ AuthInv /\ OnceInv /\ [Next]_vars
        => AuthInv' /\ OnceInv'
  BY AuthStep, OnceStep
<1> QED
  BY <1>1, <1>2, StageInvHolds, PartsInvHolds, PTL DEF Spec, ServerInv

-----------------------------------------------------------------------------
(* The types, of the parts too, whatever arrives and whatever fails.       *)
LEMMA ServerTypeStep ==
  ASSUME phase \in {"idle", "bundle", "replay", "store", "auth", "fresh",
                    "accept", "sign", "register", "ack"},
         gBundle \in BOOLEAN, reply \in Replies, [Next]_vars
  PROVE  /\ phase' \in {"idle", "bundle", "replay", "store", "auth", "fresh",
                        "accept", "sign", "register", "ack"}
         /\ gBundle' \in BOOLEAN
         /\ reply' \in Replies
BY DEF Replies, Next, Process, Receive, EnsureBundle, BundleFails, ReplayReady,
  ReplayInit, StoreInit, AuthFails, AuthImport, AuthPasses, StaleRejected,
  AcceptStarts, AcceptEnds, SignResponse, RegisterStarts, RegisterEnds,
  AckRegistration, AnswerOnly, Answer, Go, Surroundings, DeviceReset, vars,
  serverVars

THEOREM ServerTypeCorrect == Spec => []TypeOK
<1> DEFINE Own == /\ phase \in {"idle", "bundle", "replay", "store", "auth",
                                "fresh", "accept", "sign", "register", "ack"}
                  /\ gBundle \in BOOLEAN
                  /\ reply \in Replies
<1>1. Init => Own
  BY DEF Init, Replies
<1>2. Own /\ [Next]_vars => Own'
  BY ServerTypeStep
<1>3. ServerInv /\ Own => TypeOK
  <2>1. GP!TypeOK => Guard!TypeOK /\ used \subseteq Guard!Counter
    BY DEF GP!TypeOK, Guard!TypeOK, GP!Counter, Guard!Counter, GP!NotStored,
      Guard!NotStored, GP!Faults, Guard!Faults
  <2>2. SP!StoreTypeOK => Store!StoreTypeOK
    BY DEF SP!StoreTypeOK, Store!StoreTypeOK
  <2> QED
    BY <2>1, <2>2 DEF ServerInv, StageInv, PartsInv, OnceInv, GP!GuardInv,
      SP!StoreInv, TypeOK
<1> QED
  BY <1>1, <1>2, <1>3, ServerInvHolds, PTL DEF Spec

(* Whatever is executed was signed by the key the device holds.            *)
THEOREM AnsweredForRegisteredKeyHolds == Spec => AnsweredForRegisteredKey
<1>1. ServerInv /\ [Next]_vars =>
        [responded' # responded => req.signer = mKey]_vars
  BY DEF ServerInv, AuthInv, Next, Process, Receive, EnsureBundle, BundleFails,
    ReplayReady, ReplayInit, StoreInit, AuthFails, AuthImport, AuthPasses,
    StaleRejected, AcceptStarts, AcceptEnds, SignResponse, RegisterStarts,
    RegisterEnds, AckRegistration, AnswerOnly, Answer, Go, Surroundings,
    DeviceReset, vars, serverVars
<1> QED
  BY <1>1, ServerInvHolds, PTL DEF Spec, AnsweredForRegisteredKey

(* No response can be taken for the acknowledgement of a registration.     *)
THEOREM AckIsNoResponseHolds == Spec => []AckIsNoResponse
<1>1. ServerInv => AckIsNoResponse
  BY DEF ServerInv, OnceInv, AckIsNoResponse
<1> QED BY <1>1, ServerInvHolds, PTL

(* A command about to be answered is above every one answered before, in   *)
(* any boot: the counter its response carries was a fresh one.             *)
THEOREM AtMostOnceHolds == Spec => []AtMostOnce
<1>1. Init => AtMostOnce
  BY DEF Init, AtMostOnce
<1>2. ServerInv /\ AtMostOnce /\ [Next]_vars => AtMostOnce'
  <2> SUFFICES ASSUME ServerInv, AtMostOnce, [Next]_vars,
                      Guard!Intact', phase' = "sign"
               PROVE  \A c \in responded' : c < req'.counter
    BY DEF AtMostOnce
  <2>1. CASE AcceptEnds
    <3>1. /\ step = "commit" /\ Guard!Intact
          /\ responded' = responded /\ req' = req
      BY <2>1 DEF AcceptEnds, Guard!Commit, Guard!ExtendSaved, AnswerOnly, Answer,
        Go, serverVars, Guard!Intact, ServerInv, StageInv
    <3>2. \A u \in used : u < arg
      <4>1. \A u \in used : u <= mFloor /\ mFloor < arg
        BY <3>1 DEF ServerInv, PartsInv, GP!GuardInv, GP!CallInv, GP!IntactInv,
          GP!Intact, Guard!Intact
      <4> QED
        BY <4>1, PartsAssumptions
        DEF ServerInv, PartsInv, GP!GuardInv, GP!TypeOK, GP!Counter
    <3> QED
      BY <2>1, <3>1, <3>2 DEF AcceptEnds, ServerInv, OnceInv, StageInv
  <2>2. CASE Surroundings \/ UNCHANGED vars
    BY <2>2 DEF Surroundings, AtMostOnce, Guard!Intact, vars, guardVars, serverVars
  <2>3. CASE Process /\ ~AcceptEnds
    BY <2>3 DEF Process, EnsureBundle, BundleFails, ReplayReady, ReplayInit,
      StoreInit, AuthFails, AuthImport, AuthPasses, StaleRejected, AcceptStarts,
      SignResponse, RegisterStarts, RegisterEnds, AckRegistration, AnswerOnly,
      Answer, Go, serverVars
  <2>4. CASE DeviceReset \/ \E m \in Request : Receive(m)
    BY <2>4 DEF DeviceReset, Receive, AnswerOnly, Answer
  <2> QED BY <2>1, <2>2, <2>3, <2>4 DEF Next
<1> QED
  BY <1>1, <1>2, ServerInvHolds, PTL DEF Spec

(* After Init only an authentic request moves the floor, the ceiling or    *)
(* the flash.                                                              *)
THEOREM OnlyAuthenticDrivesHolds == Spec => OnlyAuthenticDrives
<1>1. ASSUME ServerInv, [Next]_vars, gReplayReady, gReplayReady',
             <<mFloor, mCeiling, stored>>' # <<mFloor, mCeiling, stored>>
      PROVE  req.type = "signed" /\ req.signer = mKey /\ mKey # NoKey
  <2>1. CASE AcceptStarts \/ AcceptEnds
    BY <1>1, <2>1 DEF AcceptStarts, AcceptEnds, ServerInv, StageInv, AuthInv, Signed
  <2>2. CASE ReplayInit
    BY <1>1, <2>2 DEF ReplayInit, ServerInv, PartsInv, GP!GuardInv, GP!CallInv,
      Guard!LoadCeiling, Guard!ReserveSaved, Guard!InitNotPersistent,
      Guard!LoadNothing, Guard!LoadFails, Guard!ReserveFails, Guard!InitCalled
  <2>3. CASE DeviceReset
    BY <1>1, <2>3 DEF DeviceReset, Guard!Reset
  <2>4. CASE UNCHANGED guardVars
    BY <1>1, <2>4 DEF guardVars
  <2> QED
    BY <1>1, <2>1, <2>2, <2>3, <2>4
    DEF Next, Process, Receive, EnsureBundle, BundleFails, ReplayReady,
      StoreInit, AuthFails, AuthImport, AuthPasses, StaleRejected, SignResponse,
      RegisterStarts, RegisterEnds, AckRegistration, KeepParts, Surroundings,
      vars
<1>2. ServerInv /\ [Next]_vars =>
        [gReplayReady /\ gReplayReady' /\ <<mFloor, mCeiling, stored>>' #
                                           <<mFloor, mCeiling, stored>>
           => req.type = "signed" /\ req.signer = mKey /\ mKey # NoKey]_vars
  BY <1>1
<1> QED
  BY <1>2, ServerInvHolds, PTL DEF Spec, OnlyAuthenticDrives
=============================================================================
