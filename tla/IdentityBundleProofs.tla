------------------------ MODULE IdentityBundleProofs ------------------------
(***************************************************************************)
(* Theorems about IdentityBundle, for every size of bundle and chunk that  *)
(* lets the key and its signature fit the first chunk, and for every       *)
(* number of keys and builds.                                              *)
(***************************************************************************)
EXTENDS IdentityBundle, TLAPS

(* A fetch that has begun has all of the bytes that differ.                *)
FirstChunkWhole == have > 0 => have >= SignedLen

FetchInv == TypeOK /\ FetchedIsOneBundle /\ FirstChunkWhole

(* While the key storage works, everything that holds a key holds the one  *)
(* that is stored.                                                         *)
OneKey ==
  intact =>
    /\ mKeyId \in {NoKey, persistent}
    /\ gBundle.key \in {NoKey, persistent}
    /\ \A c \in chunks : c[2].key = persistent
    /\ have > 0 => got[0].key = persistent
    /\ pinned \in {NoKey, persistent}

IdentityInv == FetchInv /\ OneKey

(* A chunk is not empty and ends with the bundle at the latest.            *)
LEMMA ChunkFits ==
  ASSUME NEW o \in 0 .. BundleLen
  PROVE  /\ Chunk(o) \in Nat
         /\ o + Chunk(o) \in 0 .. BundleLen
         /\ o = 0 => Chunk(o) >= SignedLen
  BY IdentityAssumption DEF Chunk

(* Init establishes the invariant.                                         *)
LEMMA InitHolds == Init => IdentityInv
  BY IdentityAssumption
  DEF Init, IdentityInv, FetchInv, TypeOK, FetchedIsOneBundle, FirstChunkWhole,
      OneKey, NoBundle, NoKey

(* The members keep their types.                                           *)
LEMMA TypeStep == FetchInv /\ [Next]_vars => TypeOK'
<1> SUFFICES ASSUME FetchInv, [Next]_vars PROVE TypeOK'
  OBVIOUS
<1> USE IdentityAssumption DEF FetchInv, TypeOK, clientVars, deviceVars
<1>1. CASE Reuse
  BY <1>1 DEF Reuse
<1>2. CASE Generate
  BY <1>2 DEF Generate
<1>3. CASE GenerateVolatile
  <2>1. keys' \in 0 .. MaxKeys /\ mKeyId' \in 0 .. MaxKeys
    BY <1>3 DEF GenerateVolatile
  <2>2. intact' \in BOOLEAN
    BY <1>3 DEF GenerateVolatile
  <2>3. UNCHANGED <<persistent, builds, gBundle, clientVars, chunks>>
    BY <1>3 DEF GenerateVolatile
  <2>4. keys' \in 0 .. MaxKeys /\ {persistent, mKeyId, pinned}' \subseteq 0 .. MaxKeys
    BY <2>1, <2>3
  <2> QED
    BY <2>2, <2>3, <2>4
<1>4. CASE BuildIdentityBundle
  BY <1>4 DEF BuildIdentityBundle, Bundle, NoKey
<1>5. CASE Serve(have)
  <2>1. gBundle \in Bundle
    BY <1>5 DEF Serve
  <2> QED
    BY <1>5, <2>1 DEF Serve
<1>6. ASSUME NEW b \in Bundle, Deliver(have, b) PROVE TypeOK'
  <2>1. have + Chunk(have) \in 0 .. BundleLen
    BY ChunkFits
  <2>2. have' \in 0 .. BundleLen
    BY <1>6, <2>1 DEF Deliver
  <2>3. got' \in [0 .. (have' - 1) -> Bundle \cup {Cert}]
    <3> SUFFICES ASSUME NEW i \in 0 .. (have' - 1)
                 PROVE  (IF i < have THEN got[i] ELSE ByteAt(b, i)) \in Bundle \cup {Cert}
      BY <1>6 DEF Deliver
    <3>1. CASE i < have
      <4>1. i \in 0 .. (have - 1)
        BY <3>1, <2>1, <2>2
      <4> QED
        BY <3>1, <4>1
    <3>2. CASE ~(i < have)
      BY <3>2 DEF ByteAt
    <3> QED
      BY <3>1, <3>2
  <2>4. UNCHANGED <<deviceVars, pinned, chunks, intact>>
    BY <1>6 DEF Deliver
  <2> QED
    BY <2>2, <2>3, <2>4
<1>7. CASE Pin
  <2>1. got[0] \in Bundle \cup {Cert}
    BY <1>7 DEF Pin
  <2>2. got[0].key \in 0 .. MaxKeys
    BY <2>1 DEF Bundle, Cert, NoKey
  <2>3. pinned' \in 0 .. MaxKeys /\ UNCHANGED <<deviceVars, got, have, chunks, intact>>
    BY <1>7, <2>2 DEF Pin
  <2> QED
    BY <2>3
<1>8. CASE Restart
  BY <1>8 DEF Restart
<1>9. CASE Reset
  BY <1>9 DEF Reset, NoKey
<1>10. CASE UNCHANGED vars
  BY <1>10 DEF vars
<1> QED
  BY <1>1, <1>2, <1>3, <1>4, <1>5, <1>6, <1>7, <1>8, <1>9, <1>10 DEF Next

(* Whatever chunk arrives next continues the bundle that was begun.        *)
LEMMA FetchStep ==
  FetchInv /\ [Next]_vars => FetchedIsOneBundle' /\ FirstChunkWhole'
<1> SUFFICES ASSUME FetchInv, [Next]_vars
             PROVE  FetchedIsOneBundle' /\ FirstChunkWhole'
  OBVIOUS
<1> USE IdentityAssumption DEF FetchInv
<1>1. ASSUME NEW b \in Bundle, Deliver(have, b)
      PROVE  FetchedIsOneBundle' /\ FirstChunkWhole'
  <2>1. /\ have \in 0 .. BundleLen
        /\ Chunk(have) \in Nat
        /\ have = 0 => Chunk(have) >= SignedLen
    BY ChunkFits DEF TypeOK
  <2>2. have' = have + Chunk(have)
    BY <1>1 DEF Deliver
  <2>3. FirstChunkWhole'
    BY <2>1, <2>2 DEF FirstChunkWhole
  <2>4. \A i \in 0 .. (have' - 1) :
          got'[i] = IF i < have THEN got[i] ELSE ByteAt(b, i)
    BY <1>1 DEF Deliver
  <2>5. CASE have = 0
    <3>1. \A i \in 0 .. (have' - 1) : got'[i] = ByteAt(b, i)
      BY <2>4, <2>5
    <3> QED
      BY <2>3, <3>1 DEF FetchedIsOneBundle, ByteAt
  <2>6. CASE have > 0
    <3>1. PICK a \in Bundle : \A i \in 0 .. (have - 1) : got[i] = ByteAt(a, i)
      BY <2>6 DEF FetchedIsOneBundle
    <3>2. ASSUME NEW i \in 0 .. (have' - 1) PROVE got'[i] = ByteAt(a, i)
      <4>1. CASE i < have
        <5>1. i \in 0 .. (have - 1)
          BY <4>1, <2>1, <2>2
        <5> QED
          BY <4>1, <5>1, <3>1, <2>4
      <4>2. CASE ~(i < have)
        <5>1. ~(i < SignedLen)
          BY <4>2, <2>1, <2>2, <2>6 DEF FirstChunkWhole
        <5>2. got'[i] = ByteAt(b, i)
          BY <4>2, <2>4
        <5> QED
          BY <5>1, <5>2 DEF ByteAt
      <4> QED
        BY <4>1, <4>2
    <3>3. \E x \in Bundle : \A i \in 0 .. (have' - 1) : got'[i] = ByteAt(x, i)
      BY <3>2
    <3> QED
      BY <2>3, <3>3 DEF FetchedIsOneBundle, ByteAt
  <2> QED
    BY <2>1, <2>5, <2>6
<1>2. CASE Restart
  BY <1>2 DEF Restart, FetchedIsOneBundle, FirstChunkWhole
<1>3. CASE UNCHANGED <<got, have>>
  BY <1>3 DEF FetchedIsOneBundle, FirstChunkWhole, ByteAt
<1> QED
  BY <1>1, <1>2, <1>3
  DEF Next, vars, clientVars, Reuse, Generate, GenerateVolatile,
      BuildIdentityBundle, Serve, Pin, Reset

(* The first byte of a fetch holds a generated key.                        *)
LEMMA FetchedKey ==
  ASSUME FetchInv, have > 0
  PROVE  got[0] \in Bundle
<1>1. PICK b \in Bundle : \A i \in 0 .. (have - 1) : got[i] = ByteAt(b, i)
  BY DEF FetchInv, FetchedIsOneBundle
<1>2. 0 \in 0 .. (have - 1) /\ 0 < SignedLen
  BY IdentityAssumption DEF FetchInv, TypeOK
<1> QED
  BY <1>1, <1>2 DEF ByteAt

(* No step brings in a second key while the storage works.                 *)
LEMMA KeyStep == IdentityInv /\ [Next]_vars => OneKey'
<1> SUFFICES ASSUME IdentityInv, [Next]_vars, intact' PROVE OneKey'
  BY DEF OneKey
<1> USE IdentityAssumption DEF IdentityInv
<1>1. intact
  <2>1. UNCHANGED intact \/ intact' = FALSE
    BY DEF Next, vars, Reuse, Generate, GenerateVolatile, BuildIdentityBundle,
           Serve, Deliver, Pin, Restart, Reset
  <2> QED
    BY <2>1
<1>2. CASE Reuse
  BY <1>1, <1>2 DEF Reuse, OneKey, clientVars
<1>3. CASE Generate
  <2>1. persistent = NoKey /\ persistent' # NoKey /\ mKeyId' = persistent'
    BY <1>3 DEF Generate, NoKey, FetchInv, TypeOK
  <2>2. \A c \in chunks : c[2].key # NoKey
    BY DEF FetchInv, TypeOK, Bundle, NoKey
  <2>3. chunks = {}
    BY <1>1, <2>1, <2>2 DEF OneKey
  <2>4. ~(have > 0)
    <3>1. ASSUME have > 0 PROVE FALSE
      <4>1. got[0] \in Bundle
        BY <3>1, FetchedKey
      <4>2. got[0].key # NoKey
        BY <4>1 DEF Bundle, NoKey
      <4> QED
        BY <1>1, <2>1, <3>1, <4>2 DEF OneKey
    <3> QED
      BY <3>1
  <2>5. gBundle.key = NoKey /\ pinned = NoKey
    BY <1>1, <2>1 DEF OneKey
  <2> QED
    BY <1>3, <2>1, <2>3, <2>4, <2>5 DEF Generate, OneKey, clientVars
<1>4. CASE BuildIdentityBundle
  BY <1>1, <1>4 DEF BuildIdentityBundle, OneKey, clientVars
<1>5. CASE Serve(have)
  <2>1. gBundle.key = persistent
    <3>1. gBundle \in Bundle
      BY <1>5 DEF Serve, FetchInv, TypeOK
    <3>2. gBundle.key # NoKey
      BY <3>1 DEF Bundle, NoKey
    <3> QED
      BY <1>1, <3>2 DEF OneKey
  <2> QED
    BY <1>1, <1>5, <2>1 DEF Serve, OneKey, clientVars, deviceVars
<1>6. ASSUME NEW b \in Bundle, Deliver(have, b) PROVE OneKey'
  <2>1. b.key = persistent
    BY <1>1, <1>6 DEF Deliver, OneKey
  <2>2. have' > 0 => got'[0].key = persistent
    <3>1. /\ have \in 0 .. BundleLen
          /\ Chunk(have) \in Nat
          /\ have' = have + Chunk(have)
      BY <1>6, ChunkFits DEF Deliver, FetchInv, TypeOK
    <3>2. SUFFICES ASSUME have' > 0 PROVE got'[0].key = persistent
      OBVIOUS
    <3>3. got'[0] = IF 0 < have THEN got[0] ELSE ByteAt(b, 0)
      BY <1>6, <3>1, <3>2 DEF Deliver
    <3>4. CASE 0 < have
      BY <1>1, <3>3, <3>4 DEF OneKey
    <3>5. CASE ~(0 < have)
      BY <2>1, <3>3, <3>5 DEF ByteAt
    <3> QED
      BY <3>4, <3>5
  <2> QED
    BY <1>1, <1>6, <2>2 DEF Deliver, OneKey, deviceVars
<1>7. CASE Pin
  <2>1. have > 0
    BY <1>7 DEF Pin
  <2> QED
    BY <1>1, <1>7, <2>1 DEF Pin, OneKey, deviceVars
<1>8. CASE Restart
  BY <1>1, <1>8 DEF Restart, OneKey, deviceVars
<1>9. CASE Reset
  BY <1>1, <1>9 DEF Reset, OneKey, NoBundle, NoKey, clientVars
<1>10. CASE UNCHANGED vars
  BY <1>1, <1>10 DEF vars, OneKey, deviceVars, clientVars
<1>11. CASE GenerateVolatile
  BY <1>11 DEF GenerateVolatile
<1> QED
  BY <1>2, <1>3, <1>4, <1>5, <1>6, <1>7, <1>8, <1>9, <1>10, <1>11 DEF Next

(* The strengthened invariant holds in every reachable state.              *)
THEOREM IdentityInvHolds == Spec => []IdentityInv
<1>1. IdentityInv /\ [Next]_vars => IdentityInv'
  BY TypeStep, FetchStep, KeyStep DEF IdentityInv, FetchInv
<1> QED
  BY InitHolds, <1>1, PTL DEF Spec

(* Device and client keep their types, whatever fails.                     *)
THEOREM IdentityTypeCorrect == Spec => []TypeOK
<1>1. IdentityInv => TypeOK
  BY DEF IdentityInv, FetchInv
<1> QED
  BY IdentityInvHolds, <1>1, PTL

(* However resets, repeated chunks and new builds fall between the chunks  *)
(* of a fetch, the client assembles one bundle.                            *)
THEOREM FetchedIsOneBundleHolds == Spec => []FetchedIsOneBundle
<1>1. IdentityInv => FetchedIsOneBundle
  BY DEF IdentityInv, FetchInv
<1> QED
  BY IdentityInvHolds, <1>1, PTL

(* While the key storage works, the pinned key is the signing key.         *)
THEOREM PinnedKeySignsHolds == Spec => []PinnedKeySigns
<1>1. IdentityInv => PinnedKeySigns
  BY DEF IdentityInv, OneKey, PinnedKeySigns
<1> QED
  BY IdentityInvHolds, <1>1, PTL
=============================================================================
