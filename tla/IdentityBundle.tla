--------------------------- MODULE IdentityBundle ---------------------------
(***************************************************************************)
(* The device's identity: the tunnel key of tunnel_crypto.cpp, the bundle  *)
(* that certifies it (tunnel_identity.cpp), built anew in every boot with  *)
(* a new DAC signature, and the chunks in which a client fetches it        *)
(* (tunnel_server.cpp:185-226).  Resets fall between any two chunks, and   *)
(* the relay may deliver any chunk it has seen, late and repeatedly.       *)
(*                                                                         *)
(* Every build is told apart by its key and its signature; the bytes of a  *)
(* bundle below SignedLen depend on them, the certificates after that are  *)
(* the same in all.  The client is not part of the repository and asks for *)
(* the first byte it lacks, as README.md:130-131 describes.                *)
(***************************************************************************)
EXTENDS Integers

CONSTANTS kMaxChunk,  \* bytes of the bundle in a chunk (400)
          SignedLen,  \* bytes up to the end of the signature (2+2+32+2+64)
          BundleLen,  \* bytes of the bundle (about 1060)
          MaxKeys,    \* bound: keys the device generates
          MaxBuilds   \* bound: bundles it builds

ASSUME IdentityAssumption ==
  /\ {kMaxChunk, SignedLen, BundleLen, MaxKeys, MaxBuilds} \subseteq Nat
  /\ 0 < SignedLen /\ SignedLen <= kMaxChunk /\ SignedLen <= BundleLen

NoKey == 0
Bundle == [key : 1 .. MaxKeys, signature : 1 .. MaxBuilds]
NoBundle == [key |-> NoKey, signature |-> 0]

(* Byte i of bundle b, as far as it can differ from another bundle's.      *)
Cert == [key |-> NoKey, signature |-> 1]
ByteAt(b, i) == IF i < SignedLen THEN b ELSE Cert

VARIABLES persistent, \* the key PSA keeps under the fixed id
          mKeyId,     \* the signer's key of this boot
          keys,       \* how many keys were generated
          builds,     \* how many bundles were built
          gBundle,    \* the bundle of this boot
          chunks,     \* every chunk ever sent: <<offset, bundle>>
          got,        \* the bytes the client has assembled
          have,       \* how many
          pinned,     \* the device key the client relies on
          intact      \* FALSE once the key storage has failed

deviceVars == <<persistent, mKeyId, keys, builds, gBundle>>
clientVars == <<got, have, pinned>>
vars == <<deviceVars, clientVars, chunks, intact>>

TypeOK ==
  /\ {persistent, mKeyId, pinned} \subseteq 0 .. MaxKeys
  /\ keys \in 0 .. MaxKeys /\ builds \in 0 .. MaxBuilds
  /\ gBundle \in Bundle \cup {NoBundle}
  /\ chunks \subseteq (0 .. BundleLen) \X Bundle
  /\ have \in 0 .. BundleLen
  /\ got \in [0 .. (have - 1) -> Bundle \cup {Cert}]
  /\ intact \in BOOLEAN

Init ==
  /\ persistent = NoKey /\ mKeyId = NoKey
  /\ keys = 0 /\ builds = 0
  /\ gBundle = NoBundle
  /\ chunks = {}
  /\ have = 0 /\ got = [i \in 0 .. -1 |-> Cert]
  /\ pinned = NoKey
  /\ intact = TRUE

-----------------------------------------------------------------------------
(* Variants with a plausible slip, substituted by the project's mutants.   *)
ReuseForgotten ==
  /\ mKeyId = NoKey /\ keys < MaxKeys
  /\ keys' = keys + 1
  /\ persistent' = keys + 1 /\ mKeyId' = keys + 1
  /\ UNCHANGED <<builds, gBundle, clientVars, chunks, intact>>
ChunkForDefaultMtu(o) == 1
ChunkPastEnd(o) == kMaxChunk

-----------------------------------------------------------------------------
(* Signer::Init.                                                           *)

(* The persistent key exists and is used again.                            *)
Reuse ==
  /\ mKeyId = NoKey /\ persistent # NoKey
  /\ mKeyId' = persistent
  /\ UNCHANGED <<persistent, keys, builds, gBundle, clientVars, chunks, intact>>

(* There is none; one is generated under the fixed id.                     *)
Generate ==
  /\ mKeyId = NoKey /\ persistent = NoKey /\ keys < MaxKeys
  /\ keys' = keys + 1 /\ persistent' = keys + 1 /\ mKeyId' = keys + 1
  /\ UNCHANGED <<builds, gBundle, clientVars, chunks, intact>>

(* The probe fails, and so does the generation under the fixed id: because *)
(* the storage is unavailable, or because the key exists after all.  The   *)
(* fallback is a volatile key.                                             *)
GenerateVolatile ==
  /\ mKeyId = NoKey /\ keys < MaxKeys
  /\ keys' = keys + 1 /\ mKeyId' = keys + 1 /\ intact' = FALSE
  /\ UNCHANGED <<persistent, builds, gBundle, clientVars, chunks>>

(* EnsureBundle: the DAC signs the key, and the bundle is kept for the     *)
(* boot.  Where it fails nothing is kept, and the next request tries       *)
(* again.                                                                  *)
BuildIdentityBundle ==
  /\ mKeyId # NoKey /\ gBundle = NoBundle /\ builds < MaxBuilds
  /\ builds' = builds + 1
  /\ gBundle' = [key |-> mKeyId, signature |-> builds + 1]
  /\ UNCHANGED <<persistent, mKeyId, keys, clientVars, chunks, intact>>

(* IdentityRequest.                                                        *)
Chunk(o) == IF BundleLen - o < kMaxChunk THEN BundleLen - o ELSE kMaxChunk

Serve(o) ==
  /\ gBundle # NoBundle
  /\ o < BundleLen
  /\ chunks' = chunks \cup {<<o, gBundle>>}
  /\ UNCHANGED <<deviceVars, clientVars, intact>>

Reset ==
  /\ mKeyId' = NoKey /\ gBundle' = NoBundle
  /\ UNCHANGED <<persistent, keys, builds, clientVars, chunks, intact>>

-----------------------------------------------------------------------------
(* The client.                                                             *)

Deliver(o, b) ==
  /\ <<o, b>> \in chunks
  /\ o = have
  /\ have' = have + Chunk(o)
  /\ got' = [i \in 0 .. (have' - 1) |->
               IF i < have THEN got[i] ELSE ByteAt(b, i)]
  /\ UNCHANGED <<deviceVars, pinned, chunks, intact>>

(* The signature covers the key it came with: the key is relied upon.      *)
Pin ==
  /\ have = BundleLen
  /\ \A i \in 0 .. (SignedLen - 1) : got[i] = got[0]
  /\ pinned' = got[0].key
  /\ UNCHANGED <<deviceVars, got, have, chunks, intact>>

(* It starts anew: a lost answer, a restart of the client.                 *)
Restart ==
  /\ have' = 0
  /\ got' = [i \in 0 .. -1 |-> Cert]
  /\ UNCHANGED <<deviceVars, pinned, chunks, intact>>

Next ==
  \/ Reuse \/ Generate \/ GenerateVolatile \/ BuildIdentityBundle
  \/ Serve(have)
  \/ \E b \in Bundle : Deliver(have, b)
  \/ Pin \/ Restart \/ Reset

Spec == Init /\ [][Next]_vars

-----------------------------------------------------------------------------
(* What the client has assembled is the beginning of one bundle, although  *)
(* every boot builds another: the key and its signature fit one chunk, and *)
(* the rest is the same in all (tunnel_server.cpp:82-87).                  *)
FetchedIsOneBundle ==
  have > 0 => \E b \in Bundle : \A i \in 0 .. (have - 1) : got[i] = ByteAt(b, i)

(* "The tunnel key must survive reboot" (tunnel_crypto.cpp:53): while the  *)
(* key storage works, the key a client relies on is the key the device     *)
(* signs with, in every later boot.                                        *)
PinnedKeySigns ==
  intact /\ pinned # NoKey /\ mKeyId # NoKey => pinned = mKeyId
=============================================================================
