------------------------------ MODULE Preimage ------------------------------
(***************************************************************************)
(* The bytes a signature of the tunnel covers: BuildPreimage of            *)
(* src/lib/tunnel/tunnel_envelope.cpp, byte for byte, and the size it asks *)
(* of the buffer it writes to.  Envelope.tla has its callers.              *)
(***************************************************************************)
EXTENDS Integers, Sequences

Byte == 0 .. 255
UInt16 == {v \in Nat : v < 65536}
UInt32 == {v \in Nat : v \div 16777216 < 256}

kDirRequest == 2
kDirResponse == 3
Directions == {kDirRequest, kDirResponse}

(* The bytes of a number, counted from the least significant one.          *)
Octet(v, k) ==
  (v \div CASE k = 0 -> 1 [] k = 1 -> 256 [] k = 2 -> 65536 [] k = 3 -> 16777216)
  % 256

-----------------------------------------------------------------------------
(* Variants with a plausible slip, substituted by the project's mutants.   *)
HeaderNoLength(direction, counter, keyLen) ==
  <<77, 84, 85, 78, 118, 49, direction,
    Octet(counter, 3), Octet(counter, 2), Octet(counter, 1), Octet(counter, 0),
    255, 241, 252, 2,  255, 241, 0, 0>>

-----------------------------------------------------------------------------
(* "MTUNv1", the direction, the counter, the cluster and command ids       *)
(* (0xFFF1FC02, 0xFFF10000), and the length of the key: big-endian all.    *)
Header(direction, counter, keyLen) ==
  <<77, 84, 85, 78, 118, 49, direction,
    Octet(counter, 3), Octet(counter, 2), Octet(counter, 1), Octet(counter, 0),
    255, 241, 252, 2,  255, 241, 0, 0,
    Octet(keyLen, 1), Octet(keyLen, 0)>>

Bytes(f) == Header(f.direction, f.counter, Len(f.key)) \o (f.key \o f.payload)

(* The size asked of the buffer.                                           *)
Need(keyLen, payloadLen) == 6 + 1 + 4 + 4 + 4 + 2 + keyLen + payloadLen

Fields == [direction : Directions, counter : UInt32,
           key : {k \in Seq(Byte) : Len(k) \in UInt16}, payload : Seq(Byte)]
=============================================================================
