------------------------------ MODULE Envelope ------------------------------
(***************************************************************************)
(* The framing of requests: what the client packs (measure/harness_ble.py) *)
(* and what ProcessRequest (src/lib/tunnel/tunnel_server.cpp) reads of it  *)
(* and writes of an answer, by the lengths that the request declares.      *)
(*                                                                         *)
(* A step is one check or read of the request, since the next write of a   *)
(* BLE client may change the buffer before the next, length fields         *)
(* included.  The bytes of one field are read in one step, and so are the  *)
(* counter and the payload length that follows it.  Cryptography, window,  *)
(* floor and storage decide as they like here; the modules of the parts    *)
(* say how.  Answers are told apart by their length.                       *)
(***************************************************************************)
EXTENDS Preimage

CONSTANTS Requests,   \* the fields of the client's signed requests
          Messages,   \* whatever else is written, sequences of bytes
          Signed,     \* the fields of preimages signed for whatever device
          gDevicePub, \* of this device
          BundleLen,  \* gBundleLen
          MaxWrites   \* bound on the number of writes

U16(v) == <<v \div 256, v % 256>>
U32(v) == <<v \div 16777216, (v \div 65536) % 256, (v \div 256) % 256, v % 256>>

kKeyLen == 32         \* of an Ed25519 key, the client's and the device's

ASSUME EnvelopeAssumption ==
  /\ \A f \in Requests :
       /\ f.counter \in UInt32
       /\ f.payload \in Seq(Byte) /\ Len(f.payload) \in UInt16
       /\ f.sig \in Seq(Byte) /\ Len(f.sig) \in UInt16
  /\ \A m \in Messages : m \in Seq(Byte)
  /\ Signed \subseteq Fields
  /\ gDevicePub \in Seq(Byte) /\ Len(gDevicePub) = kKeyLen
  /\ BundleLen \in Nat /\ MaxWrites \in Nat

kTypeIdentityRequest == 0
kTypeSignedRequest == 2
kTypeRegisterClientKey == 5
kTypeEcho == 255
kMaxResponse == 512   \* both outCap and the size of sRxBuf
kMaxChunk == 400
kSignatureLen == 64
kReqPreLen == 700     \* reqPre and preimageBuf; pre has room for any key

VARIABLES buf,       \* the bytes at in.data(), and what is behind them
          inLen,
          origin,    \* history: the fields the client packed into buf
          phase,     \* what ProcessRequest does next, or "idle"
          counter, payloadLen, reqSigLen,  \* its locals
          reach,     \* history: how far it has read the request
          result,    \* how the last call ended: *reject, or "answer"
          n,         \* the size of the answer, 0 for none
          writes     \* history: how many writes there were

request == <<buf, inLen, origin, writes>>
fields == <<counter, payloadLen, reqSigLen>>
answer == <<result, n>>
envelopeVars == <<request, fields, phase, reach, answer>>

NoFields == [counter |-> 0, payload |-> <<>>, sig |-> <<>>]
Rejects == {"invalidCommand", "constraintError", "failure"}

EnvelopeTypeOK ==
  /\ buf \in Seq(Byte) /\ inLen \in Nat /\ reach \in Nat
  /\ origin \in Requests \cup {NoFields}
  /\ phase \in {"idle", "type", "echo", "identity", "signed", "signature",
                "bind", "verify", "accept", "respond", "key", "register", "ack"}
  /\ counter \in UInt32 /\ payloadLen \in UInt16 /\ reqSigLen \in UInt16
  /\ result \in Rejects \cup {"none", "answer"} /\ n \in Nat
  /\ writes \in 0 .. MaxWrites

EnvelopeInit ==
  /\ buf = <<>> /\ inLen = 0 /\ origin = NoFields
  /\ phase = "idle" /\ counter = 0 /\ payloadLen = 0 /\ reqSigLen = 0
  /\ reach = 0 /\ result = "none" /\ n = 0 /\ writes = 0

-----------------------------------------------------------------------------
(* Variants with a plausible slip, substituted by the project's mutants.   *)
HasSignatureOfRest(sigLen) == inLen >= 7 + payloadLen + sigLen
ResponseFitsForCertificate == payloadLen <= 256 /\ 9 + payloadLen + 256 <= kMaxResponse
OffsetAnywhere(offset) == TRUE

-----------------------------------------------------------------------------
(* The client packs a signed request.                                      *)
Packed(f) ==
  (<<kTypeSignedRequest>> \o U32(f.counter) \o U16(Len(f.payload)))
  \o (f.payload \o (U16(Len(f.sig)) \o f.sig))

(* A write leaves the tail of a longer one before it.                      *)
Write(m) ==
  /\ writes < MaxWrites
  /\ writes' = writes + 1
  /\ buf' = [i \in 1 .. (IF Len(m) > Len(buf) THEN Len(m) ELSE Len(buf)) |->
               IF i <= Len(m) THEN m[i] ELSE buf[i]]

(* ProcessRequest is called with a request of the client, or whatever.     *)
Call(m) ==
  /\ phase = "idle"
  /\ Write(m)
  /\ inLen' = Len(m) /\ phase' = "type" /\ reach' = 0
  /\ result' = "none" /\ n' = 0
  /\ UNCHANGED fields

Send(f) == Call(Packed(f)) /\ origin' = f

Receive(m) == Call(m) /\ origin' = NoFields

(* RxCallback, while the handler runs.                                     *)
Overwrite(m) ==
  /\ phase # "idle" /\ Len(m) \in 1 .. kMaxResponse
  /\ Write(m)
  /\ origin' = NoFields
  /\ UNCHANGED <<inLen, fields, phase, reach, answer>>

-----------------------------------------------------------------------------
ByteU16(i) == 256 * buf[i + 1] + buf[i + 2]
ByteU32(i) == 16777216 * buf[i + 1] + 65536 * buf[i + 2] + ByteU16(i + 2)

(* The bytes of the request up to the k-th are read, if not before.        *)
Reads(k) == reach' = IF k > reach THEN k ELSE reach

Go(from, to) ==
  /\ phase = from /\ phase' = to
  /\ UNCHANGED <<request, answer>>

Return(from, r, size) ==
  /\ phase = from /\ phase' = "idle"
  /\ result' = r /\ n' = size
  /\ UNCHANGED <<request, fields>>

Reject(from, r) == Return(from, r, 0) /\ UNCHANGED reach

TypeOf(b) == CASE b = kTypeEcho -> "echo"
               [] b = kTypeIdentityRequest -> "identity"
               [] b = kTypeSignedRequest -> "signed"
               [] b = kTypeRegisterClientKey -> "key"
               [] OTHER -> "unknown"

ReadType ==
  \/ inLen < 1 /\ Reject("type", "invalidCommand")
  \/ /\ inLen >= 1 /\ Reads(1)
     /\ \/ TypeOf(buf[1]) = "unknown" /\ Return("type", "invalidCommand", 0)
        \/ /\ TypeOf(buf[1]) # "unknown" /\ Go("type", TypeOf(buf[1]))
           /\ UNCHANGED fields

EchoFits == inLen <= kMaxResponse

Echo ==
  \/ ~EchoFits /\ Reject("echo", "constraintError")
  \/ EchoFits /\ Reads(inLen) /\ Return("echo", "answer", inLen)

Chunk(offset) ==
  IF BundleLen - offset < kMaxChunk THEN BundleLen - offset ELSE kMaxChunk

OffsetInside(offset) == offset < BundleLen

Identity ==
  \/ inLen < 3 /\ Reject("identity", "invalidCommand")
  \/ /\ inLen >= 3 /\ Reads(3)
     /\ \/ Return("identity", "failure", 0)
        \/ ~OffsetInside(ByteU16(1)) /\ Return("identity", "constraintError", 0)
        \/ /\ OffsetInside(ByteU16(1))
           /\ 5 + Chunk(ByteU16(1)) <= kMaxResponse
           /\ Return("identity", "answer", 5 + Chunk(ByteU16(1)))

-----------------------------------------------------------------------------
(* Counter and payload length, then the length behind the payload.         *)
SignedHeader ==
  \/ inLen < 7 /\ Reject("signed", "invalidCommand")
  \/ /\ inLen >= 7 /\ Reads(7)
     /\ counter' = ByteU32(1) /\ payloadLen' = ByteU16(5)
     /\ Go("signed", "signature")
     /\ UNCHANGED reqSigLen

HasSignature(sigLen) == inLen >= 9 + payloadLen + sigLen

SignedSignature ==
  \/ inLen < 7 + payloadLen + 2 /\ Reject("signature", "invalidCommand")
  \/ /\ inLen >= 7 + payloadLen + 2 /\ Reads(9 + payloadLen)
     /\ \/ /\ ~HasSignature(ByteU16(7 + payloadLen))
           /\ Return("signature", "invalidCommand", 0)
        \/ /\ HasSignature(ByteU16(7 + payloadLen))
           /\ reqSigLen' = ByteU16(7 + payloadLen)
           /\ Go("signature", "bind")
           /\ UNCHANGED <<counter, payloadLen>>

Span(from, len) == [i \in 1 .. len |-> buf[from + i]]

(* The fields of the preimage of the request.                              *)
Bound == [direction |-> kDirRequest, counter |-> counter, key |-> gDevicePub,
          payload |-> Span(7, payloadLen)]

(* EnsureBundle, EnsureReplay and HasKey may fail.  The preimage of the    *)
(* request is built, read as far as the payload goes.                      *)
PreimageFits == Need(Len(gDevicePub), payloadLen) <= kReqPreLen

BindRequest ==
  \/ Reject("bind", "failure")
  \/ Return("bind", "answer", 1) /\ UNCHANGED reach   \* AuthReject
  \/ ~PreimageFits /\ Reject("bind", "constraintError")
  \/ /\ PreimageFits /\ Reads(7 + payloadLen)
     /\ Go("bind", "verify") /\ UNCHANGED fields

Verify ==
  /\ Reads(9 + payloadLen + reqSigLen)
  /\ \/ Return("verify", "answer", 1)                 \* AuthReject
     \/ Go("verify", "accept") /\ UNCHANGED fields

Accept ==
  /\ UNCHANGED reach
  /\ \/ Return("accept", "answer", 5)                 \* ReplayReject
     \/ Return("accept", "failure", 0)
     \/ Go("accept", "respond") /\ UNCHANGED fields

(* The preimage of the response is as long as that of the request.  A      *)
(* signature is at most of the length it has room for.                     *)
ResponseFits == payloadLen <= 256 /\ 9 + payloadLen + kSignatureLen <= kMaxResponse

Respond ==
  /\ Reads(7 + payloadLen)
  /\ \/ Return("respond", "failure", 0)
     \/ ~ResponseFits /\ Return("respond", "constraintError", 0)
     \/ /\ ResponseFits
        /\ \E sigLen \in 0 .. kSignatureLen :
             Return("respond", "answer", 9 + payloadLen + sigLen)

-----------------------------------------------------------------------------
(* A key to register; ClientKeyStore::Register refuses any other length.   *)
RegisterHeader ==
  \/ inLen < 3 /\ Reject("key", "invalidCommand")
  \/ /\ inLen >= 3 /\ Reads(3)
     /\ \/ inLen < 3 + ByteU16(1) /\ Return("key", "invalidCommand", 0)
        \/ /\ inLen >= 3 + ByteU16(1)
           /\ payloadLen' = ByteU16(1)
           /\ Go("key", "register")
           /\ UNCHANGED <<counter, reqSigLen>>

Register ==
  \/ Reject("register", "failure")
  \/ Return("register", "answer", 1) /\ UNCHANGED reach   \* AuthReject
  \/ /\ payloadLen = kKeyLen /\ Reads(3 + payloadLen)
     /\ Go("register", "ack") /\ UNCHANGED fields

RegisterAck ==
  /\ UNCHANGED reach
  /\ \/ Return("ack", "failure", 0)
     \/ /\ 5 + kKeyLen + kSignatureLen <= kMaxResponse
        /\ \E sigLen \in 0 .. kSignatureLen :
             Return("ack", "answer", 5 + kKeyLen + sigLen)

ProcessRequest ==
  \/ ReadType \/ Echo \/ Identity
  \/ SignedHeader \/ SignedSignature \/ BindRequest \/ Verify \/ Accept \/ Respond
  \/ RegisterHeader \/ Register \/ RegisterAck

EnvelopeNext ==
  \/ \E f \in Requests : Send(f) \/ Overwrite(Packed(f))
  \/ \E m \in Messages : Receive(m) \/ Overwrite(m)
  \/ ProcessRequest

EnvelopeSpec == EnvelopeInit /\ [][EnvelopeNext]_envelopeVars

-----------------------------------------------------------------------------
(* Whatever lengths a request declares, and however the buffer changes     *)
(* while it is parsed, nothing behind the request is read: each length is  *)
(* read once and checked before it is used (tunnel_server.cpp:238-258).    *)
ReadsInside == reach <= inLen

(* No answer is longer than the buffer it is written to, whatever the      *)
(* length of the request it repeats (tunnel_server.cpp:180, 210, 336,      *)
(* 413), and no preimage than the one it is built in                       *)
(* (tunnel_envelope.cpp:33-36, tunnel_server.cpp:275).                     *)
WritesInside ==
  /\ n <= kMaxResponse
  /\ phase = "verify" => Len(Bytes(Bound)) <= kReqPreLen

StaysInside == ReadsInside /\ WritesInside

(* A request the client packed and nothing has overwritten is never        *)
(* malformed for the device, which takes the very counter, payload and     *)
(* signature from it (harness_ble.py:155-157, tunnel_server.cpp:229-230).  *)
ParsesWhatWasPacked ==
  origin # NoFields =>
    /\ result # "invalidCommand"
    /\ phase \in {"bind", "verify", "accept", "respond"} =>
         /\ counter = origin.counter
         /\ Span(7, payloadLen) = origin.payload
         /\ Span(9 + payloadLen, reqSigLen) = origin.sig

(* It is refused for its size only beyond 256 bytes of payload: the        *)
(* preimages and the response have room for all up to that                 *)
(* (tunnel_server.cpp:277, 319, 336).                                      *)
LimitIsThePayload ==
  origin # NoFields /\ result = "constraintError" => Len(origin.payload) > 256

ServesWhatWasPacked == ParsesWhatWasPacked /\ LimitIsThePayload

(* Binding: whatever the buffer holds when the preimage of a request is    *)
(* built, it is one that was signed only if it is of the very direction,   *)
(* counter, device key and payload it was signed for                       *)
(* (tunnel_envelope.h:4-20, tunnel_envelope.cpp:50-52).                    *)
Binds ==
  phase = "bind" =>
    \A f \in Signed : Bytes(f) = Bytes(Bound) => f = Bound
=============================================================================
