------------------------ MODULE TunnelThreadsProofs ------------------------
(***************************************************************************)
(* Proofs about TunnelThreads, for every set of payloads and every number  *)
(* of counters and requests.                                               *)
(*                                                                         *)
(* Each property holds as long as no two threads have met in the static it *)
(* depends on.  Its invariant therefore says what every thread may rely on *)
(* at each phase, and that a thread that would break it for another one is *)
(* recorded in crossed.                                                    *)
(***************************************************************************)
EXTENDS TunnelThreads, TLAPS

Answering == {"response", "sign", "send"}
Checking == {"request", "verify", "fresh", "accept"}
Loading == {"replay", "load", "floor", "reserve", "ready", "keystore"}
Keyed == Loading \cup Checking \cup Answering

(* A counter found fresh is not 0, whatever the other thread did.          *)
PositiveInv ==
  \A c \in Carriers :
    phase[c] \in {"accept"} \cup Answering => hdr[c].counter >= 1

TypeInv == TypeOK /\ PositiveInv

(* Before the guard is ready, what is answered is covered by the settings, *)
(* by what is loaded from them and by the floor made of it, in this order. *)
LoadInv ==
  /\ \A n \in responded : n <= stored
  /\ \A c \in Carriers :
       /\ phase[c] \notin {"keystore"} \cup Checking \cup Answering
       /\ phase[c] = "floor" => \A n \in responded : n <= gLoaded
       /\ phase[c] \in {"reserve", "ready"} => \A n \in responded : n <= mFloor

(* After that the floor separates the counters to accept from the ones     *)
(* being answered and answered, and no two threads answer one counter.     *)
FloorInv ==
  \/ "floor" \in crossed
  \/ ~gReplayReady /\ LoadInv
  \/ /\ gReplayReady
     /\ \A n \in responded : n <= mFloor
     /\ \A c \in Carriers :
          /\ phase[c] = "accept" => hdr[c].counter > mFloor
          /\ phase[c] \in Answering => /\ hdr[c].counter <= mFloor
                                       /\ hdr[c].counter \notin responded
     /\ \A c, d \in Carriers :
          c # d /\ phase[c] \in Answering /\ phase[d] \in Answering
            => hdr[c].counter # hdr[d].counter

(* The request preimage is the checking thread's own.                      *)
RequestInv ==
  /\ \A c \in Carriers :
       phase[c] \notin {"idle", "taken"} /\ ~unread[c] => buf[c] = hdr[c]
  /\ \/ "request" \in crossed
     \/ \A c \in Carriers :
          /\ phase[c] = "verify" =>
               /\ reqPre.counter = hdr[c].counter
               /\ ~unread[c] => reqPre.payload = hdr[c].payload
          /\ phase[c] \in {"fresh", "accept"} =>
               verified[c].counter = hdr[c].counter

(* Past EnsureBundle the exported key is the one signed with, and the one  *)
(* that a request that passed its check was signed for.  It is not the     *)
(* persistent one only if the storage has failed.                          *)
KeyInv ==
  \/ crossed \cap {"signer", "bundle"} # {}
  \/ /\ signer = "volatile" => fellBack
     /\ bundle # NoKey => /\ bundle = signer
                          /\ \/ devicePub = signer
                             \/ \E c \in Carriers : phase[c] = "export"
     /\ \A c \in Carriers :
          /\ buf[c].key = "volatile" => signer = "volatile"
          /\ phase[c] \in {"build", "export"} => signer # NoKey
          /\ phase[c] \in Keyed => signer # NoKey /\ devicePub = signer
          /\ phase[c] = "verify" => reqPre.key = signer
          /\ phase[c] \in {"fresh", "accept"} \cup Answering =>
               verified[c].key = signer
          /\ phase[c] = "sign" => preimageBuf.key = signer
          /\ phase[c] = "send" => signs[c].key = signer

(* A thread that goes on to the check of the signature has seen the key    *)
(* store loaded.                                                           *)
StoreInv ==
  \/ hasKey \/ "store" \in crossed
  \/ /\ gReplayReady => \E c \in Carriers : phase[c] = "keystore"
     /\ \A c \in Carriers : phase[c] \notin Checking \cup Answering

(* The response preimage is the signing thread's own.                      *)
ResponseInv ==
  \/ "response" \in crossed
  \/ \A c \in Carriers :
       /\ phase[c] = "sign" => preimageBuf.counter = hdr[c].counter
       /\ phase[c] = "send" => signs[c].counter = hdr[c].counter

LEMMA MessageType ==
  /\ \A m \in Message \cup {NoMessage} :
       /\ m.counter \in 0 .. MaxCounter /\ m.payload \in Payloads \cup {"none"}
       /\ m.key \in DeviceKey
  /\ NoMessage \in Message \cup {NoMessage}
  /\ NoBound \in Bound
  /\ \A n \in 0 .. MaxCounter, p \in Payloads \cup {"none"}, k \in DeviceKey :
       [counter |-> n, payload |-> p, key |-> k] \in Bound
BY ThreadsAssumption DEF Message, NoMessage, NoBound, Bound, DeviceKey, NoKey

LEMMA InitHolds ==
  Init => TypeInv /\ FloorInv /\ RequestInv /\ KeyInv /\ StoreInv /\ ResponseInv
<1> SUFFICES ASSUME Init
             PROVE  TypeInv /\ FloorInv /\ RequestInv /\ KeyInv /\ StoreInv /\ ResponseInv
  OBVIOUS
<1>1. TypeInv
  <2>1. /\ stored \in 0 .. MaxCounter /\ gLoaded \in 0 .. MaxCounter
        /\ mFloor \in 0 .. MaxCounter
        /\ responded \subseteq 1 .. MaxCounter
    <3>1. stored \in 0 .. (MaxCounter - 1) /\ MaxCounter \in Nat
      BY ThreadsAssumption DEF Init
    <3>2. stored \in 0 .. MaxCounter /\ 0 \in 0 .. MaxCounter
      BY <3>1
    <3>3. \A n \in 1 .. stored : n \in 1 .. MaxCounter
      BY <3>1
    <3> QED BY <3>2, <3>3 DEF Init
  <2>2. crossed \subseteq Statics /\ requests \in 0 .. MaxRequests
    BY ThreadsAssumption DEF Init
  <2> QED
    BY <2>1, <2>2, MessageType
    DEF Init, TypeInv, TypeOK, PositiveInv, Phases, DeviceKey, Answering
<1>2. FloorInv
  BY ThreadsAssumption DEF Init, FloorInv, LoadInv, Checking, Answering
<1>3. RequestInv /\ KeyInv /\ StoreInv /\ ResponseInv
  BY DEF Init, RequestInv, KeyInv, StoreInv, ResponseInv, Checking, Loading,
    Answering, Keyed, NoMessage, NoKey
<1> QED BY <1>1, <1>2, <1>3

-----------------------------------------------------------------------------
LEMMA TypeStep ==
  ASSUME TypeInv, [Next]_vars
  PROVE  TypeInv'
<1> USE MessageType, ThreadsAssumption
    DEF TypeInv, TypeOK, PositiveInv, Phases, Answering, Go, Return, KeepLocals,
        carriers, locals, keys, buffers, guard
<1>1. ASSUME NEW c \in Carriers, NEW m \in Message, Receive(c, m) PROVE TypeInv'
  BY <1>1 DEF Receive, Submitted
<1>2. ASSUME NEW c \in Carriers, Dequeue(c) PROVE TypeInv'
  BY <1>2 DEF Dequeue
<1>3. ASSUME NEW c \in Carriers, Parse(c) PROVE TypeInv'
  BY <1>3 DEF Parse
<1>4. ASSUME NEW c \in Carriers, Ends(c) PROVE TypeInv'
  BY <1>4 DEF Ends
<1>5. ASSUME NEW c \in Carriers, BundleReady(c) PROVE TypeInv'
  BY <1>5 DEF BundleReady, Meets, Statics
<1>6. ASSUME NEW c \in Carriers, SignerReady(c) PROVE TypeInv'
  BY <1>6 DEF SignerReady
<1>7. ASSUME NEW c \in Carriers, InitSigner(c) PROVE TypeInv'
  BY <1>7 DEF InitSigner, DeviceKey
<1>8. ASSUME NEW c \in Carriers, Probe(c) PROVE TypeInv'
  BY <1>8 DEF Probe, DeviceKey, Statics
<1>9. ASSUME NEW c \in Carriers, Generate(c) PROVE TypeInv'
  <2>1. /\ crossed' \subseteq Statics /\ signer' \in DeviceKey
        /\ bundle' = bundle /\ devicePub' = devicePub
    BY <1>9 DEF Generate, DeviceKey, Statics
  <2>2. fellBack' \in BOOLEAN /\ slot' \in BOOLEAN
    BY <1>9, Zenon DEF Generate
  <2>3. CASE Go(c, "generate", "build") /\ KeepLocals
    BY <1>9, <2>1, <2>2, <2>3 DEF Generate
  <2>4. CASE Return(c, "generate")
    BY <1>9, <2>1, <2>2, <2>4 DEF Generate
  <2> QED BY <1>9, <2>3, <2>4 DEF Generate
<1>10. ASSUME NEW c \in Carriers, Build(c) PROVE TypeInv'
  BY <1>10 DEF Build
<1>11. ASSUME NEW c \in Carriers, Export(c) PROVE TypeInv'
  <2>1. /\ {signer, bundle, devicePub}' \subseteq DeviceKey
        /\ crossed' \subseteq Statics
    BY <1>11 DEF Export, BundleReset, Meets, Statics, DeviceKey
  <2>2. CASE Go(c, "export", "replay") /\ KeepLocals
    BY <1>11, <2>1, <2>2 DEF Export
  <2>3. CASE Return(c, "export")
    BY <1>11, <2>1, <2>3 DEF Export
  <2> QED BY <1>11, <2>2, <2>3 DEF Export
<1>12. ASSUME NEW c \in Carriers, ReplayReady(c) PROVE TypeInv'
  BY <1>12 DEF ReplayReady, Meets, Statics
<1>13. ASSUME NEW c \in Carriers, ForgetLoaded(c) PROVE TypeInv'
  <2>1. crossed' \subseteq Statics
    BY <1>13 DEF ForgetLoaded, Meets, Statics
  <2> QED BY <1>13, <2>1 DEF ForgetLoaded
<1>14. ASSUME NEW c \in Carriers, Load(c) PROVE TypeInv'
  BY <1>14 DEF Load
<1>15. ASSUME NEW c \in Carriers, SetFloor(c) PROVE TypeInv'
  BY <1>15 DEF SetFloor, Statics
<1>16. ASSUME NEW c \in Carriers, Reserve(c) PROVE TypeInv'
  BY <1>16 DEF Reserve
<1>17. ASSUME NEW c \in Carriers, SetReady(c) PROVE TypeInv'
  BY <1>17 DEF SetReady
<1>18. ASSUME NEW c \in Carriers, LoadKey(c) PROVE TypeInv'
  BY <1>18 DEF LoadKey, Meets, Statics
<1>19. ASSUME NEW c \in Carriers, NoClientKey(c) PROVE TypeInv'
  BY <1>19 DEF NoClientKey
<1>20. ASSUME NEW c \in Carriers, BindRequest(c) PROVE TypeInv'
  <2>1. crossed' \subseteq Statics
    BY <1>20 DEF BindRequest, Meets, Statics
  <2>2. reqPre' \in Bound
    <3>1. hdr[c] \in Message \cup {NoMessage} /\ buf[c] \in Message \cup {NoMessage}
      OBVIOUS
    <3> QED BY <1>20, <3>1 DEF BindRequest
  <2> QED BY <1>20, <2>1, <2>2 DEF BindRequest
<1>21. ASSUME NEW c \in Carriers, Verify(c) PROVE TypeInv'
  BY <1>21 DEF Verify
<1>22. ASSUME NEW c \in Carriers, CheckFresh(c) PROVE TypeInv'
  BY <1>22 DEF CheckFresh, IsFresh
<1>23. ASSUME NEW c \in Carriers, Accept(c) PROVE TypeInv'
  <2>1. crossed' \subseteq Statics
    BY <1>23 DEF Accept, Meets, Statics
  <2>2. hdr[c] \in Message \cup {NoMessage}
    OBVIOUS
  <2>3. CASE Go(c, "accept", "response") /\ KeepLocals
    BY <1>23, <2>1, <2>2, <2>3 DEF Accept, NewFloor
  <2>4. CASE Return(c, "accept")
    BY <1>23, <2>1, <2>2, <2>4 DEF Accept, NewFloor
  <2> QED BY <1>23, <2>3, <2>4 DEF Accept
<1>24. ASSUME NEW c \in Carriers, BindResponse(c) PROVE TypeInv'
  <2>1. crossed' \subseteq Statics
    BY <1>24 DEF BindResponse, Meets, Statics
  <2>2. preimageBuf' \in Bound
    <3>1. hdr[c] \in Message \cup {NoMessage} /\ buf[c] \in Message \cup {NoMessage}
      OBVIOUS
    <3> QED BY <1>24, <3>1 DEF BindResponse, ResponseCounter
  <2> QED BY <1>24, <2>1, <2>2 DEF BindResponse
<1>25. ASSUME NEW c \in Carriers, Sign(c) PROVE TypeInv'
  BY <1>25 DEF Sign
<1>26. ASSUME NEW c \in Carriers, Send(c) PROVE TypeInv'
  BY <1>26 DEF Send
<1>27. CASE UNCHANGED vars
  BY <1>27 DEF vars
<1> QED
  BY <1>1, <1>2, <1>3, <1>4, <1>5, <1>6, <1>7, <1>8, <1>9, <1>10, <1>11,
     <1>12, <1>13, <1>14, <1>15, <1>16, <1>17, <1>18, <1>19, <1>20, <1>21,
     <1>22, <1>23, <1>24, <1>25, <1>26, <1>27
  DEF Next, Process

(* Accepting takes the floor to a counter above all answered ones; another *)
(* thread between its check and its acceptance is recorded.                *)
LEMMA FloorStep ==
  ASSUME TypeInv, FloorInv, [Next]_vars
  PROVE  FloorInv'
<1> USE MessageType, ThreadsAssumption
    DEF TypeInv, TypeOK, FloorInv, LoadInv, Checking, Answering, Go, Return, KeepLocals,
        carriers, locals, keys, buffers, guard
<1>1. ASSUME NEW c \in Carriers, NEW m \in Message, Receive(c, m) PROVE FloorInv'
  BY <1>1 DEF Receive, Submitted
<1>2. ASSUME NEW c \in Carriers, Dequeue(c) PROVE FloorInv'
  BY <1>2 DEF Dequeue
<1>3. ASSUME NEW c \in Carriers, Parse(c) PROVE FloorInv'
  BY <1>3 DEF Parse
<1>4. ASSUME NEW c \in Carriers, Ends(c) PROVE FloorInv'
  BY <1>4 DEF Ends
<1>5. ASSUME NEW c \in Carriers, BundleReady(c) PROVE FloorInv'
  BY <1>5 DEF BundleReady, Meets
<1>6. ASSUME NEW c \in Carriers, SignerReady(c) PROVE FloorInv'
  BY <1>6 DEF SignerReady
<1>7. ASSUME NEW c \in Carriers, InitSigner(c) PROVE FloorInv'
  BY <1>7 DEF InitSigner
<1>8. ASSUME NEW c \in Carriers, Probe(c) PROVE FloorInv'
  BY <1>8 DEF Probe
<1>9. ASSUME NEW c \in Carriers, Generate(c) PROVE FloorInv'
  BY <1>9 DEF Generate
<1>10. ASSUME NEW c \in Carriers, Build(c) PROVE FloorInv'
  BY <1>10 DEF Build
<1>11. ASSUME NEW c \in Carriers, Export(c) PROVE FloorInv'
  BY <1>11 DEF Export, BundleReset, Meets
<1>12. ASSUME NEW c \in Carriers, ReplayReady(c) PROVE FloorInv'
  BY <1>12 DEF ReplayReady, Meets
<1>13. ASSUME NEW c \in Carriers, ForgetLoaded(c) PROVE FloorInv'
  BY <1>13 DEF ForgetLoaded, Meets
<1>14. ASSUME NEW c \in Carriers, Load(c) PROVE FloorInv'
  BY <1>14 DEF Load
<1>15. ASSUME NEW c \in Carriers, SetFloor(c) PROVE FloorInv'
  BY <1>15 DEF SetFloor
<1>16. ASSUME NEW c \in Carriers, Reserve(c) PROVE FloorInv'
  BY <1>16 DEF Reserve
<1>17. ASSUME NEW c \in Carriers, SetReady(c) PROVE FloorInv'
  BY <1>17 DEF SetReady
<1>18. ASSUME NEW c \in Carriers, LoadKey(c) PROVE FloorInv'
  BY <1>18 DEF LoadKey, Meets
<1>19. ASSUME NEW c \in Carriers, NoClientKey(c) PROVE FloorInv'
  BY <1>19 DEF NoClientKey
<1>20. ASSUME NEW c \in Carriers, BindRequest(c) PROVE FloorInv'
  BY <1>20 DEF BindRequest, Meets
<1>21. ASSUME NEW c \in Carriers, Verify(c) PROVE FloorInv'
  BY <1>21 DEF Verify
<1>22. ASSUME NEW c \in Carriers, CheckFresh(c) PROVE FloorInv'
  BY <1>22 DEF CheckFresh, IsFresh
<1>23. ASSUME NEW c \in Carriers, Accept(c) PROVE FloorInv'
  BY <1>23 DEF Accept, Meets, NewFloor
<1>24. ASSUME NEW c \in Carriers, BindResponse(c) PROVE FloorInv'
  BY <1>24 DEF BindResponse, Meets, ResponseCounter
<1>25. ASSUME NEW c \in Carriers, Sign(c) PROVE FloorInv'
  BY <1>25 DEF Sign
<1>26. ASSUME NEW c \in Carriers, Send(c) PROVE FloorInv'
  BY <1>26 DEF Send
<1>27. CASE UNCHANGED vars
  BY <1>27 DEF vars
<1> QED
  BY <1>1, <1>2, <1>3, <1>4, <1>5, <1>6, <1>7, <1>8, <1>9, <1>10, <1>11,
     <1>12, <1>13, <1>14, <1>15, <1>16, <1>17, <1>18, <1>19, <1>20, <1>21,
     <1>22, <1>23, <1>24, <1>25, <1>26, <1>27
  DEF Next, Process

(* What a thread reads of the buffer is what it parsed, or is unread.      *)
LEMMA RequestStep ==
  ASSUME TypeInv, RequestInv, [Next]_vars
  PROVE  RequestInv'
<1> USE DEF TypeInv, TypeOK, RequestInv, Answering, Go, Return, KeepLocals, carriers, locals,
        keys, buffers, guard
<1>1. ASSUME NEW c \in Carriers, NEW m \in Message, Receive(c, m) PROVE RequestInv'
  BY <1>1 DEF Receive, Submitted
<1>2. ASSUME NEW c \in Carriers, Dequeue(c) PROVE RequestInv'
  BY <1>2 DEF Dequeue
<1>3. ASSUME NEW c \in Carriers, Parse(c) PROVE RequestInv'
  BY <1>3 DEF Parse
<1>4. ASSUME NEW c \in Carriers, Ends(c) PROVE RequestInv'
  BY <1>4 DEF Ends
<1>5. ASSUME NEW c \in Carriers, BundleReady(c) PROVE RequestInv'
  BY <1>5 DEF BundleReady, Meets
<1>6. ASSUME NEW c \in Carriers, SignerReady(c) PROVE RequestInv'
  BY <1>6 DEF SignerReady
<1>7. ASSUME NEW c \in Carriers, InitSigner(c) PROVE RequestInv'
  BY <1>7 DEF InitSigner
<1>8. ASSUME NEW c \in Carriers, Probe(c) PROVE RequestInv'
  BY <1>8 DEF Probe
<1>9. ASSUME NEW c \in Carriers, Generate(c) PROVE RequestInv'
  BY <1>9 DEF Generate
<1>10. ASSUME NEW c \in Carriers, Build(c) PROVE RequestInv'
  BY <1>10 DEF Build
<1>11. ASSUME NEW c \in Carriers, Export(c) PROVE RequestInv'
  BY <1>11 DEF Export, Meets
<1>12. ASSUME NEW c \in Carriers, ReplayReady(c) PROVE RequestInv'
  BY <1>12 DEF ReplayReady, Meets
<1>13. ASSUME NEW c \in Carriers, ForgetLoaded(c) PROVE RequestInv'
  BY <1>13 DEF ForgetLoaded, Meets
<1>14. ASSUME NEW c \in Carriers, Load(c) PROVE RequestInv'
  BY <1>14 DEF Load
<1>15. ASSUME NEW c \in Carriers, SetFloor(c) PROVE RequestInv'
  BY <1>15 DEF SetFloor
<1>16. ASSUME NEW c \in Carriers, Reserve(c) PROVE RequestInv'
  BY <1>16 DEF Reserve
<1>17. ASSUME NEW c \in Carriers, SetReady(c) PROVE RequestInv'
  BY <1>17 DEF SetReady
<1>18. ASSUME NEW c \in Carriers, LoadKey(c) PROVE RequestInv'
  BY <1>18 DEF LoadKey, Meets
<1>19. ASSUME NEW c \in Carriers, NoClientKey(c) PROVE RequestInv'
  BY <1>19 DEF NoClientKey
<1>20. ASSUME NEW c \in Carriers, BindRequest(c) PROVE RequestInv'
  BY <1>20 DEF BindRequest, Meets
<1>21. ASSUME NEW c \in Carriers, Verify(c) PROVE RequestInv'
  BY <1>21 DEF Verify, Verifies
<1>22. ASSUME NEW c \in Carriers, CheckFresh(c) PROVE RequestInv'
  BY <1>22 DEF CheckFresh
<1>23. ASSUME NEW c \in Carriers, Accept(c) PROVE RequestInv'
  BY <1>23 DEF Accept, Meets
<1>24. ASSUME NEW c \in Carriers, BindResponse(c) PROVE RequestInv'
  BY <1>24 DEF BindResponse, Meets
<1>25. ASSUME NEW c \in Carriers, Sign(c) PROVE RequestInv'
  BY <1>25 DEF Sign
<1>26. ASSUME NEW c \in Carriers, Send(c) PROVE RequestInv'
  BY <1>26 DEF Send
<1>27. CASE UNCHANGED vars
  BY <1>27 DEF vars
<1> QED
  BY <1>1, <1>2, <1>3, <1>4, <1>5, <1>6, <1>7, <1>8, <1>9, <1>10, <1>11,
     <1>12, <1>13, <1>14, <1>15, <1>16, <1>17, <1>18, <1>19, <1>20, <1>21,
     <1>22, <1>23, <1>24, <1>25, <1>26, <1>27
  DEF Next, Process

(* A thread that initialises while another one goes on is recorded.        *)
LEMMA KeyStep ==
  ASSUME TypeInv, KeyInv, [Next]_vars
  PROVE  KeyInv'
<1> USE DEF TypeInv, TypeOK, KeyInv, Keyed, Loading, Checking, Phases, NoKey, Answering, Go, Return,
        KeepLocals, carriers, locals, keys, buffers, guard
<1>1. ASSUME NEW c \in Carriers, NEW m \in Message, Receive(c, m) PROVE KeyInv'
  BY <1>1 DEF Receive, Submitted
<1>2. ASSUME NEW c \in Carriers, Dequeue(c) PROVE KeyInv'
  BY <1>2 DEF Dequeue
<1>3. ASSUME NEW c \in Carriers, Parse(c) PROVE KeyInv'
  BY <1>3 DEF Parse
<1>4. ASSUME NEW c \in Carriers, Ends(c) PROVE KeyInv'
  BY <1>4 DEF Ends
<1>5. ASSUME NEW c \in Carriers, BundleReady(c) PROVE KeyInv'
  BY <1>5 DEF BundleReady, Meets
<1>6. ASSUME NEW c \in Carriers, SignerReady(c) PROVE KeyInv'
  BY <1>6 DEF SignerReady
<1>7. ASSUME NEW c \in Carriers, InitSigner(c) PROVE KeyInv'
  BY <1>7 DEF InitSigner
<1>8. ASSUME NEW c \in Carriers, Probe(c) PROVE KeyInv'
  <2>1. CASE Go(c, "probe", "generate") /\ UNCHANGED <<signer, crossed>>
    BY <1>8, <2>1 DEF Probe
  <2>2. CASE slot /\ Go(c, "probe", "build") /\ signer = "persistent"
    BY <1>8, <2>2 DEF Probe
  <2>3. CASE slot /\ Go(c, "probe", "build") /\ signer = NoKey
    BY <1>8, <2>3 DEF Probe
  <2>4. CASE signer = "volatile" /\ "signer" \in crossed'
    BY <2>4
  <2>5. signer \in DeviceKey
    OBVIOUS
  <2> QED BY <1>8, <2>1, <2>2, <2>3, <2>4, <2>5 DEF Probe, DeviceKey
<1>9. ASSUME NEW c \in Carriers, Generate(c) PROVE KeyInv'
  <2>1. CASE signer # NoKey
    BY <1>9, <2>1 DEF Generate
  <2>2. CASE signer = NoKey /\ crossed \cap {"signer", "bundle"} = {}
    <3>1. /\ bundle = NoKey
          /\ \A d \in Carriers :
               /\ buf[d].key # "volatile"
               /\ phase[d] \notin {"build", "export"} \cup Keyed
      BY <2>2
    <3>2. /\ bundle' = bundle /\ buf' = buf /\ crossed' = crossed
          /\ signer' = "volatile" => fellBack'
      BY <1>9, <2>2, Zenon DEF Generate
    <3>3. CASE Go(c, "generate", "build") /\ signer' # NoKey
      BY <3>1, <3>2, <3>3
    <3>4. CASE Return(c, "generate") /\ signer' = NoKey
      BY <3>1, <3>2, <3>4
    <3>5. \/ Go(c, "generate", "build") /\ signer' # NoKey
          \/ Return(c, "generate") /\ signer' = NoKey
      BY <1>9 DEF Generate
    <3> QED BY <3>3, <3>4, <3>5
  <2>3. CASE crossed \cap {"signer", "bundle"} # {}
    BY <1>9, <2>3 DEF Generate
  <2> QED BY <2>1, <2>2, <2>3
<1>10. ASSUME NEW c \in Carriers, Build(c) PROVE KeyInv'
  <2>1. /\ bundle' = signer /\ signer' = signer /\ signer # NoKey
        /\ phase[c] = "build" /\ phase' = [phase EXCEPT ![c] = "export"]
        /\ UNCHANGED <<buf, devicePub, fellBack, reqPre, preimageBuf, verified,
                       signs, crossed>>
    BY <1>10 DEF Build
  <2>2. CASE crossed \cap {"signer", "bundle"} # {}
    BY <2>1, <2>2
  <2>3. CASE crossed \cap {"signer", "bundle"} = {}
    <3>1. phase'[c] = "export"
      BY <2>1
    <3>2. signer' = "volatile" => fellBack'
      BY <2>1, <2>3
    <3>3. bundle' = signer' /\ \E d \in Carriers : phase'[d] = "export"
      BY <2>1, <3>1
    <3>4. ASSUME NEW d \in Carriers
          PROVE  /\ buf'[d].key = "volatile" => signer' = "volatile"
                 /\ phase'[d] \in {"build", "export"} => signer' # NoKey
                 /\ phase'[d] \in Keyed => signer' # NoKey /\ devicePub' = signer'
                 /\ phase'[d] = "verify" => reqPre'.key = signer'
                 /\ phase'[d] \in {"fresh", "accept"} \cup Answering =>
                      verified'[d].key = signer'
                 /\ phase'[d] = "sign" => preimageBuf'.key = signer'
                 /\ phase'[d] = "send" => signs'[d].key = signer'
      BY <2>1, <2>3
    <3> QED BY <3>2, <3>3, <3>4
  <2> QED BY <2>2, <2>3
<1>11. ASSUME NEW c \in Carriers, Export(c) PROVE KeyInv'
  <2>1. /\ phase[c] = "export"
        /\ UNCHANGED <<buf, signer, fellBack, reqPre, preimageBuf>>
        /\ crossed \subseteq crossed'
    BY <1>11 DEF Export, Meets
  <2>2. CASE crossed' \cap {"signer", "bundle"} # {}
    BY <2>2
  <2>3. CASE crossed' \cap {"signer", "bundle"} = {}
    <3>1. /\ crossed \cap {"signer", "bundle"} = {}
          /\ \A d \in Carriers \ {c} : phase[d] \in {"idle", "taken", "echo"}
      BY <1>11, <2>1, <2>3 DEF Export, Meets
    <3>2. \A d \in Carriers : buf[d].key = "volatile" => signer = "volatile"
      BY <3>1
    <3>3. CASE Go(c, "export", "replay") /\ devicePub' = signer /\ bundle' = bundle
      <4>1. \A d \in Carriers \ {c} : phase'[d] = phase[d]
        BY <3>3
      <4> QED BY <2>1, <3>1, <3>2, <3>3, <4>1
    <3>4. CASE Return(c, "export") /\ bundle' = NoKey
      BY <2>1, <3>1, <3>2, <3>4
    <3> QED BY <1>11, <3>3, <3>4 DEF Export, BundleReset
  <2> QED BY <2>2, <2>3
<1>12. ASSUME NEW c \in Carriers, ReplayReady(c) PROVE KeyInv'
  BY <1>12 DEF ReplayReady, Meets
<1>13. ASSUME NEW c \in Carriers, ForgetLoaded(c) PROVE KeyInv'
  BY <1>13 DEF ForgetLoaded, Meets
<1>14. ASSUME NEW c \in Carriers, Load(c) PROVE KeyInv'
  BY <1>14 DEF Load
<1>15. ASSUME NEW c \in Carriers, SetFloor(c) PROVE KeyInv'
  BY <1>15 DEF SetFloor
<1>16. ASSUME NEW c \in Carriers, Reserve(c) PROVE KeyInv'
  BY <1>16 DEF Reserve
<1>17. ASSUME NEW c \in Carriers, SetReady(c) PROVE KeyInv'
  BY <1>17 DEF SetReady
<1>18. ASSUME NEW c \in Carriers, LoadKey(c) PROVE KeyInv'
  BY <1>18 DEF LoadKey, Meets
<1>19. ASSUME NEW c \in Carriers, NoClientKey(c) PROVE KeyInv'
  BY <1>19 DEF NoClientKey
<1>20. ASSUME NEW c \in Carriers, BindRequest(c) PROVE KeyInv'
  BY <1>20 DEF BindRequest, Meets
<1>21. ASSUME NEW c \in Carriers, Verify(c) PROVE KeyInv'
  BY <1>21 DEF Verify, Verifies
<1>22. ASSUME NEW c \in Carriers, CheckFresh(c) PROVE KeyInv'
  BY <1>22 DEF CheckFresh
<1>23. ASSUME NEW c \in Carriers, Accept(c) PROVE KeyInv'
  BY <1>23 DEF Accept, Meets
<1>24. ASSUME NEW c \in Carriers, BindResponse(c) PROVE KeyInv'
  BY <1>24 DEF BindResponse, Meets
<1>25. ASSUME NEW c \in Carriers, Sign(c) PROVE KeyInv'
  BY <1>25 DEF Sign
<1>26. ASSUME NEW c \in Carriers, Send(c) PROVE KeyInv'
  BY <1>26 DEF Send
<1>27. CASE UNCHANGED vars
  BY <1>27 DEF vars
<1> QED
  BY <1>1, <1>2, <1>3, <1>4, <1>5, <1>6, <1>7, <1>8, <1>9, <1>10, <1>11,
     <1>12, <1>13, <1>14, <1>15, <1>16, <1>17, <1>18, <1>19, <1>20, <1>21,
     <1>22, <1>23, <1>24, <1>25, <1>26, <1>27
  DEF Next, Process

(* A thread that passes while another one loads the key is recorded.       *)
LEMMA StoreStep ==
  ASSUME TypeInv, StoreInv, [Next]_vars
  PROVE  StoreInv'
<1> USE DEF TypeInv, TypeOK, StoreInv, Checking, Answering, Go, Return, KeepLocals, carriers, locals,
        keys, buffers, guard
<1>1. ASSUME NEW c \in Carriers, NEW m \in Message, Receive(c, m) PROVE StoreInv'
  BY <1>1 DEF Receive, Submitted
<1>2. ASSUME NEW c \in Carriers, Dequeue(c) PROVE StoreInv'
  BY <1>2 DEF Dequeue
<1>3. ASSUME NEW c \in Carriers, Parse(c) PROVE StoreInv'
  BY <1>3 DEF Parse
<1>4. ASSUME NEW c \in Carriers, Ends(c) PROVE StoreInv'
  BY <1>4 DEF Ends
<1>5. ASSUME NEW c \in Carriers, BundleReady(c) PROVE StoreInv'
  BY <1>5 DEF BundleReady, Meets
<1>6. ASSUME NEW c \in Carriers, SignerReady(c) PROVE StoreInv'
  BY <1>6 DEF SignerReady
<1>7. ASSUME NEW c \in Carriers, InitSigner(c) PROVE StoreInv'
  BY <1>7 DEF InitSigner
<1>8. ASSUME NEW c \in Carriers, Probe(c) PROVE StoreInv'
  BY <1>8 DEF Probe
<1>9. ASSUME NEW c \in Carriers, Generate(c) PROVE StoreInv'
  BY <1>9 DEF Generate
<1>10. ASSUME NEW c \in Carriers, Build(c) PROVE StoreInv'
  BY <1>10 DEF Build
<1>11. ASSUME NEW c \in Carriers, Export(c) PROVE StoreInv'
  BY <1>11 DEF Export, Meets
<1>12. ASSUME NEW c \in Carriers, ReplayReady(c) PROVE StoreInv'
  BY <1>12 DEF ReplayReady, Meets
<1>13. ASSUME NEW c \in Carriers, ForgetLoaded(c) PROVE StoreInv'
  BY <1>13 DEF ForgetLoaded, Meets
<1>14. ASSUME NEW c \in Carriers, Load(c) PROVE StoreInv'
  BY <1>14 DEF Load
<1>15. ASSUME NEW c \in Carriers, SetFloor(c) PROVE StoreInv'
  BY <1>15 DEF SetFloor
<1>16. ASSUME NEW c \in Carriers, Reserve(c) PROVE StoreInv'
  BY <1>16 DEF Reserve
<1>17. ASSUME NEW c \in Carriers, SetReady(c) PROVE StoreInv'
  BY <1>17 DEF SetReady
<1>18. ASSUME NEW c \in Carriers, LoadKey(c) PROVE StoreInv'
  BY <1>18 DEF LoadKey, Meets
<1>19. ASSUME NEW c \in Carriers, NoClientKey(c) PROVE StoreInv'
  BY <1>19 DEF NoClientKey
<1>20. ASSUME NEW c \in Carriers, BindRequest(c) PROVE StoreInv'
  BY <1>20 DEF BindRequest, Meets
<1>21. ASSUME NEW c \in Carriers, Verify(c) PROVE StoreInv'
  BY <1>21 DEF Verify
<1>22. ASSUME NEW c \in Carriers, CheckFresh(c) PROVE StoreInv'
  BY <1>22 DEF CheckFresh
<1>23. ASSUME NEW c \in Carriers, Accept(c) PROVE StoreInv'
  BY <1>23 DEF Accept, Meets
<1>24. ASSUME NEW c \in Carriers, BindResponse(c) PROVE StoreInv'
  BY <1>24 DEF BindResponse, Meets, ResponseCounter
<1>25. ASSUME NEW c \in Carriers, Sign(c) PROVE StoreInv'
  BY <1>25 DEF Sign
<1>26. ASSUME NEW c \in Carriers, Send(c) PROVE StoreInv'
  BY <1>26 DEF Send
<1>27. CASE UNCHANGED vars
  BY <1>27 DEF vars
<1> QED
  BY <1>1, <1>2, <1>3, <1>4, <1>5, <1>6, <1>7, <1>8, <1>9, <1>10, <1>11,
     <1>12, <1>13, <1>14, <1>15, <1>16, <1>17, <1>18, <1>19, <1>20, <1>21,
     <1>22, <1>23, <1>24, <1>25, <1>26, <1>27
  DEF Next, Process

(* A thread that binds a response while another one signs is recorded.     *)
LEMMA ResponseStep ==
  ASSUME TypeInv, ResponseInv, [Next]_vars
  PROVE  ResponseInv'
<1> USE DEF TypeInv, TypeOK, ResponseInv, Answering, Go, Return, KeepLocals, carriers, locals,
        keys, buffers, guard
<1>1. ASSUME NEW c \in Carriers, NEW m \in Message, Receive(c, m) PROVE ResponseInv'
  BY <1>1 DEF Receive, Submitted
<1>2. ASSUME NEW c \in Carriers, Dequeue(c) PROVE ResponseInv'
  BY <1>2 DEF Dequeue
<1>3. ASSUME NEW c \in Carriers, Parse(c) PROVE ResponseInv'
  BY <1>3 DEF Parse
<1>4. ASSUME NEW c \in Carriers, Ends(c) PROVE ResponseInv'
  BY <1>4 DEF Ends
<1>5. ASSUME NEW c \in Carriers, BundleReady(c) PROVE ResponseInv'
  BY <1>5 DEF BundleReady, Meets
<1>6. ASSUME NEW c \in Carriers, SignerReady(c) PROVE ResponseInv'
  BY <1>6 DEF SignerReady
<1>7. ASSUME NEW c \in Carriers, InitSigner(c) PROVE ResponseInv'
  BY <1>7 DEF InitSigner
<1>8. ASSUME NEW c \in Carriers, Probe(c) PROVE ResponseInv'
  BY <1>8 DEF Probe
<1>9. ASSUME NEW c \in Carriers, Generate(c) PROVE ResponseInv'
  BY <1>9 DEF Generate
<1>10. ASSUME NEW c \in Carriers, Build(c) PROVE ResponseInv'
  BY <1>10 DEF Build
<1>11. ASSUME NEW c \in Carriers, Export(c) PROVE ResponseInv'
  BY <1>11 DEF Export, Meets
<1>12. ASSUME NEW c \in Carriers, ReplayReady(c) PROVE ResponseInv'
  BY <1>12 DEF ReplayReady, Meets
<1>13. ASSUME NEW c \in Carriers, ForgetLoaded(c) PROVE ResponseInv'
  BY <1>13 DEF ForgetLoaded, Meets
<1>14. ASSUME NEW c \in Carriers, Load(c) PROVE ResponseInv'
  BY <1>14 DEF Load
<1>15. ASSUME NEW c \in Carriers, SetFloor(c) PROVE ResponseInv'
  BY <1>15 DEF SetFloor
<1>16. ASSUME NEW c \in Carriers, Reserve(c) PROVE ResponseInv'
  BY <1>16 DEF Reserve
<1>17. ASSUME NEW c \in Carriers, SetReady(c) PROVE ResponseInv'
  BY <1>17 DEF SetReady
<1>18. ASSUME NEW c \in Carriers, LoadKey(c) PROVE ResponseInv'
  BY <1>18 DEF LoadKey, Meets
<1>19. ASSUME NEW c \in Carriers, NoClientKey(c) PROVE ResponseInv'
  BY <1>19 DEF NoClientKey
<1>20. ASSUME NEW c \in Carriers, BindRequest(c) PROVE ResponseInv'
  BY <1>20 DEF BindRequest, Meets
<1>21. ASSUME NEW c \in Carriers, Verify(c) PROVE ResponseInv'
  BY <1>21 DEF Verify
<1>22. ASSUME NEW c \in Carriers, CheckFresh(c) PROVE ResponseInv'
  BY <1>22 DEF CheckFresh
<1>23. ASSUME NEW c \in Carriers, Accept(c) PROVE ResponseInv'
  BY <1>23 DEF Accept, Meets
<1>24. ASSUME NEW c \in Carriers, BindResponse(c) PROVE ResponseInv'
  BY <1>24 DEF BindResponse, Meets, ResponseCounter
<1>25. ASSUME NEW c \in Carriers, Sign(c) PROVE ResponseInv'
  BY <1>25 DEF Sign
<1>26. ASSUME NEW c \in Carriers, Send(c) PROVE ResponseInv'
  BY <1>26 DEF Send
<1>27. CASE UNCHANGED vars
  BY <1>27 DEF vars
<1> QED
  BY <1>1, <1>2, <1>3, <1>4, <1>5, <1>6, <1>7, <1>8, <1>9, <1>10, <1>11,
     <1>12, <1>13, <1>14, <1>15, <1>16, <1>17, <1>18, <1>19, <1>20, <1>21,
     <1>22, <1>23, <1>24, <1>25, <1>26, <1>27
  DEF Next, Process

-----------------------------------------------------------------------------
ThreadsInv == TypeInv /\ FloorInv /\ RequestInv /\ KeyInv /\ StoreInv /\ ResponseInv

LEMMA ThreadsInvHolds == Spec => []ThreadsInv
<1>1. ThreadsInv /\ [Next]_vars => ThreadsInv'
  BY TypeStep, FloorStep, RequestStep, KeyStep, StoreStep, ResponseStep DEF ThreadsInv
<1>2. Init => ThreadsInv
  BY InitHolds DEF ThreadsInv
<1> QED
  BY <1>1, <1>2, PTL DEF Spec

(* The statics and the locals keep their types, however the threads mix.   *)
THEOREM ThreadsTypeCorrect == Spec => []TypeOK
<1>1. ThreadsInv => TypeOK  BY DEF ThreadsInv, TypeInv
<1> QED BY <1>1, ThreadsInvHolds, PTL

(* No counter gets a second response, in this boot or an earlier one, but  *)
(* when two threads were between the check of a counter and the move of    *)
(* the floor at once, or in the initialisation of the guard.               *)
THEOREM AnsweredOnceHolds == Spec => []AnsweredOnce
<1>1. ThreadsInv => AnsweredOnce
  BY DEF ThreadsInv, FloorInv, LoadInv, Answering, AnsweredOnce
<1> QED BY <1>1, ThreadsInvHolds, PTL

(* Where one transport is built in, no counter gets a second response at   *)
(* all.                                                                    *)
THEOREM OneCarrierAnswersOnce ==
  ASSUME NEW c \in Carriers, Carriers = {c}
  PROVE  Spec => []NeverPresentedAgain
<1> DEFINE Alone == /\ "floor" \notin crossed
                    /\ phase[c] \in {"load", "floor", "reserve", "ready"}
                         => ~gReplayReady
<1>1. Init => Alone
  BY DEF Init
<1>2. ThreadsInv /\ Alone /\ [Next]_vars => Alone'
  <2> SUFFICES ASSUME ThreadsInv, Alone, [Next]_vars PROVE Alone'
    OBVIOUS
  <2> USE DEF Go, Return, KeepLocals, carriers, locals, keys, buffers, guard
  <2>1. phase \in [Carriers -> Phases]
    BY DEF ThreadsInv, TypeInv, TypeOK
  <2>2. CASE UNCHANGED vars \/ \E m \in Message : Receive(c, m)
    BY <2>2 DEF Receive, vars
  <2>3. CASE \/ Dequeue(c) \/ Parse(c) \/ Ends(c) \/ BundleReady(c)
             \/ SignerReady(c) \/ InitSigner(c) \/ Build(c) \/ Export(c)
    BY <2>1, <2>3 DEF Dequeue, Parse, Ends, BundleReady, SignerReady, InitSigner,
      Build, Export, Meets, BundleReset
  <2>8. CASE Probe(c) \/ Generate(c)
    BY <2>1, <2>8 DEF Probe, Generate
  <2>4. CASE \/ ReplayReady(c) \/ SetReady(c) \/ LoadKey(c) \/ NoClientKey(c)
    BY <2>1, <2>4 DEF ReplayReady, SetReady, LoadKey, NoClientKey, Meets
  <2>5. CASE ForgetLoaded(c)
    BY <2>1, <2>5 DEF ForgetLoaded, Meets
  <2>6. CASE Load(c) \/ SetFloor(c) \/ Reserve(c)
    BY <2>1, <2>6 DEF Load, SetFloor, Reserve
  <2>7. CASE \/ BindRequest(c) \/ Verify(c) \/ CheckFresh(c) \/ Accept(c)
             \/ BindResponse(c) \/ Sign(c) \/ Send(c)
    BY <2>1, <2>7 DEF BindRequest, Verify, CheckFresh, Accept, BindResponse,
      Sign, Send, Meets
  <2> QED BY <2>2, <2>3, <2>4, <2>5, <2>6, <2>7, <2>8 DEF Next, Process
<1>3. ThreadsInv /\ Alone => NeverPresentedAgain
  BY DEF ThreadsInv, FloorInv, LoadInv, Answering, NeverPresentedAgain
<1> QED BY <1>1, <1>2, <1>3, ThreadsInvHolds, PTL DEF Spec

(* What a thread is about to send is bound to the counter it answers and   *)
(* to the key the client knows, unless threads met where it says.          *)
THEOREM ResponseIsBoundHolds == Spec => []ResponseIsBound
<1>1. ThreadsInv => ResponseIsBound
  BY DEF ThreadsInv, ResponseInv, KeyInv, Keyed, Answering, ResponseIsBound
<1> QED BY <1>1, ThreadsInvHolds, PTL

(* A signed request nobody has overwritten passes the check of its         *)
(* signature, unless threads met where it says.                            *)
THEOREM AuthenticPassesHolds == Spec => []AuthenticPasses
<1>1. ThreadsInv => AuthenticPasses
  <2> SUFFICES ASSUME ThreadsInv, NEW c \in Carriers, phase[c] = "verify",
                      ~unread[c], hdr[c].kind = "signed",
                      crossed \cap {"request", "signer", "bundle"} = {}
               PROVE  \/ Verifies(c)
                      \/ fellBack /\ hdr[c].key = "persistent" /\ signer = "volatile"
    BY DEF AuthenticPasses, ThreadsInv, StoreInv, Checking
  <2>1. /\ buf[c] = hdr[c]
        /\ reqPre.counter = hdr[c].counter
        /\ reqPre.payload = hdr[c].payload
    BY DEF ThreadsInv, RequestInv
  <2>2. /\ reqPre.key = signer /\ signer # NoKey
        /\ signer = "volatile" => fellBack
        /\ hdr[c].key = "volatile" => signer = "volatile"
    BY <2>1 DEF ThreadsInv, KeyInv, Keyed, Checking
  <2>3. reqPre \in Bound /\ signer \in DeviceKey /\ hdr[c] \in Message \cup {NoMessage}
    BY DEF ThreadsInv, TypeInv, TypeOK
  <2>4. hdr[c].key \in {"persistent", "volatile"}
    BY <2>3 DEF Message, NoMessage
  <2>5. CASE hdr[c].key = signer
    BY <2>1, <2>2, <2>3, <2>5 DEF Verifies, Bound
  <2>6. CASE hdr[c].key # signer
    BY <2>2, <2>3, <2>4, <2>6 DEF DeviceKey
  <2> QED BY <2>5, <2>6
<1> QED BY <1>1, ThreadsInvHolds, PTL

(* No write is forgotten.  Taking the item brings its thread to the parse, *)
(* which reads the buffer as it is then; what comes later queues the item  *)
(* anew.                                                                   *)
THEOREM NewestPendingHolds == Spec => []NewestPending
<1>1. Init => NewestPending
  BY DEF Init, NewestPending
<1>2. ThreadsInv /\ NewestPending /\ [Next]_vars => NewestPending'
  <2> SUFFICES ASSUME ThreadsInv, NewestPending, [Next]_vars PROVE NewestPending'
    OBVIOUS
  <2> USE DEF NewestPending, Go, carriers
  <2>1. /\ phase \in [Carriers -> Phases]
        /\ queued \in [Carriers -> BOOLEAN] /\ unread \in [Carriers -> BOOLEAN]
    BY DEF ThreadsInv, TypeInv, TypeOK
  <2>2. ASSUME NEW c \in Carriers, NEW m \in Message, Receive(c, m)
        PROVE  NewestPending'
    BY <2>1, <2>2 DEF Receive, Submitted, locals
  <2>3. ASSUME NEW c \in Carriers, Dequeue(c) PROVE NewestPending'
    BY <2>1, <2>3 DEF Dequeue
  <2>4. ASSUME NEW c \in Carriers, Parse(c) PROVE NewestPending'
    BY <2>1, <2>4 DEF Parse
  <2>5. ASSUME NEW c \in Carriers, Process(c), ~Dequeue(c), ~Parse(c)
        PROVE  /\ UNCHANGED carriers
               /\ phase[c] # "taken"
               /\ \E p \in Phases : phase' = [phase EXCEPT ![c] = p]
    <3>1. CASE \/ Ends(c) \/ BundleReady(c) \/ SignerReady(c) \/ InitSigner(c)
               \/ Probe(c) \/ Generate(c) \/ Build(c) \/ Export(c)
               \/ ReplayReady(c) \/ ForgetLoaded(c) \/ Load(c)
      BY <3>1 DEF Ends, Return, BundleReady, SignerReady, InitSigner, Probe,
        Generate, Build, Export, ReplayReady, ForgetLoaded, Load, Phases
    <3>2. CASE \/ SetFloor(c) \/ Reserve(c) \/ SetReady(c) \/ LoadKey(c)
               \/ NoClientKey(c) \/ BindRequest(c) \/ Verify(c) \/ CheckFresh(c)
      BY <3>2 DEF SetFloor, Reserve, SetReady, LoadKey, NoClientKey, BindRequest,
        Verify, CheckFresh, Return, Phases
    <3>3. CASE Accept(c) \/ BindResponse(c) \/ Sign(c) \/ Send(c)
      BY <3>3 DEF Accept, BindResponse, Sign, Send, Return, Phases
    <3> QED BY <2>5, <3>1, <3>2, <3>3 DEF Process
  <2>6. ASSUME NEW c \in Carriers, Process(c), ~Dequeue(c), ~Parse(c)
        PROVE  NewestPending'
    BY <2>1, <2>5, <2>6
  <2>7. CASE UNCHANGED vars
    BY <2>7 DEF vars, locals
  <2> QED BY <2>2, <2>3, <2>4, <2>6, <2>7 DEF Next
<1> QED BY <1>1, <1>2, ThreadsInvHolds, PTL DEF Spec

(* The counter a thread accepts is one the client signed, unless threads   *)
(* met in the request preimage.                                            *)
THEOREM AcceptsSignedCounterHolds == Spec => AcceptsSignedCounter
<1>1. ThreadsInv /\ [Next]_vars =>
        [mFloor' # mFloor =>
           \/ "request" \in crossed
           \/ \E c \in Carriers :
                \/ phase[c] = "accept" /\ phase'[c] = "response"
                   /\ verified[c].counter = mFloor'
                \/ phase[c] = "floor" /\ phase'[c] \in {"reserve", "ready"}]_vars
  <2> SUFFICES ASSUME ThreadsInv, [Next]_vars, mFloor' # mFloor,
                      "request" \notin crossed
               PROVE  \E c \in Carriers :
                        \/ phase[c] = "accept" /\ phase'[c] = "response"
                           /\ verified[c].counter = mFloor'
                        \/ phase[c] = "floor"
                           /\ phase'[c] \in {"reserve", "ready"}
    OBVIOUS
  <2>1. PICK c \in Carriers : Accept(c) \/ SetFloor(c)
    BY DEF Next, Process, Receive, Dequeue, Parse, Ends, BundleReady, SignerReady,
      InitSigner, Probe, Generate, Build, Export, ReplayReady, ForgetLoaded, Load, Reserve, SetReady,
      LoadKey, NoClientKey, BindRequest, Verify, CheckFresh, BindResponse, Sign,
      Send, vars, guard
  <2>2. phase \in [Carriers -> Phases]
    BY DEF ThreadsInv, TypeInv, TypeOK
  <2>3. CASE Accept(c)
    <3>1. /\ phase[c] = "accept" /\ phase'[c] = "response"
          /\ mFloor' = hdr[c].counter
      BY <2>2, <2>3 DEF Accept, Go, Return, NewFloor
    <3> QED BY <3>1 DEF ThreadsInv, RequestInv
  <2>4. CASE SetFloor(c)
    BY <2>2, <2>4 DEF SetFloor, Go
  <2> QED BY <2>1, <2>3, <2>4
<1> QED
  BY <1>1, ThreadsInvHolds, PTL DEF Spec, AcceptsSignedCounter
=============================================================================
