--------------------------- MODULE TunnelThreads ---------------------------
(***************************************************************************)
(* The carriers of a request and the threads they run ProcessRequest on:   *)
(* the BLE work queue (src/lib/tunnel/tunnel_ble.cpp), which reads one     *)
(* receive buffer while the Bluetooth thread may write the next request to *)
(* it, and the CHIP thread, whose command stays put until it is handled.   *)
(* Neither takes a lock, and both work on the same statics of              *)
(* tunnel_server.cpp: the signer, the bundle, the exported key, the two    *)
(* preimage buffers, the floor and the initialisation of all these.        *)
(*                                                                         *)
(* A step is what one thread does between two reads or writes of something *)
(* another one writes.  One boot, one registered client, which signs for   *)
(* the device's persistent key or, once it has fetched such a bundle, for  *)
(* the volatile one of this boot; the settings can be read, the storage of *)
(* the PSA key may fail.  Writes are of one length: a shorter one would    *)
(* leave the tail of the one before it in the buffer.                      *)
(***************************************************************************)
EXTENDS Integers

CONSTANTS Carriers,    \* the transports built in, among "ble" and "chip"
          MaxCounter,  \* counters the client uses
          Payloads,    \* payloads it sends
          MaxRequests  \* bound on the number of requests

ASSUME ThreadsAssumption ==
  /\ Carriers \subseteq {"ble", "chip"}
  /\ MaxCounter \in Nat /\ MaxRequests \in Nat

VARIABLES buf,       \* of a carrier: the last request
          queued,    \* of a carrier: it waits for the thread
          unread,    \* history: it has not been parsed
          phase,     \* of a thread: what ProcessRequest does next, or "idle"
          hdr,       \* of a thread: the type and counter it parsed
          verified,  \* of a thread: the request whose signature it checked
          signs,     \* of a thread: the preimage it signed
          slot,      \* the persistent PSA key exists
          signer,    \* gSigner.mKeyId
          bundle,    \* gBundle: the key it certifies, NoKey for gBundleLen = 0
          devicePub, \* gDevicePub
          fellBack,  \* history: failing storage made the signer take a
                     \* volatile key
          reqPre, preimageBuf,  \* the static buffers of ProcessRequest
          stored,    \* the ceiling in the settings, 0 for none
          gLoaded,   \* the static it is loaded to, 0 while not valid
          mFloor,    \* the replay guard's floor
          gReplayReady,
          hasKey,    \* the key store holds the client's key
          responded, \* history: the counters answered, in earlier boots too
          crossed,   \* history: the statics two threads have worked on at once
          requests   \* history: how many requests there were

carriers == <<buf, queued, unread, requests>>
locals == <<phase, hdr, verified, signs>>
keys == <<slot, signer, bundle, devicePub, fellBack>>
buffers == <<reqPre, preimageBuf>>
guard == <<stored, gLoaded, mFloor, gReplayReady, hasKey, responded>>
vars == <<carriers, locals, keys, buffers, guard, crossed>>

(* A forged request does not carry the client's signature; an echo has     *)
(* other bytes where a signed request has its counter (0 stands for them). *)
NoKey == "none"
Message == [kind : {"signed"}, counter : 1 .. MaxCounter, payload : Payloads,
            key : {"persistent", "volatile"}]
           \cup [kind : {"forged"}, counter : 1 .. MaxCounter,
                 payload : Payloads, key : {NoKey}]
           \cup [kind : {"echo"}, counter : {0}, payload : Payloads,
                 key : {NoKey}]
NoMessage == [kind |-> "none", counter |-> 0, payload |-> "none", key |-> NoKey]

DeviceKey == {"persistent", "volatile", NoKey}
Bound == [counter : 0 .. MaxCounter, payload : Payloads \cup {"none"},
          key : DeviceKey]
NoBound == [counter |-> 0, payload |-> "none", key |-> NoKey]

Phases == {"idle", "taken", "echo", "bundle", "probe", "generate", "build",
           "export", "replay", "load", "floor", "reserve", "ready", "keystore",
           "request", "verify", "fresh", "accept", "response", "sign", "send"}
Statics == {"signer", "bundle", "store", "request", "floor", "response"}

TypeOK ==
  /\ buf \in [Carriers -> Message \cup {NoMessage}]
  /\ hdr \in [Carriers -> Message \cup {NoMessage}]
  /\ queued \in [Carriers -> BOOLEAN] /\ unread \in [Carriers -> BOOLEAN]
  /\ phase \in [Carriers -> Phases]
  /\ verified \in [Carriers -> Message \cup {NoMessage}]
  /\ signs \in [Carriers -> Bound]
  /\ slot \in BOOLEAN /\ fellBack \in BOOLEAN
  /\ {signer, bundle, devicePub} \subseteq DeviceKey
  /\ {reqPre, preimageBuf} \subseteq Bound
  /\ stored \in 0 .. MaxCounter /\ gLoaded \in 0 .. MaxCounter
  /\ mFloor \in 0 .. MaxCounter
  /\ gReplayReady \in BOOLEAN /\ hasKey \in BOOLEAN
  /\ responded \subseteq 1 .. MaxCounter
  /\ crossed \subseteq Statics
  /\ requests \in 0 .. MaxRequests

(* A client that has sent signed requests before has counters left.        *)
Init ==
  /\ buf = [c \in Carriers |-> NoMessage]
  /\ hdr = [c \in Carriers |-> NoMessage]
  /\ queued = [c \in Carriers |-> FALSE]
  /\ unread = [c \in Carriers |-> FALSE]
  /\ phase = [c \in Carriers |-> "idle"]
  /\ verified = [c \in Carriers |-> NoMessage]
  /\ signs = [c \in Carriers |-> NoBound]
  /\ slot \in BOOLEAN /\ fellBack = FALSE
  /\ signer = NoKey /\ bundle = NoKey /\ devicePub = NoKey
  /\ reqPre = NoBound /\ preimageBuf = NoBound
  /\ stored \in 0 .. (MaxCounter - 1)
  /\ gLoaded = 0 /\ mFloor = 0
  /\ gReplayReady = FALSE /\ hasKey = FALSE
  /\ responded = 1 .. stored /\ crossed = {} /\ requests = 0

-----------------------------------------------------------------------------
(* Variants with a plausible slip, substituted by the project's mutants.   *)
SubmittedUnlessBusy(c) == queued[c] \/ phase[c] = "idle"
FreshAlways(c) == TRUE
VerifiesUnbound(c) == buf[c].kind = "signed"
NewFloorNext(c) == hdr[c].counter + 1
ResponseCounterReread(c) == buf[c].counter
BundleKept == bundle

-----------------------------------------------------------------------------
(* RxCallback: copy, then submit.  Submitting an item that is queued does  *)
(* nothing; submitting one that is running queues it again.  Writes of a   *)
(* bad length are dropped and change nothing.  A Matter command is handed  *)
(* over once the one before is done with.  The volatile key is known from  *)
(* the bundle alone.                                                       *)
Submitted(c) == TRUE

Receive(c, m) ==
  /\ requests < MaxRequests
  /\ m.key = "volatile" => bundle = "volatile"
  /\ c = "chip" => ~queued[c] /\ phase[c] = "idle"
  /\ buf' = [buf EXCEPT ![c] = m]
  /\ queued' = [queued EXCEPT ![c] = Submitted(c)]
  /\ unread' = [unread EXCEPT ![c] = TRUE]
  /\ requests' = requests + 1
  /\ UNCHANGED <<locals, keys, buffers, guard, crossed>>

Go(c, from, to) ==
  /\ phase[c] = from
  /\ phase' = [phase EXCEPT ![c] = to]

(* The handler returns; its locals are gone.                               *)
Return(c, from) ==
  /\ Go(c, from, "idle")
  /\ hdr' = [hdr EXCEPT ![c] = NoMessage]
  /\ verified' = [verified EXCEPT ![c] = NoMessage]
  /\ signs' = [signs EXCEPT ![c] = NoBound]

KeepLocals == UNCHANGED <<hdr, verified, signs>>

(* Records that a static was written or passed while another thread was in *)
(* the middle of using it.                                                 *)
Meets(c, static, phases) ==
  crossed' = crossed \cup {s \in {static} :
                             \E d \in Carriers \ {c} : phase[d] \in phases}

Dequeue(c) ==
  /\ queued[c] /\ Go(c, "idle", "taken")
  /\ queued' = [queued EXCEPT ![c] = FALSE]
  /\ UNCHANGED <<buf, unread, requests, keys, buffers, guard, crossed>>
  /\ KeepLocals

(* ProcessRequest reads the type, the counter and the lengths.             *)
Parse(c) ==
  /\ Go(c, "taken", IF buf[c].kind = "echo" THEN "echo" ELSE "bundle")
  /\ hdr' = [hdr EXCEPT ![c] = buf[c]]
  /\ unread' = [unread EXCEPT ![c] = FALSE]
  /\ UNCHANGED <<buf, queued, requests, verified, signs, keys, buffers, guard,
                 crossed>>

(* Steps that end the request without an effect: an echo, and EnsureBundle *)
(* with psa_crypto_init, a DAC or certificates that fail.                  *)
Ends(c) ==
  /\ \/ Return(c, "echo")
     \/ bundle = NoKey /\ signer = NoKey /\ Return(c, "bundle")
     \/ Return(c, "build")
  /\ UNCHANGED <<carriers, keys, buffers, guard, crossed>>

(* EnsureBundle, done before: gBundleLen tells.                            *)
BundleReady(c) ==
  /\ bundle # NoKey
  /\ Go(c, "bundle", "replay")
  /\ Meets(c, "bundle", {"export"})
  /\ KeepLocals /\ UNCHANGED <<carriers, keys, buffers, guard>>

(* Signer::Init.  A signer that has a key is ready.                        *)
SignerReady(c) ==
  /\ bundle = NoKey /\ signer # NoKey
  /\ Go(c, "bundle", "build")
  /\ KeepLocals /\ UNCHANGED <<carriers, keys, buffers, guard, crossed>>

InitSigner(c) ==
  /\ bundle = NoKey /\ signer = NoKey
  /\ Go(c, "bundle", "probe")
  /\ KeepLocals /\ UNCHANGED <<carriers, keys, buffers, guard, crossed>>

(* psa_get_key_attributes.  Whatever its error is, it is taken to say that *)
(* there is no key.                                                        *)
Probe(c) ==
  /\ \/ /\ slot
        /\ Go(c, "probe", "build")
        /\ signer' = "persistent"
        /\ crossed' = crossed \cup {s \in {"signer"} : signer = "volatile"}
     \/ Go(c, "probe", "generate") /\ UNCHANGED <<signer, crossed>>
  /\ KeepLocals
  /\ UNCHANGED <<carriers, slot, bundle, devicePub, fellBack, buffers, guard>>

(* psa_generate_key.  It refuses an id that exists, and it fails with the  *)
(* storage; whatever the error is, the signer takes a volatile key.  If    *)
(* that fails too, the key id is null.                                     *)
Generate(c) ==
  /\ \/ /\ ~slot
        /\ Go(c, "generate", "build") /\ KeepLocals
        /\ slot' = TRUE /\ signer' = "persistent" /\ UNCHANGED fellBack
     \/ /\ Go(c, "generate", "build") /\ KeepLocals
        /\ signer' = "volatile" /\ fellBack' = (fellBack \/ signer = NoKey)
        /\ UNCHANGED slot
     \/ /\ Return(c, "generate")
        /\ signer' = NoKey /\ UNCHANGED <<slot, fellBack>>
  /\ crossed' = crossed \cup {s \in {"signer"} : signer # NoKey}
  /\ UNCHANGED <<carriers, bundle, devicePub, buffers, guard>>

(* BuildIdentityBundle, then gBundleLen.                                   *)
Build(c) ==
  /\ signer # NoKey
  /\ Go(c, "build", "export")
  /\ bundle' = signer
  /\ KeepLocals
  /\ UNCHANGED <<carriers, slot, signer, devicePub, fellBack, buffers, guard,
                 crossed>>

(* ExportPublicKey.  A failed export may leave a length of zero.           *)
BundleReset == NoKey

Export(c) ==
  /\ \/ signer # NoKey /\ Go(c, "export", "replay") /\ KeepLocals
        /\ devicePub' = signer /\ UNCHANGED bundle
     \/ Return(c, "export")
        /\ bundle' = BundleReset /\ devicePub' \in {devicePub, NoKey}
  /\ Meets(c, "bundle", Phases \ {"idle", "taken", "echo"})
  /\ UNCHANGED <<carriers, slot, signer, fellBack, buffers, guard>>

-----------------------------------------------------------------------------
(* EnsureReplay.  The flag is set before the key store is loaded.          *)
ReplayReady(c) ==
  /\ gReplayReady
  /\ Go(c, "replay", "request")
  /\ Meets(c, "store", {"keystore"})
  /\ KeepLocals /\ UNCHANGED <<carriers, keys, buffers, guard>>

(* ReplayGuard::Init forgets what was loaded, loads the stored ceiling to  *)
(* a static, and makes it the floor.                                       *)
ForgetLoaded(c) ==
  /\ ~gReplayReady
  /\ Go(c, "replay", "load")
  /\ gLoaded' = 0
  /\ Meets(c, "floor", {"load", "floor"})
  /\ KeepLocals
  /\ UNCHANGED <<carriers, keys, buffers, stored, mFloor, gReplayReady, hasKey,
                 responded>>

Load(c) ==
  /\ Go(c, "load", "floor")
  /\ gLoaded' = stored
  /\ KeepLocals
  /\ UNCHANGED <<carriers, keys, buffers, stored, mFloor, gReplayReady, hasKey,
                 responded, crossed>>

SetFloor(c) ==
  /\ Go(c, "floor", IF gLoaded = 0 THEN "reserve" ELSE "ready")
  /\ mFloor' = gLoaded
  /\ crossed' = crossed \cup {s \in {"floor"} : gReplayReady}
  /\ KeepLocals
  /\ UNCHANGED <<carriers, keys, buffers, stored, gLoaded, gReplayReady, hasKey,
                 responded>>

(* A first boot reserves; what it reserves covers all counters here.       *)
Reserve(c) ==
  /\ \/ Go(c, "reserve", "ready") /\ KeepLocals /\ stored' = MaxCounter
     \/ Return(c, "reserve") /\ stored' \in {stored, MaxCounter}
  /\ UNCHANGED <<carriers, keys, buffers, gLoaded, mFloor, gReplayReady, hasKey,
                 responded, crossed>>

SetReady(c) ==
  /\ Go(c, "ready", "keystore") /\ KeepLocals
  /\ gReplayReady' = TRUE
  /\ UNCHANGED <<carriers, keys, buffers, stored, gLoaded, mFloor, hasKey,
                 responded, crossed>>

(* ClientKeyStore::Init; it loads to a static another thread may clear.    *)
LoadKey(c) ==
  /\ Go(c, "keystore", "request") /\ KeepLocals
  /\ Meets(c, "store", {"keystore"})
  /\ hasKey' \in {TRUE} \cup {hasKey : d \in {d \in Carriers \ {c} :
                                              phase[d] = "keystore"}}
  /\ UNCHANGED <<carriers, keys, buffers, stored, gLoaded, mFloor, gReplayReady,
                 responded>>

-----------------------------------------------------------------------------
(* HasKey, or AuthReject.  The preimage is built of the parsed counter and *)
(* the payload now in the buffer; its signature is the one there then.     *)
NoClientKey(c) ==
  /\ ~hasKey
  /\ Return(c, "request")
  /\ UNCHANGED <<carriers, keys, buffers, guard, crossed>>

BindRequest(c) ==
  /\ hasKey
  /\ Go(c, "request", "verify")
  /\ reqPre' = [counter |-> hdr[c].counter, payload |-> buf[c].payload,
                key |-> devicePub]
  /\ Meets(c, "request", {"verify"})
  /\ KeepLocals /\ UNCHANGED <<carriers, keys, preimageBuf, guard>>

Verifies(c) ==
  /\ buf[c].kind = "signed"
  /\ reqPre = [counter |-> buf[c].counter, payload |-> buf[c].payload,
               key |-> buf[c].key]

Verify(c) ==
  /\ \/ ~Verifies(c) /\ Return(c, "verify")       \* AuthReject
     \/ /\ Verifies(c) /\ Go(c, "verify", "fresh")
        /\ verified' = [verified EXCEPT ![c] = buf[c]]
        /\ UNCHANGED <<hdr, signs>>
  /\ UNCHANGED <<carriers, keys, buffers, guard, crossed>>

(* Freshness of the parsed counter, and its acceptance, after a ceiling    *)
(* that may have to be written.  ReplayGuard.tla has their detail.         *)
IsFresh(c) == hdr[c].counter > mFloor
NewFloor(c) == hdr[c].counter

CheckFresh(c) ==
  /\ \/ ~IsFresh(c) /\ Return(c, "fresh")         \* ReplayReject
     \/ IsFresh(c) /\ Go(c, "fresh", "accept") /\ KeepLocals
  /\ UNCHANGED <<carriers, keys, buffers, guard, crossed>>

Accept(c) ==
  /\ \/ /\ Go(c, "accept", "response") /\ KeepLocals
        /\ mFloor' = NewFloor(c)
        /\ Meets(c, "floor", {"accept"})
     \/ Return(c, "accept") /\ UNCHANGED <<mFloor, crossed>>
  /\ stored' \in {stored, MaxCounter}
  /\ UNCHANGED <<carriers, keys, buffers, gLoaded, gReplayReady, hasKey, responded>>

(* The response is signed over the payload now in the buffer.              *)
ResponseCounter(c) == hdr[c].counter

BindResponse(c) ==
  /\ Go(c, "response", "sign")
  /\ preimageBuf' = [counter |-> ResponseCounter(c),
                     payload |-> buf[c].payload, key |-> devicePub]
  /\ Meets(c, "response", {"sign"})
  /\ KeepLocals /\ UNCHANGED <<carriers, keys, reqPre, guard>>

Sign(c) ==
  /\ \/ /\ signer # NoKey
        /\ Go(c, "sign", "send")
        /\ signs' = [signs EXCEPT ![c] = preimageBuf]
        /\ UNCHANGED <<hdr, verified>>
     \/ Return(c, "sign")
  /\ UNCHANGED <<carriers, keys, buffers, guard, crossed>>

(* The payload is copied once more and the response sent; bt_nus_send may  *)
(* fail.                                                                   *)
Send(c) ==
  /\ Return(c, "send")
  /\ responded' \in {responded, responded \cup {hdr[c].counter}}
  /\ UNCHANGED <<carriers, keys, buffers, stored, gLoaded, mFloor, gReplayReady,
                 hasKey, crossed>>

Process(c) ==
  \/ Dequeue(c) \/ Parse(c) \/ Ends(c)
  \/ BundleReady(c) \/ SignerReady(c) \/ InitSigner(c) \/ Probe(c)
  \/ Generate(c) \/ Build(c) \/ Export(c)
  \/ ReplayReady(c) \/ ForgetLoaded(c) \/ Load(c) \/ SetFloor(c) \/ Reserve(c)
  \/ SetReady(c) \/ LoadKey(c) \/ NoClientKey(c)
  \/ BindRequest(c) \/ Verify(c) \/ CheckFresh(c) \/ Accept(c)
  \/ BindResponse(c) \/ Sign(c) \/ Send(c)

Next ==
  \E c \in Carriers : (\E m \in Message : Receive(c, m)) \/ Process(c)

(* Both threads run whenever those above them leave them the time.         *)
Spec == Init /\ [][Next]_vars /\ \A c \in Carriers : WF_vars(Process(c))

-----------------------------------------------------------------------------
(* A write that falls between taking the item and parsing it is processed  *)
(* twice.  All the same no counter gets a second response                  *)
(* (SECURITY.md:14-16), not even one answered in an earlier boot, as long  *)
(* as no two threads were between the check of a counter and the move of   *)
(* the floor at once, or in the initialisation of the guard.               *)
AnsweredOnce ==
  \A c \in Carriers :
    phase[c] = "send" /\ hdr[c].counter \in responded => "floor" \in crossed

(* However the buffer changes under the handler, the counter a thread      *)
(* accepts is one the registered client signed (SECURITY.md:82-83); the    *)
(* request preimage of another thread is all that can come in between.     *)
(* Nothing else moves the floor but the initialisation.                    *)
AcceptsSignedCounter ==
  [][mFloor' # mFloor =>
       \/ "request" \in crossed
       \/ \E c \in Carriers :
            \/ phase[c] = "accept" /\ phase'[c] = "response"
               /\ verified[c].counter = mFloor'
            \/ phase[c] = "floor" /\ phase'[c] \in {"reserve", "ready"}]_vars

(* What a thread signs is bound to the counter it answers and to the       *)
(* device key that the client signed for, never to one not exported yet,   *)
(* and it is that key it is signed with (tunnel_server.cpp:93-95), unless  *)
(* threads met in the response preimage or in the initialisation.  This    *)
(* holds for the volatile key the signer falls back to as well.            *)
ResponseIsBound ==
  \A c \in Carriers : phase[c] = "send" =>
    /\ signs[c].counter = hdr[c].counter \/ "response" \in crossed
    /\ \/ signs[c].key = verified[c].key /\ signs[c].key = signer
       \/ crossed \cap {"signer", "bundle"} # {}

(* A request that the client signed and nothing has overwritten finds the  *)
(* client's key and passes the signature check, unless threads met in the  *)
(* request preimage or in the initialisation, or the request is for the    *)
(* persistent key and failing storage has made the signer fall back to     *)
(* another (tunnel_crypto.cpp:65, 85-115).  Nothing else that may have     *)
(* failed in EnsureBundle and EnsureReplay leaves anything half done       *)
(* (tunnel_server.cpp:112-117, 126-137).                                   *)
AuthenticPasses ==
  \A c \in Carriers : ~unread[c] /\ hdr[c].kind = "signed" =>
    /\ phase[c] = "request" => hasKey \/ "store" \in crossed
    /\ phase[c] = "verify" =>
         \/ Verifies(c)
         \/ fellBack /\ hdr[c].key = "persistent" /\ signer = "volatile"
         \/ crossed \cap {"request", "signer", "bundle"} # {}

(* No write is forgotten: the newest request of a carrier waits in the     *)
(* queue or is about to be parsed, also when it came while the handler was *)
(* at work on the one before (tunnel_ble.cpp:233-237).                     *)
NewestPending ==
  \A c \in Carriers : unread[c] => queued[c] \/ phase[c] = "taken"

(* The newest request of each carrier is always processed: a write that    *)
(* finds the handler running is not forgotten (tunnel_ble.cpp:233-237).    *)
NewestServed == \A c \in Carriers : unread[c] ~> ~unread[c]

-----------------------------------------------------------------------------
(* "The device acts on a tunnel payload only when it is signed by the      *)
(* registered client key" (SECURITY.md:82-83): what it responds to is the  *)
(* payload whose signature it checked.                                     *)
AnswersWhatWasSigned ==
  \A c \in Carriers :
    phase[c] = "send" => signs[c].payload = verified[c].payload

(* "A captured payload cannot be presented again" (SECURITY.md:14): no     *)
(* counter is answered twice, whatever carrier it comes by.                *)
NeverPresentedAgain ==
  \A c \in Carriers : phase[c] = "send" => hdr[c].counter \notin responded
=============================================================================
