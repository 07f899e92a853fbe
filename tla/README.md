# Verification of matter-tunnel

TLA+ models, TLC runs and TLAPS proofs for the device side of matter-tunnel: an
end-to-end authenticated payload carried through an untrusted hub inside a Matter
vendor cluster, or over BLE. The sources are those under `src/`.

## 1. The system

| Component | Source | State | Operations |
|---|---|---|---|
| Replay guard | `lib/tunnel/tunnel_replay.{h,cpp}` | `mFloor`, `mCeiling`, `mPersistent`; the stored ceiling in settings | `Init`, `IsFresh`, `Accept`, `PersistCeiling` |
| Client key registration | `lib/tunnel/tunnel_client_key.{h,cpp}` | `mKey`, `mImported`, `mWindowUntil`, the button handler; the stored key | `Init`, `OpenWindow`, `Register`, `Verify`, `HasKey` |
| Request core | `lib/tunnel/tunnel_server.cpp`, `tunnel_core.h` | `gBundle`, `gBundleLen`, `gDevicePub`, `gReplayReady`, static work buffers | `ProcessRequest`: Echo, IdentityRequest, SignedRequest, RegisterClientKey |
| Envelope and preimage | `lib/tunnel/tunnel_envelope.{h,cpp}`; the framing in `tunnel_server.cpp:159-440` and `harness_ble.py:155-157` | the locals of the parser | packing, parsing, `BuildPreimage` |
| Device signer | `lib/tunnel/tunnel_crypto.{h,cpp}` | `mKeyId`; the persistent PSA key | `Init`, `ExportPublicKey`, `Sign` |
| Identity bundle | `lib/tunnel/tunnel_identity.{h,cpp}` | none of its own | `BuildIdentityBundle` |
| BLE transport | `lib/tunnel/tunnel_ble.cpp` | `sRxBuf`, `sConn`, `sParamRetries`, work items, the advertising request | receive, process, connect, disconnect, parameter update |
| Matter transport | `lib/tunnel/tunnel_server.cpp:442-512` | a static output buffer | cluster command handler, plugin init |
| Benchmark | `lib/tunnel/tunnel_bench.cpp` | none | timing loops |
| Measurement | `measure/*.py` | counters, sample lists | interleaved signed and unsigned samples, analysis |
| Tools | `tools/`, `zap/` | files | fabric test, set-up, cluster derivation |

A request arrives as bytes from a transport. `ProcessRequest` parses it, makes sure
that the identity bundle and (for a signed request) the guard and the key store are
initialised, checks the client's signature with the key store, then freshness with
the guard, accepts the counter - which may write flash - and signs the response.
Registration goes through the key store alone, gated by a button press. Everything
but two settings keys (`tunnel/ceiling`, `tunnel/clientkey`) and the PSA key is lost
at a reset.

What is hard here: a reset may fall between any two effects of an operation; the
flash may fail to read or to write; the relay may drop, repeat, delay and reorder
what it carries, across resets; initialisation is lazy, and its order decides what a
button press does; two transports can run the request core in two threads; and the
clients retry.

Correctness, component by component:

- *guard*: no counter is accepted twice in the life of a device; a reservation is in
  flash before what it covers is accepted; a reset burns at most `kReserve` counters;
  the counters at two writes to flash are `kReserve` apart.
- *key store*: one registration per press; a press is good for the whole window; an
  acknowledged key stays the key; signatures are checked with the key held.
- *request core*: commands are answered at most once and only for the registered
  key; only authentic requests move the counter or write flash; acknowledgements and
  responses cannot be confused.
- *envelope*: no read is behind the request and no write past a buffer, whatever a request declares; an intact
  request is parsed into what was packed; the preimage determines every field it binds.
- *identity*: what a client assembles from chunks is one bundle; the device key
  survives resets.
- *BLE*: a request is processed as it was received; the last one received is
  processed; parameter updates are bounded; a disconnected device advertises again.
- *measurement*: a sample is the answer to its own request.

`PROJECT.json` lists each hazard at its line with the properties that cover it, and maps
every definition to the lines it models.

## 2. The modules

| Module | Models | Kind |
|---|---|---|
| `ReplaySpec` | what the guard promises | abstract specification |
| `KeySpec` | what the key store promises | abstract specification |
| `ReplayGuard` | `tunnel_replay.*`, `EnsureReplay` | component |
| `ReplayGuardProofs` | theorems about `ReplayGuard` | proofs |
| `ClientKeyStore` | `tunnel_client_key.*` | component |
| `ClientKeyStoreProofs` | theorems about `ClientKeyStore` | proofs |
| `TunnelServer`, `MCTunnelServer` | `ProcessRequest` over both, the Matter command handler | composition of `ReplayGuard` and `ClientKeyStore` |
| `TunnelServerProofs` | theorems about `TunnelServer`, from those about its parts | proofs |
| `TunnelThreads` | `ProcessRequest` in the threads of both transports, over shared statics; the receive buffer of `tunnel_ble.cpp` | component |
| `TunnelThreadsProofs` | theorems about `TunnelThreads` | proofs |
| `BleLink` | the connections, work queue and advertising of `tunnel_ble.cpp` | component |
| `BleLinkProofs` | theorems about `BleLink` | proofs |
| `BleMeasurement` | `measure/harness_ble.py` against a device | component |
| `BleMeasurementProofs` | theorems about `BleMeasurement` | proofs |
| `IdentityBundle` | `Signer::Init`, the bundle and its fetch in chunks | component |
| `IdentityBundleProofs` | theorems about `IdentityBundle` | proofs |
| `Preimage` | `BuildPreimage`, byte for byte | algorithm |
| `Envelope`, `MCEnvelope` | the framing: what the client packs, what `ProcessRequest` reads of it and how much it writes | component, extends `Preimage` |
| `EnvelopeProofs` | theorems about `Preimage` and `Envelope` | proofs |

The modules use `Integers`, `Sequences`, `FiniteSets` and `SequencesExt`. Where a module
has definitions under "Variants", these are slips a change of the code could
introduce; no action uses them, and each one, put in the place of the definition it
varies, breaks a property (`mutants` in `PROJECT.json`).

### ReplayGuard

The variables are the members `mFloor`, `mCeiling`, `mPersistent`, the flag
`gReplayReady` of `tunnel_server.cpp`, and `stored` for the settings key
`tunnel/ceiling`. A call is cut at its accesses to the settings storage: `step` is the
access that comes next, `arg` the counter being accepted. `ReplayGuard::Init` is
`InitNotPersistent`, `LoadCeiling`, `LoadNothing` or `LoadFails`, the last two followed by
`ReserveSaved` or `ReserveFails`; `Accept` is `AcceptReserved`, `AcceptExhausted` or
`AcceptExtend`, then `ExtendSaved` or `ExtendFails`, then `Commit`. A write that returns an
error may have written or not. `Reset` is possible in every state. `used` (every counter
ever accepted) and `faults` (the kinds of storage failure so far) are history. Counters wrap at
`Modulus`, 2^32 in the code.

### ClientKeyStore

`mKey`, `mImported`, `mWindowUntil` and the flag for the button handler are the code's;
`Register` is cut before and after its write, so that presses, time and resets fall
in between. `TriggerPulled` is a product's own trigger, which SECURITY.md allows to call
`OpenWindow`. `press` remembers the last press no registration has used, `trusted` the
keys the device may rightly hold. The store implements `KeySpec`: `Held` is the key the
device holds, or would once this boot has loaded it, and `Attended` that a press is good
for a registration not begun yet. In `KeySpec` a registration is one step that takes a key
and needs somebody at the device; windows, RAM and the order of the writes are not in it.

### TunnelServer

One action per stage of `ProcessRequest`, in the order of the code: `Receive` (parsing and
the switch), `EnsureBundle`, `ReplayInit`/`StoreInit`, `Auth*`, `StaleRejected`/`Accept*`,
`SignResponse`, and for a registration `Register*` and `AckRegistration`. The parts are `INSTANCE`s
of the two modules above, and a stage that calls a part conjoins the part's action.
Any request may arrive in any idle state: that is the relay, which may lose,
repeat, delay and reorder. Of a payload only the length matters here, and it is
chosen where the code looks at it; a signature is the key it verifies under. `reply` is what the request is answered with; a rejection
is the status the Matter command handler maps it to. One thread at a time is assumed here;
`TunnelThreads` has several. `MaxFaults` bounds how many kinds of storage failure one behaviour has.

### TunnelThreads

With both transports built in, `ProcessRequest` runs on the CHIP thread and on the BLE work
queue, without a lock, over the statics of tunnel_server.cpp:84-95 and 275-319. A step is
what one thread does between two accesses to something another writes; `phase` says where each thread
is. `Receive` is `RxCallback` on the Bluetooth thread, atomic because that thread is
cooperative, or a Matter command, which waits for the one before. The lazy initialisation is cut
the same way: `EnsureBundle` (`BundleReady`, `SignerReady`, `InitSigner`, `Probe`, `Generate`, `Build`, `Export`)
with each of its failures, and `EnsureReplay` (`ReplayReady`, `ForgetLoaded`, `Load`, `SetFloor`, `Reserve`, `SetReady`, `LoadKey`). The
instance starts at a boot of a device that may have answered counters in earlier ones. As in tunnel_crypto.cpp:65 a
probe may fail though the key is there, and as in lines 85-115 any failure of `psa_generate_key` makes the signer take a
volatile key, or none if that fails too; one thread is enough for it, and `fellBack` remembers it. The client signs for the
persistent key, or for the volatile one once that has been in a bundle of this boot. `unread`, `responded`,
`fellBack` and `crossed` are history; `crossed` records each static in which two threads have met, and the properties
name the statics they depend on. So they say what holds of a build with one transport, and of
one with two until the race at that very line has happened. Of the two
carriers only `ble` can have its buffer overwritten while the handler reads it.

### BleLink

The module has the callbacks `OnConnected`, `OnParamUpdated`, `OnDisconnected`, `RxCallback`, the three
work items in one queue, the delayed `sParamWork`, and `InsertRequest`. An item is queued
once; one that is running can be queued again. Before `DoInit` the callbacks are
registered but the queue is not started; what they submit then has no effect in the
model. `faults` records a service that failed to register (`DoInit` then stops at tunnel_ble.cpp:250), a refused
update, a rejected advertising request and a link before `DoInit`. `DoInit` is one step: what a callback
submits between the start of the service and that of the queue is not modelled. `last` and `otherEnded` are history:
the link of the last `OnConnected` as long as it is up, and whether another link has ended since. The code has no such
memory, only `sConn`, which the end of either link clears.

### BleMeasurement

The coroutine (`Write`, `Answered`, `TimedOut`, one step between two awaits), the notification callback
(`Notify`), writes and notifications under way, and the device's buffer and work item,
which may be slower than the timeout. Exchange 0 is the warm-up, odd ones are unsigned,
even ones signed. Another central may hold the device's second link and send echoes, whose answers the
script hears as well, because the device notifies every subscriber (tunnel_ble.cpp:116).

### IdentityBundle

`Reuse`, `Generate`, `GenerateVolatile` are the ways through `Signer::Init`; a bundle is its key and
its signature, a byte of it is what that byte depends on. The client is not in the
repository and is modelled from how the request is served (external): it asks for the first byte it lacks.

### Preimage

`Bytes` is the concatenation `BuildPreimage` writes, `Need` the size it asks of its buffer. The module
has no state of its own; `Envelope` has the caller.

### Envelope

`Packed` is what harness_ble.py writes. `phase` says which check or read of `ProcessRequest` comes next; a step
is one such check or read, because `RxCallback` may put another write into the same buffer between any two of them
(`Overwrite`), the length fields included. The bytes of one field are read in one step, and so are the counter and the
payload length after it: there a write in the middle would give a number that is in neither request, which the checks
that follow treat like any other. `reach` records how far the handler has
read, `origin` what the client packed into the buffer if nothing has overwritten it. Signatures, the window, the
floor and the storage decide as they like here (the parts have modules of their own), and answers are told apart by
their length. `Bound` is what the preimage of a request is built of, `Signed` the fields of preimages that were
ever signed, for this device or another. The module is of a build with `CONFIG_TUNNEL_CLIENT_AUTH`.

## 3. The runs

`tlc -config <cfg> <module>` with the values in the configuration. Runs that must pass:

| Run | States | Shows |
|---|---|---|
| `replay_guard` | 53 thousand | no replay, reservation, bounded burn, spaced writes, refinement of `ReplaySpec`, with every storage failure |
| `client_key` | 82 thousand | one registration per press, windows of full length, keys neither lost nor rolled back, signatures checked with the key held |
| `tunnel_server` | 1.6 million | at most one answer per command, origin, authentication before any effect, acknowledgements apart from responses, both parts kept to their specifications, with each kind of storage failure |
| `two_transports` | 1.4 million | one response per counter, responses bound to their counter and to the device key the request was signed for, authentic requests pass, the accepted counter is a signed one, each unless threads met in the static it depends on; requests for the persistent key may also be refused after the signer has fallen back to a volatile one; the newest request is always served |
| `ble_link` | 1.0 million | bounded renegotiation, `sConn` is a link that is up, advertising resumes, the last link is made fast again unless another link ends first |
| `ble_measurement` | 1.8 million | fresh counters after timeouts, no negative round trip, foreign answers only after a timeout or of another central, termination |
| `identity` | 62 thousand | a fetch across resets is one bundle; the pinned key keeps signing |
| `envelope` | 25 thousand | reads stay inside the request and writes inside the buffers, intact requests are parsed into what was packed and served up to the limit, preimages bind their fields |

Bounds, and why they are enough:

- `replay_guard`: `Modulus` 8, `Reserve` 3. Three ceilings fit below the wrap, a counter can skip a
  whole reservation, and the last counters wrap; resets are unbounded.
- `client_key`: three keys, so that an old, a current and an interrupted one differ; `Window` 2 and
  `MaxUptime` 5 ticks, so that two windows fit in a boot and a press can extend another.
- `tunnel_server`: four counters with `Reserve` 1 (0 is never accepted, one extension and the wrap
  occur), two keys up to symmetry, one tick, and in each behaviour one kind of storage failure, of
  whichever part. More kinds at once are in the runs of the parts; the theorems about the server have no
  such bound.
- `two_transports`: two requests, two counters and two payloads, so two threads with the same or different
  counters, or one overwriting the other on one carrier; every interleaving of two threads from the lazy
  initialisation to the response is in. A third request only adds what comes after; the safety properties
  are proved for any number.
- `ble_link`: two links, as the build has (`ble-floor.conf:21`), and four slow-downs, one more
  than the three retries. Without that one the bound on the retries would not be reached.
- `ble_measurement`: two samples per condition and the warm-up, five exchanges; an answer can be late by
  up to four. One request of another central falls anywhere between. The start counter is above the
  floor, as the script requires. The safety properties are proved for any number of samples and of requests.
- `identity`: chunks of 2, signed part 2, bundle 5: three chunks, the signed part as long as a
  chunk may allow. Two keys, three builds.
- `envelope`: two writes, a request and one that overwrites it; a third could leave nothing in the buffer that
  differs in kind. Lengths lie at the edges of each check, and the 450 bytes of the bundle make the second chunk the
  shorter one. The counters stay below 2^31, where TLC's integers end; the proofs have all 32 bits. The preimages
  signed before are for keys a byte shorter and longer than the device's, with payloads that make up for the byte.

Deadlock is checked in `replay_guard`, `client_key` and `tunnel_server`. The others say
`CHECK_DEADLOCK FALSE`: `TunnelThreads`, `BleLink` and `identity` stop at the bounds on requests,
slow-downs or keys, `Envelope` at the bound on writes, and `BleMeasurement` ends.

Fairness:

- `TunnelThreads`: weak fairness of each thread's steps. Both are preemptible threads of one
  scheduler, and the threads above them yield; writes are bounded by the radio.
- `BleLink`: weak fairness of `DoInit` (scheduled unconditionally), of the timer, of the work queue's
  thread, and of the controller's answer to an update. No central has to connect, and
  CHIP does not have to slow anything down.
- `BleMeasurement`: weak fairness of the coroutine only, which includes the timeout. The
  device and the link owe nothing.

The safety runs assume no fairness.

## 4. Where code and text disagree

Four runs are expected to violate their property, which is a sentence of the source:

- `replay_extend_lost`: `PersistCeiling` raises `mCeiling` before `settings_save_one` and leaves it
  raised when that fails. Later counters below it are accepted with no reservation, although
  tunnel_replay.cpp:101-103 says a reset "can only lose the acceptance, never the reservation".
- `client_key_button`: Button 4 does nothing until the first signed request of a boot has
  installed its handler (tunnel_server.cpp:136), although tunnel_client_key.h:29 says a press opens a window.
- `ble_overwritten`: a second write changes the payload between the signature's check and
  the response, although SECURITY.md:82-83 says the device acts only on a signed payload.
- `two_transports_replay`: `EnsureReplay` is not under a lock. A second `ReplayGuard::Init` clears what the first
  has loaded before the first looks at it (tunnel_replay.cpp:39-40); the first takes the boot for a
  new device's, the floor starts at 0, and a counter answered in an earlier boot is answered again, although
  SECURITY.md:14 says "A captured payload cannot be presented again". `IsFresh` and `Accept`
  (tunnel_server.cpp:303, 316) can meet in the same way.

Met while modelling, and built into the models without a run of their own:

- A stored ceiling that cannot be read counts as a first boot, and the floor starts at 0
  (tunnel_replay.cpp:64); the header promises that it never moves back (tunnel_replay.h:33). This is
  the fault `loadLost`.
- The next ceiling is `counter + kReserve` (tunnel_replay.cpp:105), not the ceiling advanced by
  `kReserve` (tunnel_replay.h:30-31).
- The first signed request of a new device writes the first ceiling before its signature is looked
  at (tunnel_server.cpp:260 against 235-237). `OnlyAuthenticDrives` therefore speaks of the time after `Init`.
- A registered key whose write failed is acknowledged (tunnel_client_key.cpp:119); a reset brings the
  old key back. This is the fault `saveLost`.
- Any failure of the probe for the device key counts as its absence (tunnel_crypto.cpp:65), and a
  volatile key may take its place, in one thread with nothing else going on. Requests signed for the persistent key are
  then refused until the next boot. `intact` of `IdentityBundle` is then false, and `fellBack` of `TunnelThreads`
  true, which `AuthenticPasses` exempts.
- Two threads can generate the device key at once (tunnel_server.cpp:101-117): the second `psa_generate_key` is
  refused, and the error path takes a volatile key in the place of the persistent one (tunnel_crypto.cpp:85).
  `crossed` then has `signer`.
- `gBundleLen` is set before `gDevicePub` (tunnel_server.cpp:112), and `gReplayReady` before the key store is
  loaded (tunnel_server.cpp:135-136): another thread can see either as ready and reject an authentic request.
- `invoke` of harness.py waits for a line of chip-tool's log without a bound (harness.py:102), and
  the lines of a command given up are read by the next one.
- fabric-unreachable-test.sh:137 has "Refuse to issue a verdict" for a capture that disagrees with
  the attribute; what follows prints a warning and goes on to the verdict.
- With two links, `OnDisconnected` clears `sConn` whichever link has gone (tunnel_ble.cpp:215). The link that is
  still up, the one of the last connection included, is then not made fast again when CHIP slows it, until
  there is a new connection; tunnel_ble.cpp:187-191 re-asserts the interval without such a condition.
  `LastIsReasserted` therefore exempts a last link that another one's end has cut off (`otherEnded`). With
  two links an older one is not made fast again either; the comment speaks of "this link".
- An echo is answered with as many bytes as it has, up to 512 (tunnel_server.cpp:180), where tunnel_core.h:31 says "Largest
  response the protocol can emit: an identity chunk (5 + 400)". `StaysInside` is about the 512.
- A late notification is booked as the next exchange's sample (harness_ble.py:102-112), although
  the docstring calls the sample "write -> notification". `LateOnlyAfterTimeout` says when.

## 5. The proofs

All are for every value of the constants under the named assumptions, which TLC evaluates
in the runs as well. `tlapm` checks every one to its leaves.

- `ReplayGuardProofs` (assumes `ReserveAssumption`: 1 <= `Reserve` < `Modulus`). The invariant
  `GuardInv` adds to type correctness what each value of `step` means for `arg`, `mCeiling` and
  `stored`, and, while no failure has cost a reservation (`Intact`), that flash covers the RAM ceiling
  between calls and that the boot's floor is at or above every used counter. `NoReplay` alone is not
  inductive: it says nothing of the state before a reset. From `GuardInv` follow
  type correctness, `NoReplay`, `ReservationCovers`, `BurnBounded`, the three action properties,
  and the refinement of `ReplaySpec`; `GuardKeepsPromise` carries the abstract promise, that a used counter
  stays below the floor, over to the guard.
- `ClientKeyStoreProofs` (`StoreAssumption`): `StoreInv` joins the types, what `press` and the window
  have to do with each other, which keys RAM and flash may hold at each step of `Register`, and that a key is held
  during a registration (`HeldInv`; without it `Held` could jump back to flash in the middle of one). From it follow the
  types, the properties of the run and that no acknowledged key is lost (`KeyIsTrustedHolds`). `KeyRefinement` maps each
  step to one of `KeySpec` or a stutter: `RegisterKey` to `Register`, `RegisterSaved` to `Save`, `RegisterDone` to
  `Acknowledge`, a failure of the storage to `Fail`, a press or the end of its time to `Attend`, a reset or load to
  `Return`. `StoreKeepsPromise` carries the promise of `KeySpec` over: the key held and the key a reset returns to are
  rightful ones.
- `IdentityBundleProofs` (`IdentityAssumption`, notably `SignedLen <= kMaxChunk`): `FetchInv` says that the
  assembled bytes are the beginning of one bundle and that a chunk boundary never falls inside the
  signed part; `OneKey` that, while the key storage works, every key in the system is the persistent one.
- `EnvelopeProofs` (`EnvelopeAssumption`: what is packed fits its fields, counters have 32 bits, the device's key 32
  bytes). About `Preimage`: the header is injective because two or four octets determine their number; a concatenation
  of parts whose lengths agree determines the parts; so `Bytes` is injective for all keys shorter than 65536 bytes
  (`BytesInjective`), and `Binds` follows. About `Envelope`: `FramingInv` says for each phase what the checks made so far
  allow to be read. It is inductive although the buffer changes, because it speaks of the lengths once taken from it and not
  of the buffer. `StaysInside` follows, with the length of `Bytes` computed. `PackedInv` says that the buffer
  holds what was packed and that the fields taken so far are right, for which numbers are read back from their octets
  (`Packed16`, `Packed32`); `ServesWhatWasPacked` follows.
- `TunnelServerProofs` (`ServerAssumption`): each step of the server maps to a step or a stutter of the guard and
  of the key store (`GuardSpecHolds`, `StoreSpecHolds`), for which `StageInv` ties the stage to the request and to
  the counter being accepted. So the invariants of both parts hold in the server (`SameGuard`,
  `SameStore`, `PartsInv`), and with `AuthInv` (past its check a request is of the key held) and `OnceInv`
  (only accepted counters are answered, 0 never is) every property of the run follows. By way of its parts the
  server implements `ReplaySpec` and `KeySpec` (`ServerImplementsReplaySpec`, `ServerImplementsKeySpec`).
- `TunnelThreadsProofs` (`ThreadsAssumption`): one invariant for each static, each of the form
  "threads met here, or": `LoadInv` and `FloorInv` for the guard and its initialisation, `RequestInv` and
  `ResponseInv` for the two preimages, `KeyInv` for signer, bundle and exported key, `StoreInv` for the key store.
  `KeyInv` says that past the export the key of the signer, of the bundle, of `gDevicePub` and of the preimages are one,
  persistent or volatile, and that without `fellBack` it is the persistent one; no assumption on the PSA storage is made. They say what a thread may rely on at each phase. `OneCarrierAnswersOnce` is the consequence for a build with
  one transport: nothing is ever answered twice. `NewestPendingHolds` is the safety core of `NewestServed`: a
  request nobody has read is queued or about to be parsed, at every moment.
- `BleLinkProofs`: `QueueInv` (every item is queued at most once) for the types, and `RetryInv`, which counts an update
  under way as a retry already, for `ReassertionsBounded`. That no wake-up is lost is proved as two invariants, the
  safety cores of the liveness properties: `AdvertisingPending` (a device without a link advertises or has the item queued
  that will make it) and `ReassertionPending` (until another link ends, the last link, if slow, has an update asked for,
  under way or scheduled until its retries are used up). For the second, `ConnInv` says that `sConn` is the last link for as
  long as no other one ends, and `EarlyInv` what has happened to a link from before `DoInit`.
- `BleMeasurementProofs` (`MeasurementAssumption`): `ScriptInv` bounds the counter by the number of exchanges;
  `CounterInv` says that nothing sent or accepted is above the last counter spent, which is
  `FreshCounterSent` while the script is ready; `RttInv` that the queue of a waiting script holds only what came
  after its write. `LateInv` counts what is under way: without a timeout and without another
  central at most one request or answer, of this exchange. Otherwise it says whose each may be, and
  `LateOnlyAfterTimeout` follows when the script takes one. `NearsItsEnd` is the safety core of `Ends`: the variant
  `Remaining` is a natural number, every step of the coroutine makes it smaller, and neither the device, the link
  nor another central changes it.

Only model-checked: the liveness properties (`NewestServed`, `AdvertisesAgain`, `LastIsReasserted`, `Ends`), which are
beyond this prover. The safety core of each is proved (`NewestPending`, `AdvertisingPending`, `ReassertionPending`,
`NearsItsEnd`), and what fairness adds is that the threads and the coroutine run. The four violations are counterexamples and need no proof.

## 6. Not modelled

- Cryptography is symbolic: a signature is the key it verifies under. DER parsing of certificates and the
  PSA library are external.
- In `TunnelServer` and `TunnelThreads` the parsing of an envelope is a class of outcomes (well-formed, invalid,
  refused); the bytes are in `Envelope`, without what the parts decide.
- Within `TunnelThreads` a write to a static buffer is one step; two threads that copy to one at the same moment could
  leave a mixture, which verifies under no key. Settings that cannot be read are in `ReplayGuard` and `ClientKeyStore` only.
- The measuring loop of `measure/harness.py` is that of `harness_ble.py`; what it measures depends on the log and the timers of
  chip-tool, an external program. The verdict of `fabric-unreachable-test.sh` depends on text captured from others.
- `measure/harness.py`, `measure/analyse.py`, the operating tools, the benchmark, the cluster derivation and
  the example configurations: see `components` in `PROJECT.json` for the reason of each.

## 7. Plan

Done, in the order of the security argument: the guard, the key store, their abstract specifications, their
composition and its proofs; the preimage and the framing; the two transports' threads; the BLE carrier, the identity and the
BLE measurement, each with its proofs. Left, in order:

1. A client that resynchronises its counter after a replay rejection over a lossy relay, with liveness.
2. A boot after the races of `TunnelThreads`: what a volatile key or a floor of 0 does to the boots after it.

`two_transports` is the longest run, at about three minutes.
