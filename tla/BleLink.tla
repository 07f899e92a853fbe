------------------------------ MODULE BleLink ------------------------------
(***************************************************************************)
(* The connection side of the BLE carrier (src/lib/tunnel/tunnel_ble.cpp): *)
(* connection callbacks on the Bluetooth thread, and a work queue of one   *)
(* thread that runs requests, re-asserts the fast connection parameters    *)
(* and asks for advertising again, in the order they were submitted.       *)
(*                                                                         *)
(* External, modelled from how this file uses it: CHIP puts its own slow   *)
(* parameters on a link at any time, and lets a central connect to its     *)
(* own advertising; connectable advertising stops when a central connects. *)
(* What is submitted before DoInit has no effect: the queue has not been   *)
(* started and the items are not initialised.                              *)
(***************************************************************************)
EXTENDS Sequences, SequencesExt, FiniteSets, Integers

CONSTANTS Centrals,     \* as many as there may be links
          NoConn,       \* sConn = nullptr
          MaxSlowdowns  \* bound: how often CHIP slows a link down

ASSUME LinkAssumption == MaxSlowdowns \in Nat

MaxRetries == 3

VARIABLES inited,        \* DoInit has run
          conns,         \* the links that are up
          fast,          \* those with the fast interval
          asked,         \* those with an update under way
          sConn,         \* the link of the last OnConnected, if none ended
          sParamRetries, \* re-assertions since then
          paramTimer,    \* sParamWork waits for its 1.5 s
          queue,         \* the work queue
          running,       \* what its thread is at
          target,        \* sConn as ParamWorkHandler's guard read it
          advertising,   \* the tunnel's advertising is on
          slowdowns,     \* how often CHIP slowed a link
          reasserted,    \* history: re-assertions since the last OnConnected
          last,          \* history: the link of the last OnConnected
          otherEnded,    \* history: another link has ended since
          faults         \* history: what went wrong, see FaultKinds

(* A service that is not registered, a link before DoInit, an advertising  *)
(* request that is rejected, and a parameter update that is refused.       *)
FaultKinds == {"init", "early", "advertise", "update"}

linkVars == <<conns, fast, asked, slowdowns>>
workVars == <<queue, running, target>>
paramVars == <<sConn, sParamRetries, reasserted, last, otherEnded>>
vars == <<inited, linkVars, paramVars, workVars, paramTimer, advertising, faults>>

Items == {"request", "param", "readvertise"}

TypeOK ==
  /\ inited \in BOOLEAN /\ paramTimer \in BOOLEAN /\ advertising \in BOOLEAN
  /\ fast \subseteq conns /\ asked \subseteq conns /\ conns \subseteq Centrals
  /\ sConn \in conns \cup {NoConn}  \* never a link that is gone
  /\ last \in conns \cup {NoConn} /\ otherEnded \in BOOLEAN
  /\ target \in Centrals \cup {NoConn}
  /\ sParamRetries \in 0 .. MaxRetries
  /\ ToSet(queue) \subseteq Items
  /\ IsInjective(queue)  \* an item is queued once
  /\ running \in Items \cup {"update", "none"}
  /\ faults \subseteq FaultKinds

Init ==
  /\ inited = FALSE
  /\ conns = {} /\ fast = {} /\ asked = {}
  /\ sConn = NoConn /\ target = NoConn
  /\ last = NoConn /\ otherEnded = FALSE
  /\ sParamRetries = 0 /\ reasserted = 0
  /\ paramTimer = FALSE /\ queue = <<>> /\ running = "none"
  /\ advertising = FALSE /\ slowdowns = 0 /\ faults = {}

(* History: what the end of a link means for the last one.                 *)
Remember(c) ==
  /\ last' = IF c = last THEN NoConn ELSE last
  /\ otherEnded' = (c # last)

-----------------------------------------------------------------------------
(* Variants with a plausible slip, substituted by the project's mutants.   *)
DisconnectedUnlessLast(c) ==
  /\ c \in conns
  /\ conns' = conns \ {c}
  /\ fast' = fast \ {c}
  /\ asked' = asked \ {c}
  /\ sConn' = NoConn
  /\ queue' = IF inited /\ c = sConn /\ "readvertise" \notin ToSet(queue)
                THEN Append(queue, "readvertise") ELSE queue
  /\ Remember(c)
  /\ UNCHANGED <<inited, slowdowns, sParamRetries, reasserted, running, target,
                 paramTimer, advertising, faults>>
CountNothing == UNCHANGED sParamRetries
ForgetNothing == UNCHANGED sConn
NoReschedule == UNCHANGED paramTimer

-----------------------------------------------------------------------------
(* k_work_submit_to_queue: nothing for an item that is queued.             *)
SubmitTo(q, item) == IF inited /\ item \notin ToSet(q) THEN Append(q, item) ELSE q

Fault(kind) == faults' = faults \cup {kind}
NoFault == UNCHANGED faults

(* The arbiter takes the advertising request, or rejects it.               *)
InsertRequest == \/ advertising' = TRUE /\ NoFault
                 \/ advertising' = FALSE /\ Fault("advertise")

(* DoInit, 5 s after the plugin's initialisation.  Without its service     *)
(* there is neither a work queue nor advertising.                          *)
DoInit ==
  /\ ~inited /\ "init" \notin faults
  /\ \/ inited' = TRUE /\ InsertRequest
     \/ UNCHANGED <<inited, advertising>> /\ Fault("init")
  /\ UNCHANGED <<linkVars, paramVars, workVars, paramTimer>>

(* OnConnected, through the tunnel's advertising or through CHIP's.  The   *)
(* link comes up slow and a fast one is asked for.                         *)
Connected(c) ==
  /\ c \notin conns
  /\ conns' = conns \cup {c}
  /\ \/ asked' = asked \cup {c} /\ IF inited THEN NoFault ELSE Fault("early")
     \/ asked' = asked /\ Fault("update")
  /\ sConn' = c
  /\ sParamRetries' = 0
  /\ reasserted' = 0
  /\ last' = c /\ otherEnded' = FALSE
  /\ advertising' = FALSE \/ advertising' = advertising
  /\ UNCHANGED <<inited, fast, slowdowns, workVars, paramTimer>>

(* OnParamUpdated for the interval asked for.                              *)
FastGranted(c) ==
  /\ c \in asked
  /\ asked' = asked \ {c}
  /\ \/ fast' = fast \cup {c} /\ NoFault
     \/ fast' = fast /\ Fault("update")
  /\ UNCHANGED <<inited, conns, slowdowns, paramVars, workVars, paramTimer,
                 advertising>>

(* k_work_schedule_for_queue: nothing for an item scheduled or queued.     *)
Reschedule ==
  paramTimer' = (paramTimer \/ (inited /\ sParamRetries < MaxRetries
                                /\ "param" \notin ToSet(queue)))

(* OnParamUpdated for CHIP's slow interval.                                *)
ChipSlows(c) ==
  /\ c \in conns
  /\ slowdowns < MaxSlowdowns
  /\ slowdowns' = slowdowns + 1
  /\ fast' = fast \ {c}
  /\ Reschedule
  /\ UNCHANGED <<inited, conns, asked, paramVars, workVars, advertising,
                 faults>>

ForgetConn == sConn' = NoConn

(* OnDisconnected, for whichever link it was.                              *)
Disconnected(c) ==
  /\ c \in conns
  /\ conns' = conns \ {c}
  /\ fast' = fast \ {c}
  /\ asked' = asked \ {c}
  /\ ForgetConn
  /\ queue' = SubmitTo(queue, "readvertise")
  /\ Remember(c)
  /\ UNCHANGED <<inited, slowdowns, sParamRetries, reasserted, running, target,
                 paramTimer, advertising, faults>>

(* RxCallback.  TunnelThreads.tla has the request's own story.             *)
Receive ==
  /\ inited /\ conns # {}
  /\ queue' = SubmitTo(queue, "request")
  /\ UNCHANGED <<inited, linkVars, paramVars, running, target, paramTimer,
                 advertising, faults>>

ParamTimeout ==
  /\ paramTimer
  /\ paramTimer' = FALSE
  /\ queue' = SubmitTo(queue, "param")
  /\ UNCHANGED <<inited, linkVars, paramVars, running, target, advertising, faults>>

-----------------------------------------------------------------------------
(* The work queue's thread.                                                *)
Dequeue ==
  /\ running = "none" /\ queue # <<>>
  /\ running' = Head(queue)
  /\ queue' = Tail(queue)
  /\ UNCHANGED <<inited, linkVars, paramVars, target, paramTimer, advertising,
                 faults>>

RequestDone ==
  /\ running = "request"
  /\ running' = "none"
  /\ UNCHANGED <<inited, linkVars, paramVars, queue, target, paramTimer,
                 advertising, faults>>

Count == sParamRetries' = sParamRetries + 1

(* ParamWorkHandler reads sConn in its guard ...                           *)
ParamCheck ==
  /\ running = "param"
  /\ \/ /\ sConn = NoConn \/ sParamRetries >= MaxRetries
        /\ running' = "none"
        /\ UNCHANGED <<target, paramVars>>
     \/ /\ sConn # NoConn /\ sParamRetries < MaxRetries
        /\ Count
        /\ target' = sConn
        /\ running' = "update"
        /\ UNCHANGED <<sConn, reasserted, last, otherEnded>>
  /\ UNCHANGED <<inited, linkVars, queue, paramTimer, advertising, faults>>

(* ... and again for the update, or not, as the compiler likes.  The link  *)
(* may have gone in between; the update then fails.                        *)
ParamUpdate ==
  /\ running = "update"
  /\ running' = "none"
  /\ target' = NoConn
  /\ \/ \E c \in {target, sConn} : asked' = asked \cup ({c} \cap conns)
        /\ NoFault
     \/ asked' = asked /\ Fault("update")
  /\ reasserted' = reasserted + 1
  /\ UNCHANGED <<inited, conns, fast, slowdowns, sConn, sParamRetries, last,
                 otherEnded, queue, paramTimer, advertising>>

(* ReadvertiseHandler: cancel the request and insert it again.             *)
Readvertise ==
  /\ running = "readvertise"
  /\ running' = "none"
  /\ InsertRequest
  /\ UNCHANGED <<inited, linkVars, paramVars, queue, target, paramTimer>>

Handlers == RequestDone \/ ParamCheck \/ ParamUpdate \/ Readvertise

Next ==
  \/ DoInit \/ Receive \/ ParamTimeout \/ Dequeue \/ Handlers
  \/ \E c \in Centrals :
       Connected(c) \/ FastGranted(c) \/ ChipSlows(c) \/ Disconnected(c)

(* The initialisation is scheduled, timers expire, the work queue's thread *)
(* runs and the controller answers an update; nothing else has to happen.  *)
Fairness ==
  /\ WF_vars(DoInit) /\ WF_vars(ParamTimeout)
  /\ WF_vars(Dequeue) /\ WF_vars(Handlers)
  /\ \A c \in Centrals : WF_vars(FastGranted(c))

Spec == Init /\ [][Next]_vars /\ Fairness

-----------------------------------------------------------------------------
(* A link never meets a renegotiation loop: every re-assertion that        *)
(* follows a connection is one of its three retries, or was under way when *)
(* the link came up (tunnel_ble.cpp:187-191).                              *)
ReassertionsBounded ==
  reasserted <= sParamRetries + 1 /\ sParamRetries <= MaxRetries

(* No lost wake-up: at any moment a device without a link advertises or    *)
(* has the item that will make it, unless the arbiter has rejected a       *)
(* request (tunnel_ble.cpp:134-138, 213-218).                              *)
AdvertisingPending ==
  inited /\ conns = {} => \/ advertising \/ "advertise" \in faults
                          \/ "readvertise" \in ToSet(queue) \cup {running}

(* The same for the link of the last OnConnected: as long as it is slow,   *)
(* an update is asked for, on its way or scheduled, until its retries are  *)
(* used up, whatever was running when CHIP slowed it down                  *)
(* (tunnel_ble.cpp:187-211).  It is not so once another link has ended,    *)
(* see LastIsReasserted.                                                   *)
ReassertionPending ==
  inited /\ last # NoConn /\ ~otherEnded /\ last \notin fast =>
    \/ last \in asked \/ paramTimer
    \/ "param" \in ToSet(queue) \cup {running}
    \/ running = "update" /\ target = last
    \/ sParamRetries = MaxRetries
    \/ {"early", "update"} \cap faults # {}

(* Once the carrier is up, a device without a link advertises or will,     *)
(* unless the arbiter has rejected a request (tunnel_ble.cpp:134-138).     *)
AdvertisesAgain ==
  inited /\ conns = {} ~> advertising \/ conns # {} \/ "advertise" \in faults

(* A link c that CHIP slowed down is asked to be fast again, as long as    *)
(* its retries last and no update is refused.                              *)
Reasserted(c) ==
  c \in fast \/ c \notin conns \/ sParamRetries = MaxRetries
             \/ {"early", "update"} \cap faults # {}

(* The link of the last OnConnected is made fast again, unless another     *)
(* link ends first: OnDisconnected forgets sConn whichever link it is for  *)
(* (tunnel_ble.cpp:213-215), and the last link, which is still up, may     *)
(* then stay slow for good, although lines 186-191 re-assert the interval  *)
(* without such a condition.                                               *)
LastIsReasserted ==
  \A c \in Centrals :
    inited /\ c = last /\ c \notin fast
      ~> Reasserted(c) \/ c # last \/ otherEnded
=============================================================================
