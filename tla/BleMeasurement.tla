--------------------------- MODULE BleMeasurement ---------------------------
(***************************************************************************)
(* The BLE measurement (src/measure/harness_ble.py): one coroutine that    *)
(* writes a request, waits for a notification or a timeout, and books the  *)
(* outcome; a callback that queues notifications beside it; and the device *)
(* with its receive buffer and work item, as slow as it likes.             *)
(*                                                                         *)
(* Exchange 0 warms up, then unsigned and signed ones alternate.  A step   *)
(* of the coroutine is what it does between two awaits.  ProcessRequest is *)
(* one step here; TunnelThreads.tla has what may happen inside it.         *)
(*                                                                         *)
(* Another central may hold the second link.  It can send echoes, and the  *)
(* script hears their answers, as the device notifies every subscriber.    *)
(***************************************************************************)
EXTENDS Integers, Sequences, SequencesExt

CONSTANTS Samples,       \* --samples, per condition
          CounterStart,  \* --counter-start, above the floor left on the device
          MaxOthers      \* bound on the requests of the other central

ASSUME MeasurementAssumption ==
  Samples \in Nat /\ CounterStart \in Nat \ {0} /\ MaxOthers \in Nat

VARIABLES n,        \* the exchange the script is at
          step,     \* "ready" to write, "waiting" for an answer, or "done"
          counter,  \* of the next signed request
          q,        \* Link.q: what the callback has queued
          rows,     \* the rows of the CSV, with the answer each is made of
          timedOut, \* history: the exchanges that ended in a timeout
          others,   \* history: how many requests the other central sent
          air,      \* writes under way
          back,     \* notifications under way
          sRxBuf, queued, taken,  \* the device's buffer and work item
          mFloor    \* the device's replay floor

script == <<n, step, counter, rows, timedOut>>
device == <<sRxBuf, queued, taken, mFloor>>
vars == <<script, q, others, air, back, device>>

LastExchange == 2 * Samples
IsSigned(e) == e > 0 /\ e % 2 = 0

Other == -2  \* stands for the exchange of a request of the other central
Of == 0 .. LastExchange \cup {Other}
Request == [of : Of, counter : 0 .. CounterStart + Samples]
NoRequest == [of |-> -1, counter |-> 0]
AnswerTypes == {"echo", "response", "authReject", "replayReject"}
Answer == [of : Of, type : AnswerTypes]
Arrived == [of : Of, type : AnswerTypes, at : 0 .. LastExchange + 1]

TypeOK ==
  /\ n \in 0 .. LastExchange + 1
  /\ step \in {"ready", "waiting", "done"}
  /\ counter \in CounterStart .. CounterStart + Samples
  /\ ToSet(q) \subseteq Arrived /\ ToSet(back) \subseteq Answer
  /\ rows \subseteq [exchange : 1 .. LastExchange, answer : Arrived]
  /\ timedOut \subseteq 0 .. LastExchange /\ others \in 0 .. MaxOthers
  /\ ToSet(air) \subseteq Request /\ sRxBuf \in Request \cup {NoRequest}
  /\ queued \in BOOLEAN /\ taken \in BOOLEAN
  /\ mFloor \in 0 .. CounterStart + Samples

Init ==
  /\ n = 0 /\ step = "ready" /\ counter = CounterStart
  /\ q = <<>> /\ air = <<>> /\ back = <<>>
  /\ rows = {} /\ timedOut = {} /\ others = 0
  /\ sRxBuf = NoRequest /\ queued = FALSE /\ taken = FALSE
  /\ mFloor \in 0 .. CounterStart - 1

-----------------------------------------------------------------------------
(* Variants with a plausible slip, substituted by the project's mutants.   *)
DrainNothing == q
NextCounterIfBooked(booked) == IF booked THEN counter + 1 ELSE counter
ProceedCountsEveryExchange(booked) ==
  n' = n + 1 /\ step' = "ready" /\ counter' = counter + 1
WriteWarmUpUnawaited ==
  /\ step = "ready" /\ n <= LastExchange
  /\ q' = <<>>
  /\ air' = Append(air, [of |-> n, counter |-> IF IsSigned(n) THEN counter ELSE 0])
  /\ step' = IF n = 0 THEN "ready" ELSE "waiting"
  /\ n' = IF n = 0 THEN 1 ELSE n
  /\ UNCHANGED <<others, counter, rows, timedOut, back, device>>
NoTimeout == FALSE

-----------------------------------------------------------------------------
(* exchange() empties the queue, takes t0 and writes, without an await     *)
(* before the write; so its number stands for t0.                          *)
ToWrite == [of |-> n, counter |-> IF IsSigned(n) THEN counter ELSE 0]
Drained == <<>>

Write ==
  /\ step = "ready" /\ n <= LastExchange
  /\ q' = Drained
  /\ air' = Append(air, ToWrite)
  /\ step' = "waiting"
  /\ UNCHANGED <<others, n, counter, rows, timedOut, back, device>>

(* The link is gone: the write raises, and the script closes its file.     *)
WriteRaises ==
  /\ step = "ready" /\ n <= LastExchange
  /\ step' = "done"
  /\ q' = Drained
  /\ UNCHANGED <<others, n, counter, rows, timedOut, air, back, device>>

(* The next counter of a signed exchange, however the exchange ended.      *)
NextCounter(booked) == counter + 1

(* The loop goes on to the next exchange.                                  *)
Proceed(booked) ==
  /\ n' = n + 1
  /\ step' = "ready"
  /\ counter' = IF IsSigned(n) THEN NextCounter(booked) ELSE counter

(* A warm-up is not booked, an unsigned sample has any answer, a signed    *)
(* one a signed response; the rest are errors.                             *)
Booked(a) == n > 0 /\ (IsSigned(n) => a.type = "response")

Answered ==
  /\ step = "waiting" /\ q # <<>>
  /\ rows' = IF Booked(Head(q))
               THEN rows \cup {[exchange |-> n, answer |-> Head(q)]} ELSE rows
  /\ Proceed(Booked(Head(q)))
  /\ q' = Tail(q)
  /\ UNCHANGED <<others, timedOut, air, back, device>>

(* wait_for gives up, perhaps on an answer that is about to come.          *)
TimedOut ==
  /\ step = "waiting"
  /\ timedOut' = timedOut \cup {n}
  /\ Proceed(FALSE)
  /\ UNCHANGED <<others, rows, q, air, back, device>>

Finish ==
  /\ step = "ready" /\ n > LastExchange
  /\ step' = "done"
  /\ UNCHANGED <<others, n, counter, rows, timedOut, q, air, back, device>>

(* The callback of start_notify runs in any await of the script.           *)
Notify ==
  /\ back # <<>>
  /\ back' = Tail(back)
  /\ q' = Append(q, [of |-> Head(back).of, type |-> Head(back).type,
                     at |-> n + IF step = "waiting" THEN 1 ELSE 0])
  /\ UNCHANGED <<others, script, air, device>>

(* The other central writes.  Two links make no order; one queue will do.  *)
OtherWrites ==
  /\ others < MaxOthers
  /\ others' = others + 1
  /\ air' = Append(air, [of |-> Other, counter |-> 0])
  /\ UNCHANGED <<script, q, back, device>>

-----------------------------------------------------------------------------
(* RxCallback: the buffer is overwritten, the work item submitted.         *)
Arrive ==
  /\ air # <<>>
  /\ air' = Tail(air)
  /\ sRxBuf' = Head(air)
  /\ queued' = TRUE
  /\ UNCHANGED <<others, script, q, back, taken, mFloor>>

(* The work queue takes the item; a write may yet change the buffer.       *)
Dequeue ==
  /\ queued /\ ~taken
  /\ queued' = FALSE /\ taken' = TRUE
  /\ UNCHANGED <<others, script, q, air, back, sRxBuf, mFloor>>

Reply(type) == back' = Append(back, [of |-> sRxBuf.of, type |-> type])

(* ProcessWork.  A request that fails, or whose notification does, has no  *)
(* answer.                                                                 *)
ProcessWork ==
  /\ taken
  /\ taken' = FALSE
  /\ \/ ~IsSigned(sRxBuf.of) /\ Reply("echo") /\ UNCHANGED mFloor
     \/ /\ IsSigned(sRxBuf.of) /\ sRxBuf.counter <= mFloor
        /\ Reply("replayReject") /\ UNCHANGED mFloor
     \/ /\ IsSigned(sRxBuf.of) /\ sRxBuf.counter > mFloor
        /\ mFloor' = sRxBuf.counter
        /\ Reply("response") \/ UNCHANGED back
     \/ IsSigned(sRxBuf.of) /\ Reply("authReject") /\ UNCHANGED mFloor
     \/ UNCHANGED <<back, mFloor>>
  /\ UNCHANGED <<others, script, q, air, sRxBuf, queued>>

Script == Write \/ WriteRaises \/ Answered \/ TimedOut \/ Finish

Next == Script \/ OtherWrites \/ Notify \/ Arrive \/ Dequeue \/ ProcessWork

(* The event loop runs the coroutine, and its timers expire; the device    *)
(* and the link owe nothing.                                               *)
Spec == Init /\ [][Next]_vars /\ WF_vars(Script)

-----------------------------------------------------------------------------
(* Whatever was lost or answered late before, a signed request is sent     *)
(* with a counter above the device's floor and above every counter still   *)
(* under way (harness_ble.py:25-27): a lost answer spends its counter.     *)
FreshCounterSent ==
  step = "ready" /\ n <= LastExchange /\ IsSigned(n) =>
    /\ counter > mFloor
    /\ \A m \in ToSet(air) \cup {sRxBuf} : counter > m.counter

(* No sample is made of a notification that was there before its request   *)
(* was written: no round trip is negative (harness_ble.py:103-112).        *)
RttIsNotNegative == \A r \in rows : r.answer.at > r.exchange

(* Until an exchange has timed out or another central is about, every      *)
(* sample is the answer to its own request; after that it may be the one   *)
(* to an earlier request (harness_ble.py:19-22), but to none written       *)
(* before the first timeout.  A signed sample is always made of a response *)
(* to this script, although the device tells every subscriber of each.     *)
LateOnlyAfterTimeout ==
  \A r \in rows :
    \/ r.answer.of = r.exchange
    \/ /\ r.answer.of < r.exchange /\ r.answer.of # Other
       /\ others > 0 \/ \E e \in timedOut : e <= r.answer.of
    \/ r.answer.of = Other /\ others > 0 /\ ~IsSigned(r.exchange)

(* No step of the coroutine repeats what was done: each brings it nearer   *)
(* to the end of the loop, and nothing but the coroutine changes how far   *)
(* it is, whatever the device and the link do (harness_ble.py:151-182).    *)
Remaining ==
  CASE step = "done" -> 0
    [] step = "waiting" -> 2 * (LastExchange + 1 - n) + 1
    [] OTHER -> 2 * (LastExchange + 1 - n) + 2

NearsItsEnd ==
  [][\/ Script /\ Remaining' \in Nat /\ Remaining' < Remaining
     \/ ~Script /\ UNCHANGED script]_vars

(* The measurement ends, whatever the device and the link leave            *)
(* unanswered.                                                             *)
Ends == <>(step = "done")
=============================================================================
