------------------------ MODULE BleMeasurementProofs ------------------------
(***************************************************************************)
(* Proofs about BleMeasurement, for any number of samples, any start       *)
(* counter above the floor and any number of foreign requests.             *)
(***************************************************************************)
EXTENDS BleMeasurement, TLAPS

(* The script is within its exchanges, and has spent a counter for every   *)
(* signed one before the one it is at.  The device works on a request.     *)
ScriptInv ==
  /\ queued \/ taken => sRxBuf \in Request
  /\ step = "waiting" => n <= LastExchange
  /\ 2 * (counter - CounterStart) <= IF n = 0 THEN 0 ELSE n - 1
  /\ \A e \in timedOut : e < n

SeqInv == air \in Seq(Request) /\ back \in Seq(Answer) /\ q \in Seq(Arrived)

(* The highest counter sent so far, 0 included.                            *)
Spent == IF step = "waiting" /\ IsSigned(n) THEN counter ELSE counter - 1

CounterInv ==
  /\ mFloor <= Spent
  /\ sRxBuf.counter <= Spent
  /\ \A m \in ToSet(air) : m.counter <= Spent

(* What is in the queue while the script waits came after its write.       *)
RttInv ==
  /\ step = "waiting" => \A a \in ToSet(q) : a.at > n
  /\ RttIsNotNegative

(* How many requests, and answers to them, are under way.                  *)
One(b) == IF b THEN 1 ELSE 0
UnderWay == Len(air) + Len(back) + Len(q) + (One(queued) + One(taken))

(* What one that is under way may belong to: an exchange not after this    *)
(* one, at or after the first one that timed out, or another central.      *)
(* Without either it belongs to this exchange.                             *)
MayBe(e, now, foreign, late) ==
  /\ e = Other => foreign > 0
  /\ e # Other => e \in 0 .. now
  /\ foreign = 0 /\ late # {} => \E d \in late : d <= e
  /\ foreign = 0 /\ late = {} => e = now

(* A response answers a signed request, and no other central has sent one. *)
IsOwn(a) == a.type = "response" => a.of # Other

LateInv ==
  /\ others = 0 /\ timedOut = {} => UnderWay <= IF step = "waiting" THEN 1 ELSE 0
  /\ \A m \in ToSet(air) : MayBe(m.of, n, others, timedOut)
  /\ queued \/ taken => MayBe(sRxBuf.of, n, others, timedOut)
  /\ \A a \in ToSet(back) : MayBe(a.of, n, others, timedOut) /\ IsOwn(a)
  /\ \A a \in ToSet(q) : MayBe(a.of, n, others, timedOut) /\ IsOwn(a)

TypeInv == TypeOK /\ SeqInv /\ ScriptInv

-----------------------------------------------------------------------------
LEMMA EmptySet == ToSet(<<>>) = {} /\ Len(<<>>) = 0
BY DEF ToSet

LEMMA AppendSet ==
  ASSUME NEW S, NEW s \in Seq(S), NEW e \in S
  PROVE  /\ Append(s, e) \in Seq(S)
         /\ Len(Append(s, e)) = Len(s) + 1
         /\ ToSet(Append(s, e)) = ToSet(s) \cup {e}
<1>1. /\ Append(s, e) \in Seq(S)
      /\ Len(Append(s, e)) = Len(s) + 1
      /\ Append(s, e)[Len(s) + 1] = e
      /\ \A i \in 1 .. Len(s) : Append(s, e)[i] = s[i]
  OBVIOUS
<1>2. DOMAIN s = 1 .. Len(s) /\ DOMAIN Append(s, e) = 1 .. (Len(s) + 1)
  BY <1>1
<1> QED BY <1>1, <1>2 DEF ToSet

LEMMA TailSet ==
  ASSUME NEW S, NEW s \in Seq(S), s # <<>>
  PROVE  /\ Head(s) \in S /\ Head(s) \in ToSet(s)
         /\ Tail(s) \in Seq(S)
         /\ Len(s) \in Nat /\ Len(Tail(s)) = Len(s) - 1
         /\ \A e \in ToSet(Tail(s)) : e \in ToSet(s)
<1>1. /\ Head(s) = s[1] /\ Head(s) \in S
      /\ Tail(s) \in Seq(S)
      /\ Len(s) \in Nat \ {0} /\ Len(Tail(s)) = Len(s) - 1
      /\ \A i \in 1 .. Len(Tail(s)) : Tail(s)[i] = s[i + 1]
  OBVIOUS
<1>2. DOMAIN s = 1 .. Len(s) /\ DOMAIN Tail(s) = 1 .. (Len(s) - 1)
  BY <1>1
<1> QED BY <1>1, <1>2 DEF ToSet

LEMMA SeqSet == ASSUME NEW S, NEW s \in Seq(S) PROVE ToSet(s) \subseteq S
BY DEF ToSet

LEMMA MessageTypes ==
  /\ \A e \in Of, c \in 0 .. CounterStart + Samples :
       [of |-> e, counter |-> c] \in Request
  /\ \A e \in Of, t \in AnswerTypes : [of |-> e, type |-> t] \in Answer
  /\ \A e \in Of, t \in AnswerTypes, k \in 0 .. LastExchange + 1 :
       [of |-> e, type |-> t, at |-> k] \in Arrived
  /\ NoRequest.of = -1 /\ NoRequest.counter = 0
  /\ Other \in Of /\ ~IsSigned(Other)
BY DEF Request, Answer, Arrived, NoRequest, Of, Other, IsSigned

LEMMA Numbers ==
  /\ Samples \in Nat /\ LastExchange \in Nat /\ LastExchange = 2 * Samples
  /\ CounterStart \in Nat /\ CounterStart >= 1 /\ MaxOthers \in Nat
BY MeasurementAssumption DEF LastExchange

LEMMA NextNumbers ==
  ASSUME NEW e \in 0 .. LastExchange,
         NEW k \in CounterStart .. CounterStart + Samples,
         2 * (k - CounterStart) <= IF e = 0 THEN 0 ELSE e - 1
  PROVE  /\ (IF IsSigned(e) THEN k + 1 ELSE k)
               \in CounterStart .. CounterStart + Samples
         /\ 2 * ((IF IsSigned(e) THEN k + 1 ELSE k) - CounterStart) <= e
<1>1. CASE IsSigned(e)
  <2>1. e > 0 /\ e % 2 = 0 /\ e \in Int
    BY <1>1, Numbers DEF IsSigned
  <2>2. 2 * (k + 1 - CounterStart) <= e
    BY <2>1, Numbers
  <2> QED BY <1>1, <2>2, Numbers
<1>2. CASE ~IsSigned(e)
  BY <1>2, Numbers
<1> QED BY <1>1, <1>2

LEMMA NextInRange ==
  \A e \in 0 .. LastExchange : e + 1 \in 0 .. LastExchange + 1
BY Numbers

LEMMA NextExchange ==
  ASSUME NEW e \in 0 .. LastExchange, NEW f, f = e + 1,
         NEW T \in SUBSET (0 .. LastExchange), \A d \in T : d < e
  PROVE  /\ f # 0 /\ f - 1 = e
         /\ \A d \in T \cup {e} : d < f
BY Numbers

LEMMA RowType ==
  \A e \in 0 .. LastExchange, a \in Arrived :
    e # 0 => [exchange |-> e, answer |-> a]
               \in [exchange : 1 .. LastExchange, answer : Arrived]
BY Numbers

LEMMA MarkedType ==
  ASSUME NEW a \in Answer, NEW k \in 0 .. LastExchange + 1
  PROVE  [of |-> a.of, type |-> a.type, at |-> k] \in Arrived
BY DEF Answer, Arrived

LEMMA InitHolds == Init => TypeInv /\ CounterInv /\ RttInv /\ LateInv
<1> SUFFICES ASSUME Init PROVE TypeInv /\ CounterInv /\ RttInv /\ LateInv
  OBVIOUS
<1> USE EmptySet, Numbers, MessageTypes DEF Init
<1>1. ScriptInv /\ SeqInv
  BY DEF ScriptInv, SeqInv
<1>2. TypeOK
  <2>1. /\ n \in 0 .. LastExchange + 1 /\ counter \in CounterStart .. CounterStart + Samples
        /\ timedOut \subseteq 0 .. LastExchange /\ others \in 0 .. MaxOthers
        /\ mFloor \in 0 .. CounterStart + Samples
    OBVIOUS
  <2> QED BY <2>1 DEF TypeOK
<1>3. CounterInv /\ RttInv
  BY DEF CounterInv, Spent, RttInv, RttIsNotNegative
<1>4. LateInv
  BY DEF LateInv, UnderWay, One
<1> QED BY <1>1, <1>2, <1>3, <1>4 DEF TypeInv

-----------------------------------------------------------------------------
(* The sequences hold what may be put on them, and ScriptInv bounds the    *)
(* counter by the number of exchanges.                                     *)
LEMMA TypeStep ==
  ASSUME TypeInv, [Next]_vars
  PROVE  TypeInv'
<1>a. /\ air \in Seq(Request) /\ back \in Seq(Answer) /\ q \in Seq(Arrived)
      /\ queued \/ taken => sRxBuf \in Request
      /\ timedOut \in SUBSET (0 .. LastExchange) /\ \A e \in timedOut : e < n
      /\ n \in 0 .. LastExchange + 1
      /\ step = "waiting" => n \in 0 .. LastExchange
  BY Numbers DEF TypeInv, TypeOK, SeqInv, ScriptInv
<1> USE Numbers, MessageTypes DEF TypeInv, TypeOK, SeqInv, ScriptInv, script, device
<1>1. CASE Write
  <2>1. ToWrite \in Request
    BY <1>1 DEF Write, ToWrite, Of, IsSigned
  <2>2. air' \in Seq(Request) /\ ToSet(air') = ToSet(air) \cup {ToWrite}
    BY <1>1, <1>a, <2>1, AppendSet DEF Write
  <2>3. q' \in Seq(Arrived) /\ ToSet(q') = {}
    BY <1>1, EmptySet DEF Write, Drained
  <2>4. ToSet(air') \subseteq Request
    BY <2>2, SeqSet
  <2>5. SeqInv'
    BY <1>1, <2>2, <2>3 DEF Write
  <2>6. ScriptInv'
    BY <1>1 DEF Write
  <2>7. TypeOK'
    BY <1>1, <2>3, <2>4 DEF Write
  <2> QED BY <2>5, <2>6, <2>7
<1>2. CASE WriteRaises
  BY <1>2, EmptySet DEF WriteRaises, Drained
<1>3. CASE Answered
  <2>1. Head(q) \in Arrived /\ q' \in Seq(Arrived) /\ ToSet(q') \subseteq Arrived
    BY <1>3, TailSet, SeqSet DEF Answered
  <2>2. /\ n' = n + 1 /\ step' = "ready" /\ n \in 0 .. LastExchange
        /\ counter' \in CounterStart .. CounterStart + Samples
        /\ 2 * (counter' - CounterStart) <= n
    <3>1. /\ n' = n + 1 /\ step' = "ready" /\ n \in 0 .. LastExchange
          /\ counter' = IF IsSigned(n) THEN counter + 1 ELSE counter
      BY <1>3 DEF Answered, Proceed, NextCounter
    <3> QED BY <3>1, NextNumbers
  <2>3. ScriptInv'
    <3>1. n' # 0 /\ n' - 1 = n /\ \A e \in timedOut : e < n'
      <4> HIDE DEF TypeInv, TypeOK, SeqInv, ScriptInv
      <4> QED BY <1>a, <2>2, NextExchange
    <3>2. (queued \/ taken => sRxBuf \in Request)'
      BY <1>3 DEF Answered
    <3> QED BY <1>3, <2>2, <3>1, <3>2 DEF Answered
  <2>4. rows' \subseteq [exchange : 1 .. LastExchange, answer : Arrived]
    <3>1. rows' \subseteq rows \cup {[exchange |-> n, answer |-> Head(q)]}
          /\ (n = 0 => rows' = rows)
      BY <1>3, <2>2 DEF Answered, Booked
    <3>2. n # 0 => [exchange |-> n, answer |-> Head(q)]
                     \in [exchange : 1 .. LastExchange, answer : Arrived]
      <4> HIDE DEF TypeInv, TypeOK, SeqInv, ScriptInv
      <4> QED BY <2>1, <2>2, RowType
    <3> QED BY <3>1, <3>2
  <2>5. n' \in 0 .. LastExchange + 1
    BY <2>2, NextInRange
  <2> QED BY <1>3, <2>1, <2>2, <2>3, <2>4, <2>5 DEF Answered
<1>4. CASE TimedOut
  <2>1. /\ n' = n + 1 /\ step' = "ready" /\ n \in 0 .. LastExchange
        /\ counter' \in CounterStart .. CounterStart + Samples
        /\ 2 * (counter' - CounterStart) <= n
    <3>1. /\ n' = n + 1 /\ step' = "ready" /\ n \in 0 .. LastExchange
          /\ counter' = IF IsSigned(n) THEN counter + 1 ELSE counter
      BY <1>4 DEF TimedOut, Proceed, NextCounter
    <3> QED BY <3>1, NextNumbers
  <2>2. ScriptInv'
    <3>1. n' # 0 /\ n' - 1 = n /\ \A e \in timedOut \cup {n} : e < n'
      <4>1. n \in 0 .. LastExchange /\ n' = n + 1
        BY <2>1
      <4> HIDE DEF TypeInv, TypeOK, SeqInv, ScriptInv
      <4> QED BY <1>a, <4>1, NextExchange
    <3>2. (queued \/ taken => sRxBuf \in Request)'
      BY <1>4 DEF TimedOut
    <3>3. timedOut' = timedOut \cup {n}
      BY <1>4 DEF TimedOut
    <3> QED BY <2>1, <3>1, <3>2, <3>3
  <2>3. n' \in 0 .. LastExchange + 1
    BY <2>1, NextInRange
  <2> QED BY <1>4, <2>1, <2>2, <2>3 DEF TimedOut
<1>5. CASE Finish
  BY <1>5 DEF Finish
<1>6. CASE OtherWrites
  <2>1. [of |-> Other, counter |-> 0] \in Request
    <3>1. 0 \in 0 .. CounterStart + Samples
      OBVIOUS
    <3> QED BY <3>1
  <2>2. air' \in Seq(Request) /\ ToSet(air') \subseteq Request
    BY <1>6, <2>1, AppendSet, SeqSet DEF OtherWrites
  <2> QED BY <1>6, <2>2 DEF OtherWrites
<1>7. CASE Notify
  <2> DEFINE a == [of |-> Head(back).of, type |-> Head(back).type,
                   at |-> n + IF step = "waiting" THEN 1 ELSE 0]
  <2>1. Head(back) \in Answer /\ back' \in Seq(Answer) /\ ToSet(back') \subseteq Answer
    BY <1>7, TailSet, SeqSet DEF Notify
  <2>2. a \in Arrived
    <3> HIDE DEF TypeInv, TypeOK, SeqInv, ScriptInv
    <3>1. n + (IF step = "waiting" THEN 1 ELSE 0) \in 0 .. LastExchange + 1
      <4>1. CASE step = "waiting"
        BY <1>a, <4>1, NextInRange
      <4>2. CASE step # "waiting"
        <5>1. n + 0 = n
          BY <1>a
        <5> QED BY <1>a, <4>2, <5>1
      <4> QED BY <4>1, <4>2
    <3> QED BY <2>1, <3>1, MarkedType
  <2>3. q' \in Seq(Arrived) /\ ToSet(q') \subseteq Arrived
    BY <1>7, <1>a, <2>2, AppendSet, SeqSet DEF Notify
  <2> QED BY <1>7, <2>1, <2>3 DEF Notify
<1>8. CASE Arrive
  <2>1. Head(air) \in Request /\ air' \in Seq(Request) /\ ToSet(air') \subseteq Request
    BY <1>8, TailSet, SeqSet DEF Arrive
  <2> QED BY <1>8, <2>1 DEF Arrive
<1>9. CASE Dequeue
  BY <1>9 DEF Dequeue
<1>10. CASE ProcessWork
  <2>1. ASSUME NEW t \in AnswerTypes, Reply(t), sRxBuf \in Request
        PROVE  back' \in Seq(Answer) /\ ToSet(back') \subseteq Answer
    <3>1. [of |-> sRxBuf.of, type |-> t] \in Answer
      BY <2>1 DEF Request
    <3> HIDE DEF TypeInv, TypeOK, SeqInv, ScriptInv
    <3> QED BY <1>a, <2>1, <3>1, AppendSet, SeqSet DEF Reply
  <2> QED BY <1>10, <2>1 DEF ProcessWork, Request, AnswerTypes
<1>11. CASE UNCHANGED vars
  BY <1>11 DEF vars
<1> QED
  BY <1>1, <1>2, <1>3, <1>4, <1>5, <1>6, <1>7, <1>8, <1>9, <1>10, <1>11
  DEF Next, Script

-----------------------------------------------------------------------------
(* Only a write of a signed request spends a counter, the one after all    *)
(* that were spent before.                                                 *)
LEMMA SpentGrows ==
  ASSUME TypeInv, [Next]_vars
  PROVE  Spent \in Int /\ Spent' \in Int /\ Spent >= 0 /\ Spent <= Spent'
<1> USE Numbers
<1>1. counter \in Int /\ counter >= 1 /\ n \in Int
  BY DEF TypeInv, TypeOK
<1>2. CASE Write
  BY <1>1, <1>2 DEF Write, Spent
<1>3. CASE Answered \/ TimedOut
  BY <1>1, <1>3 DEF Answered, TimedOut, Proceed, NextCounter, Spent
<1>4. CASE WriteRaises \/ Finish
  BY <1>1, <1>4 DEF WriteRaises, Finish, Spent
<1>5. CASE OtherWrites \/ Notify \/ Arrive \/ Dequeue \/ ProcessWork \/ UNCHANGED vars
  BY <1>1, <1>5
  DEF OtherWrites, Notify, Arrive, Dequeue, ProcessWork, vars, script, Spent
<1> QED BY <1>2, <1>3, <1>4, <1>5 DEF Next, Script

LEMMA CounterStep ==
  ASSUME TypeInv, CounterInv, [Next]_vars
  PROVE  CounterInv'
<1>1. /\ Spent \in Int /\ Spent' \in Int /\ Spent >= 0 /\ Spent <= Spent'
  BY SpentGrows
<1>2. /\ mFloor \in Int /\ sRxBuf.counter \in Int
      /\ air \in Seq(Request) /\ \A m \in Request : m.counter \in Int
  BY Numbers, MessageTypes DEF TypeInv, TypeOK, SeqInv, Request
<1>3. ToSet(air) \subseteq Request
  BY <1>2, SeqSet
<1>4. /\ mFloor <= Spent' /\ sRxBuf.counter <= Spent'
      /\ \A m \in ToSet(air) : m.counter <= Spent'
  BY <1>1, <1>2, <1>3 DEF CounterInv
<1>5. CASE Write
  <2>1. ToWrite \in Request /\ ToWrite.counter <= Spent'
    BY <1>1, <1>5, Numbers, MessageTypes
    DEF Write, ToWrite, Spent, TypeInv, TypeOK, Of
  <2>2. ToSet(air') = ToSet(air) \cup {ToWrite}
    BY <1>2, <1>5, <2>1, AppendSet DEF Write
  <2> QED BY <1>4, <1>5, <2>1, <2>2 DEF Write, device, CounterInv
<1>6. CASE OtherWrites
  <2> DEFINE r == [of |-> Other, counter |-> 0]
  <2>1. r \in Request /\ r.counter <= Spent'
    BY <1>1, Numbers, MessageTypes
  <2>2. ToSet(air') = ToSet(air) \cup {r}
    BY <1>2, <1>6, <2>1, AppendSet DEF OtherWrites
  <2> QED BY <1>4, <1>6, <2>1, <2>2 DEF OtherWrites, device, CounterInv
<1>7. CASE Arrive
  <2>1. Head(air) \in ToSet(air) /\ \A m \in ToSet(air') : m \in ToSet(air)
    BY <1>2, <1>7, TailSet DEF Arrive
  <2> QED BY <1>4, <1>7, <2>1 DEF Arrive, CounterInv
<1>8. CASE ProcessWork
  BY <1>4, <1>8 DEF ProcessWork, CounterInv
<1>9. CASE (Script /\ ~Write) \/ Notify \/ Dequeue \/ UNCHANGED vars
  <2>1. UNCHANGED <<air, sRxBuf, mFloor>>
    BY <1>9 DEF Script, WriteRaises, Answered, TimedOut, Finish, Notify, Dequeue,
                vars, device
  <2> QED BY <1>4, <2>1 DEF CounterInv
<1> QED BY <1>5, <1>6, <1>7, <1>8, <1>9 DEF Next

-----------------------------------------------------------------------------
(* A notification gets its mark when the callback queues it, and the write *)
(* empties the queue.                                                      *)
LEMMA RttStep ==
  ASSUME TypeInv, RttInv, [Next]_vars
  PROVE  RttInv'
<1>1. n \in Int /\ q \in Seq(Arrived) /\ back \in Seq(Answer)
  BY Numbers DEF TypeInv, TypeOK, SeqInv
<1>2. CASE Write
  <2>1. ToSet(q') = {} /\ rows' = rows
    BY <1>2, EmptySet DEF Write, Drained
  <2> QED BY <2>1 DEF RttInv, RttIsNotNegative
<1>3. CASE Answered
  <2>1. Head(q) \in ToSet(q)
    BY <1>1, <1>3, TailSet DEF Answered
  <2>2. Head(q).at > n
    BY <1>3, <2>1 DEF Answered, RttInv
  <2>3. /\ rows' \subseteq rows \cup {[exchange |-> n, answer |-> Head(q)]}
        /\ step' = "ready"
    BY <1>3 DEF Answered, Proceed
  <2> QED BY <2>2, <2>3 DEF RttInv, RttIsNotNegative
<1>4. CASE Notify
  <2> DEFINE a == [of |-> Head(back).of, type |-> Head(back).type,
                   at |-> n + IF step = "waiting" THEN 1 ELSE 0]
  <2>1. Head(back) \in Answer
    BY <1>1, <1>4, TailSet DEF Notify
  <2>2. a \in Arrived
    BY <2>1, Numbers, MessageTypes DEF Answer, TypeInv, TypeOK, ScriptInv
  <2>3. ToSet(q') = ToSet(q) \cup {a}
    BY <1>1, <1>4, <2>2, AppendSet DEF Notify
  <2>4. step = "waiting" => a.at > n
    BY <1>1
  <2> QED BY <1>4, <2>3, <2>4 DEF Notify, script, RttInv, RttIsNotNegative
<1>5. CASE WriteRaises \/ TimedOut \/ Finish
  BY <1>5 DEF WriteRaises, TimedOut, Finish, Proceed, RttInv, RttIsNotNegative
<1>6. CASE OtherWrites \/ Arrive \/ Dequeue \/ ProcessWork \/ UNCHANGED vars
  <2>1. UNCHANGED <<n, step, rows, q>>
    BY <1>6 DEF OtherWrites, Arrive, Dequeue, ProcessWork, vars, script
  <2> QED BY <2>1 DEF RttInv, RttIsNotNegative
<1> QED BY <1>2, <1>3, <1>4, <1>5, <1>6 DEF Next, Script

-----------------------------------------------------------------------------
LEMMA Counts ==
  ASSUME TypeInv
  PROVE  /\ Len(air) \in Nat /\ Len(back) \in Nat /\ Len(q) \in Nat
         /\ One(queued) \in 0 .. 1 /\ One(taken) \in 0 .. 1
         /\ ToSet(air) \subseteq Request /\ ToSet(back) \subseteq Answer
         /\ ToSet(q) \subseteq Arrived
BY SeqSet DEF TypeInv, SeqInv, One

(* As long as nothing has timed out and no other central is about, an      *)
(* answer taken from the queue was the only thing under way.               *)
LEMMA AnswerIsLast ==
  ASSUME TypeInv, LateInv, Answered, others = 0, timedOut = {}
  PROVE  /\ air = <<>> /\ back = <<>> /\ ~queued /\ ~taken /\ Len(q) = 1
         /\ Tail(q) = <<>>
<1>1. Len(q) >= 1 /\ Len(Tail(q)) = Len(q) - 1 /\ Tail(q) \in Seq(Arrived)
  BY TailSet DEF Answered, TypeInv, SeqInv
<1>2. UnderWay <= 1
  BY DEF LateInv, Answered
<1>3. Len(air) = 0 /\ Len(back) = 0 /\ One(queued) = 0 /\ One(taken) = 0 /\ Len(q) = 1
  BY <1>1, <1>2, Counts DEF UnderWay
<1>4. air \in Seq(Request) /\ back \in Seq(Answer)
  BY DEF TypeInv, SeqInv
<1>5. air = <<>> /\ back = <<>>
  BY <1>3, <1>4
<1>6. Tail(q) = <<>>
  <2> DEFINE s == Tail(q)
  <2>1. Len(s) = 0 /\ s \in Seq(Arrived)
    BY <1>1, <1>3
  <2> HIDE DEF s
  <2>2. s = <<>>
    BY <2>1
  <2> QED BY <2>2 DEF s
<1> QED BY <1>3, <1>5, <1>6 DEF One

(* What something under way may belong to stays so, until the script goes  *)
(* on from an exchange that was answered.                                  *)
LEMMA MayBeStep ==
  ASSUME TypeInv, [Next]_vars, NEW e \in Of, MayBe(e, n, others, timedOut),
         Answered => others > 0 \/ timedOut # {}
  PROVE  MayBe(e, n', others', timedOut')
<1>1. /\ n \in Int /\ others \in Nat /\ timedOut \subseteq Int /\ Other \notin Nat
  BY Numbers DEF TypeInv, TypeOK, Other
<1>2. e # Other => e \in Nat
  BY DEF Of
<1>3. CASE Answered
  BY <1>1, <1>2, <1>3 DEF Answered, Proceed, MayBe
<1>4. CASE TimedOut
  <2>1. /\ n' = n + 1 /\ others' = others /\ timedOut' = timedOut \cup {n}
    BY <1>4 DEF TimedOut, Proceed
  <2>2. (others = 0 => \E d \in timedOut' : d <= e)
    BY <1>1, <2>1 DEF MayBe
  <2> QED BY <1>1, <1>2, <2>1, <2>2 DEF MayBe
<1>5. CASE OtherWrites
  BY <1>1, <1>5 DEF OtherWrites, script, MayBe
<1>6. CASE Write \/ WriteRaises \/ Finish \/ Notify \/ Arrive \/ Dequeue
           \/ ProcessWork \/ UNCHANGED vars
  <2>1. UNCHANGED <<n, others, timedOut>>
    BY <1>6 DEF Write, WriteRaises, Finish, Notify, Arrive, Dequeue,
                ProcessWork, vars, script
  <2> QED BY <2>1 DEF MayBe
<1> QED BY <1>3, <1>4, <1>5, <1>6 DEF Next, Script

(* A write finds nothing under way, and every later step moves the one     *)
(* request on, or its answer.                                              *)
LEMMA UnderWayStep ==
  ASSUME TypeInv, LateInv, [Next]_vars, others' = 0, timedOut' = {}
  PROVE  UnderWay' <= IF step' = "waiting" THEN 1 ELSE 0
<1>1. others = 0 /\ timedOut = {} /\ ~TimedOut /\ ~OtherWrites
  <2>1. others \in Nat
    BY Numbers DEF TypeInv, TypeOK
  <2>2. ~OtherWrites
    BY <2>1 DEF OtherWrites
  <2>3. ~TimedOut
    BY DEF TimedOut
  <2>4. others' = others /\ timedOut' = timedOut
    BY <2>2, <2>3
    DEF Next, Script, Write, WriteRaises, Answered, Finish, Notify, Arrive,
        Dequeue, ProcessWork, vars, script
  <2> QED BY <2>2, <2>3, <2>4
<1>2. /\ UnderWay <= IF step = "waiting" THEN 1 ELSE 0
      /\ air \in Seq(Request) /\ back \in Seq(Answer) /\ q \in Seq(Arrived)
  BY <1>1 DEF LateInv, TypeInv, SeqInv
<1> DEFINE a == Len(air)   b == Len(back)   c == Len(q)
           d == One(queued) + One(taken)
<1>3. /\ a \in Nat /\ b \in Nat /\ c \in Nat /\ d \in 0 .. 2
      /\ UnderWay = a + b + c + d /\ UnderWay' = a' + b' + c' + d'
  BY Counts DEF UnderWay
<1>5. CASE Write
  <2>1. ToWrite \in Request
    BY <1>5, Numbers, MessageTypes DEF Write, ToWrite, Of, TypeInv, TypeOK
  <2>2. a' = a + 1 /\ b' = b /\ c' = 0 /\ d' = d
    BY <1>2, <1>5, <2>1, AppendSet, EmptySet DEF Write, Drained, device
  <2>3. step = "ready" /\ step' = "waiting"
    BY <1>5 DEF Write
  <2> HIDE DEF a, b, c, d
  <2> QED BY <1>2, <1>3, <2>2, <2>3
<1>6. CASE WriteRaises
  <2>1. a' = a /\ b' = b /\ c' = 0 /\ d' = d
    BY <1>6, EmptySet DEF WriteRaises, Drained, device
  <2>2. step = "ready" /\ step' = "done"
    BY <1>6 DEF WriteRaises
  <2> HIDE DEF a, b, c, d
  <2> QED BY <1>2, <1>3, <2>1, <2>2
<1>7. CASE Answered
  <2>1. /\ air = <<>> /\ back = <<>> /\ ~queued /\ ~taken /\ q' = <<>>
    BY <1>1, <1>7, AnswerIsLast DEF Answered
  <2>2. air' = <<>> /\ back' = <<>> /\ q' = <<>> /\ ~queued' /\ ~taken'
    BY <1>7, <2>1 DEF Answered, device
  <2>3. a' = 0 /\ b' = 0 /\ c' = 0 /\ d' = 0
    BY <2>2, EmptySet DEF One
  <2>4. step' = "ready"
    BY <1>7 DEF Answered, Proceed
  <2> HIDE DEF a, b, c, d
  <2> QED BY <1>3, <2>3, <2>4
<1>8. CASE Notify
  <2> DEFINE e == [of |-> Head(back).of, type |-> Head(back).type,
                   at |-> n + IF step = "waiting" THEN 1 ELSE 0]
  <2>1. Head(back) \in Answer /\ b' = b - 1
    BY <1>2, <1>8, TailSet DEF Notify
  <2>2. e \in Arrived
    BY <2>1, Numbers, MessageTypes DEF Answer, TypeInv, TypeOK, ScriptInv
  <2>3. c' = c + 1
    BY <1>2, <1>8, <2>2, AppendSet DEF Notify
  <2>4. a' = a /\ d' = d /\ step' = step
    BY <1>8 DEF Notify, script, device
  <2> HIDE DEF a, b, c, d
  <2> QED BY <1>2, <1>3, <2>1, <2>3, <2>4
<1>9. CASE Arrive
  <2>1. a' = a - 1
    BY <1>2, <1>9, TailSet DEF Arrive
  <2>2. b' = b /\ c' = c /\ step' = step
    BY <1>9 DEF Arrive, script
  <2>3. d' = d \/ d' = d + 1
    BY <1>9, Counts DEF Arrive, One
  <2> HIDE DEF a, b, c, d
  <2> QED BY <1>2, <1>3, <2>1, <2>2, <2>3
<1>10. CASE Dequeue
  <2>1. a' = a /\ b' = b /\ c' = c /\ step' = step
    BY <1>10 DEF Dequeue, script
  <2>2. d' = d
    BY <1>10 DEF Dequeue, One
  <2> HIDE DEF a, b, c, d
  <2> QED BY <1>2, <1>3, <2>1, <2>2
<1>11. CASE ProcessWork
  <2>1. back' = back \/ b' = b + 1
    <3>1. ASSUME NEW t \in AnswerTypes, Reply(t) PROVE b' = b + 1
      <4>1. [of |-> sRxBuf.of, type |-> t] \in Answer
        BY <1>11, MessageTypes DEF ProcessWork, TypeInv, ScriptInv, Request
      <4> QED BY <1>2, <3>1, <4>1, AppendSet DEF Reply
    <3> QED BY <1>11, <3>1 DEF ProcessWork, AnswerTypes
  <2>2. a' = a /\ c' = c /\ step' = step
    BY <1>11 DEF ProcessWork, script
  <2>3. d' = d - 1
    BY <1>11, Counts DEF ProcessWork, One
  <2>4. b' = b \/ b' = b + 1
    BY <2>1
  <2> HIDE DEF a, b, c, d
  <2> QED BY <1>2, <1>3, <2>2, <2>3, <2>4
<1>12. CASE Finish \/ UNCHANGED vars
  <2>1. a' = a /\ b' = b /\ c' = c /\ d' = d
    BY <1>12 DEF Finish, vars, device
  <2>2. step' = step \/ (step = "ready" /\ step' = "done")
    BY <1>12 DEF Finish, vars, script
  <2> HIDE DEF a, b, c, d
  <2> QED BY <1>2, <1>3, <2>1, <2>2
<1> QED
  BY <1>1, <1>5, <1>6, <1>7, <1>8, <1>9, <1>10, <1>11, <1>12 DEF Next, Script

(* The same for everything under way at once.                              *)
LEMMA CarryStep ==
  ASSUME TypeInv, LateInv, [Next]_vars
  PROVE  /\ \A m \in ToSet(air) : MayBe(m.of, n', others', timedOut')
         /\ queued \/ taken => MayBe(sRxBuf.of, n', others', timedOut')
         /\ \A x \in ToSet(back) : MayBe(x.of, n', others', timedOut') /\ IsOwn(x)
         /\ ~Answered => \A x \in ToSet(q) : MayBe(x.of, n', others', timedOut') /\ IsOwn(x)
         /\ Answered => \A x \in ToSet(Tail(q)) : MayBe(x.of, n', others', timedOut') /\ IsOwn(x)
<1>1. /\ \A m \in ToSet(air) : m.of \in Of /\ MayBe(m.of, n, others, timedOut)
      /\ queued \/ taken => sRxBuf.of \in Of /\ MayBe(sRxBuf.of, n, others, timedOut)
      /\ \A x \in ToSet(back) : x.of \in Of /\ MayBe(x.of, n, others, timedOut) /\ IsOwn(x)
      /\ \A x \in ToSet(q) : x.of \in Of /\ MayBe(x.of, n, others, timedOut) /\ IsOwn(x)
  <2>1. /\ \A m \in ToSet(air) : m \in Request
        /\ \A x \in ToSet(back) : x \in Answer
        /\ \A x \in ToSet(q) : x \in Arrived
        /\ queued \/ taken => sRxBuf \in Request
    BY Counts DEF TypeInv, ScriptInv
  <2>2. /\ \A m \in Request : m.of \in Of
        /\ \A x \in Answer : x.of \in Of
        /\ \A x \in Arrived : x.of \in Of
    BY DEF Request, Answer, Arrived
  <2> QED BY <2>1, <2>2 DEF LateInv
<1>2. CASE ~Answered \/ others > 0 \/ timedOut # {}
  <2>1. \A e \in Of : MayBe(e, n, others, timedOut) => MayBe(e, n', others', timedOut')
    BY <1>2, MayBeStep
  <2>2. Answered => \A x \in ToSet(Tail(q)) : x \in ToSet(q)
    BY TailSet DEF Answered, TypeInv, SeqInv
  <2> QED BY <1>1, <2>1, <2>2
<1>3. CASE Answered /\ others = 0 /\ timedOut = {}
  <2>1. air = <<>> /\ back = <<>> /\ ~queued /\ ~taken /\ Tail(q) = <<>>
    BY <1>3, AnswerIsLast
  <2> QED BY <1>3, <2>1, EmptySet
<1>4. others > 0 \/ others = 0
  BY Numbers DEF TypeInv, TypeOK
<1> QED BY <1>2, <1>3, <1>4

(* A request may belong to the exchange that writes it, or to the other    *)
(* central.                                                                *)
LEMMA LateStep ==
  ASSUME TypeInv, LateInv, [Next]_vars
  PROVE  LateInv'
<1>1. others' = 0 /\ timedOut' = {} => UnderWay' <= IF step' = "waiting" THEN 1 ELSE 0
  BY UnderWayStep
<1>2. /\ air \in Seq(Request) /\ back \in Seq(Answer) /\ q \in Seq(Arrived)
  BY DEF TypeInv, SeqInv
<1>3. /\ \A m \in ToSet(air) : MayBe(m.of, n', others', timedOut')
      /\ queued \/ taken => MayBe(sRxBuf.of, n', others', timedOut')
      /\ \A x \in ToSet(back) : MayBe(x.of, n', others', timedOut') /\ IsOwn(x)
      /\ ~Answered => \A x \in ToSet(q) : MayBe(x.of, n', others', timedOut') /\ IsOwn(x)
      /\ Answered => \A x \in ToSet(Tail(q)) : MayBe(x.of, n', others', timedOut') /\ IsOwn(x)
  BY CarryStep
<1> DEFINE AirOK == \A m \in ToSet(air) : MayBe(m.of, n, others, timedOut)
           DeviceOK == queued \/ taken => MayBe(sRxBuf.of, n, others, timedOut)
           BackOK == \A x \in ToSet(back) : MayBe(x.of, n, others, timedOut) /\ IsOwn(x)
           QueueOK == \A x \in ToSet(q) : MayBe(x.of, n, others, timedOut) /\ IsOwn(x)
<1>4. AirOK'
  <2>1. CASE Write
    <3>1. ToWrite \in Request /\ ToWrite.of = n
      BY <2>1, Numbers, MessageTypes DEF Write, ToWrite, Of, TypeInv, TypeOK
    <3>2. ToSet(air') = ToSet(air) \cup {ToWrite}
      BY <1>2, <2>1, <3>1, AppendSet DEF Write
    <3>3. MayBe(n, n', others', timedOut')
      <4>1. n \in Nat /\ timedOut \subseteq Int /\ \A e \in timedOut : e < n
        BY Numbers DEF TypeInv, TypeOK, ScriptInv
      <4>2. UNCHANGED <<n, timedOut, others>>
        BY <2>1 DEF Write
      <4>3. n # Other
        BY <4>1 DEF Other
      <4>4. ASSUME timedOut # {} PROVE \E e \in timedOut : e <= n
        <5>1. PICK e : e \in timedOut
          BY <4>4
        <5> QED BY <4>1, <5>1
      <4> QED BY <4>1, <4>2, <4>3, <4>4 DEF MayBe
    <3>4. \A m \in ToSet(air') : MayBe(m.of, n', others', timedOut')
      BY <1>3, <3>1, <3>2, <3>3
    <3> QED BY <3>4
  <2>2. CASE OtherWrites
    <3> DEFINE r == [of |-> Other, counter |-> 0]
    <3>1. r \in Request /\ r.of = Other
      BY Numbers, MessageTypes
    <3>2. ToSet(air') = ToSet(air) \cup {r}
      BY <1>2, <2>2, <3>1, AppendSet DEF OtherWrites
    <3>3. MayBe(Other, n', others', timedOut')
      BY <2>2, Numbers DEF OtherWrites, TypeInv, TypeOK, MayBe
    <3>4. \A m \in ToSet(air') : MayBe(m.of, n', others', timedOut')
      BY <1>3, <3>1, <3>2, <3>3
    <3> QED BY <3>4
  <2>3. CASE Arrive
    <3>1. \A m \in ToSet(air') : m \in ToSet(air)
      BY <1>2, <2>3, TailSet DEF Arrive
    <3> QED BY <1>3, <3>1
  <2>4. CASE (Script /\ ~Write) \/ Notify \/ Dequeue \/ ProcessWork \/ UNCHANGED vars
    <3>1. air' = air
      BY <2>4 DEF Script, WriteRaises, Answered, TimedOut, Finish, Notify, Dequeue,
                  ProcessWork, vars
    <3> QED BY <1>3, <3>1
  <2> QED BY <2>1, <2>2, <2>3, <2>4 DEF Next
<1>5. DeviceOK'
  <2>1. CASE Arrive
    <3>1. Head(air) \in ToSet(air) /\ sRxBuf' = Head(air)
      BY <1>2, <2>1, TailSet DEF Arrive
    <3> QED BY <1>3, <3>1
  <2>2. CASE Dequeue \/ ProcessWork
    BY <1>3, <2>2 DEF Dequeue, ProcessWork
  <2>3. CASE Script \/ OtherWrites \/ Notify \/ UNCHANGED vars
    <3>1. UNCHANGED <<sRxBuf, queued, taken>>
      BY <2>3 DEF Script, Write, WriteRaises, Answered, TimedOut, Finish,
                  OtherWrites, Notify, vars, device
    <3> QED BY <1>3, <3>1
  <2> QED BY <2>1, <2>2, <2>3 DEF Next
<1>6. BackOK'
  <2>1. CASE Notify
    <3>1. \A x \in ToSet(back') : x \in ToSet(back)
      BY <1>2, <2>1, TailSet DEF Notify
    <3> QED BY <1>3, <3>1 DEF IsOwn
  <2>2. CASE ProcessWork
    <3>1. ASSUME NEW t \in AnswerTypes, Reply(t), t = "response" => IsSigned(sRxBuf.of)
          PROVE  BackOK'
      <4> DEFINE x == [of |-> sRxBuf.of, type |-> t]
      <4>1. x \in Answer /\ x.of = sRxBuf.of /\ x.type = t
        BY <2>2, MessageTypes DEF ProcessWork, TypeInv, ScriptInv, Request
      <4>2. ToSet(back') = ToSet(back) \cup {x}
        BY <1>2, <3>1, <4>1, AppendSet DEF Reply
      <4>3. MayBe(x.of, n', others', timedOut') /\ IsOwn(x)
        BY <1>3, <2>2, <3>1, <4>1, MessageTypes DEF ProcessWork, IsOwn
      <4> QED BY <1>3, <4>2, <4>3 DEF IsOwn
    <3>2. CASE back' = back
      BY <1>3, <3>2
    <3> QED BY <2>2, <3>1, <3>2 DEF ProcessWork, AnswerTypes
  <2>3. CASE Script \/ OtherWrites \/ Arrive \/ Dequeue \/ UNCHANGED vars
    <3>1. back' = back
      BY <2>3 DEF Script, Write, WriteRaises, Answered, TimedOut, Finish,
                  OtherWrites, Arrive, Dequeue, vars
    <3> QED BY <1>3, <3>1
  <2> QED BY <2>1, <2>2, <2>3 DEF Next
<1>7. QueueOK'
  <2>1. CASE Notify
    <3> DEFINE x == [of |-> Head(back).of, type |-> Head(back).type,
                     at |-> n + IF step = "waiting" THEN 1 ELSE 0]
    <3>1. Head(back) \in Answer /\ Head(back) \in ToSet(back) /\ ~Answered
      BY <1>2, <2>1, TailSet, Numbers
      DEF Notify, Answered, Proceed, script, TypeInv, TypeOK
    <3>2. x \in Arrived /\ x.of = Head(back).of /\ x.type = Head(back).type
      BY <3>1, Numbers, MessageTypes DEF Answer, TypeInv, TypeOK, ScriptInv
    <3>3. ToSet(q') = ToSet(q) \cup {x}
      BY <1>2, <2>1, <3>2, AppendSet DEF Notify
    <3>4. MayBe(x.of, n', others', timedOut') /\ IsOwn(x)
      BY <1>3, <3>1, <3>2 DEF IsOwn
    <3> QED BY <1>3, <3>1, <3>3, <3>4 DEF IsOwn
  <2>2. CASE Answered
    <3>1. q' = Tail(q)
      BY <2>2 DEF Answered
    <3> QED BY <1>3, <2>2, <3>1
  <2>3. CASE Write \/ WriteRaises
    <3>1. q' = <<>>
      BY <2>3 DEF Write, WriteRaises, Drained
    <3> QED BY <3>1, EmptySet
  <2>4. CASE (TimedOut \/ Finish \/ OtherWrites \/ Arrive \/ Dequeue \/ ProcessWork
              \/ UNCHANGED vars) /\ ~Answered
    <3>1. q' = q
      BY <2>4 DEF TimedOut, Finish, OtherWrites, Arrive, Dequeue, ProcessWork, vars
    <3> QED BY <1>3, <2>4, <3>1
  <2> QED BY <2>1, <2>2, <2>3, <2>4 DEF Next, Script
<1> QED BY <1>1, <1>4, <1>5, <1>6, <1>7 DEF LateInv, IsOwn

(* A sample is made of what the queue holds.                               *)
LEMMA SampleStep ==
  ASSUME TypeInv, LateInv, LateOnlyAfterTimeout, [Next]_vars
  PROVE  LateOnlyAfterTimeout'
<1>1. /\ others \in Nat /\ others' \in Nat /\ others <= others'
      /\ timedOut \subseteq timedOut' /\ n \in Int
  <2>1. others \in Nat /\ n \in Int
    BY Numbers DEF TypeInv, TypeOK
  <2>2. CASE OtherWrites
    BY <2>1, <2>2 DEF OtherWrites, script
  <2>3. CASE TimedOut
    BY <2>1, <2>3 DEF TimedOut
  <2>4. CASE ~OtherWrites /\ ~TimedOut
    <3>1. UNCHANGED <<others, timedOut>>
      BY <2>4 DEF Next, Script, Write, WriteRaises, Answered, Finish, Notify, Arrive,
                  Dequeue, ProcessWork, vars, script
    <3> QED BY <2>1, <3>1
  <2> QED BY <2>2, <2>3, <2>4
<1> DEFINE Sample(r) ==
      \/ r.answer.of = r.exchange
      \/ /\ r.answer.of < r.exchange /\ r.answer.of # Other
         /\ others > 0 \/ \E e \in timedOut : e <= r.answer.of
      \/ r.answer.of = Other /\ others > 0 /\ ~IsSigned(r.exchange)
<1>2. \A r \in rows : Sample(r)'
  <2>1. TAKE r \in rows
  <2>2. Sample(r)
    BY DEF LateOnlyAfterTimeout
  <2> QED BY <1>1, <2>2
<1>3. CASE Answered
  <2> DEFINE a == Head(q)   r == [exchange |-> n, answer |-> a]
  <2>1. a \in ToSet(q) /\ a \in Arrived
    BY <1>3, TailSet DEF Answered, TypeInv, SeqInv
  <2>2. a.of \in Of /\ MayBe(a.of, n, others, timedOut) /\ IsOwn(a)
    BY <2>1 DEF Arrived, LateInv
  <2>3. rows' = rows \/ (rows' = rows \cup {r} /\ Booked(a))
    BY <1>3 DEF Answered
  <2>4. Booked(a) => Sample(r)
    <3> HIDE DEF a
    <3>1. r.exchange = n /\ r.answer = a
      OBVIOUS
    <3>2. CASE a.of = Other
      BY <2>2, <3>1, <3>2 DEF MayBe, IsOwn, Booked
    <3>3. CASE a.of # Other
      <4>1. a.of \in 0 .. n
        BY <1>1, <2>2, <3>3 DEF MayBe
      <4> QED BY <1>1, <2>2, <3>1, <3>3, <4>1 DEF MayBe
    <3> QED BY <3>2, <3>3
  <2>5. UNCHANGED <<others, timedOut>>
    BY <1>3 DEF Answered
  <2>6. \A x \in rows' : Sample(x)'
    BY <1>2, <2>3, <2>4, <2>5
  <2> QED BY <2>6 DEF LateOnlyAfterTimeout
<1>4. CASE ~Answered
  <2>1. rows' = rows
    BY <1>4 DEF Next, Script, Write, WriteRaises, TimedOut, Finish, OtherWrites,
       Notify, Arrive, Dequeue, ProcessWork, vars, script
  <2> QED BY <1>2, <2>1 DEF LateOnlyAfterTimeout
<1> QED BY <1>3, <1>4

-----------------------------------------------------------------------------
IInv == TypeInv /\ CounterInv /\ RttInv /\ LateInv /\ LateOnlyAfterTimeout

LEMMA IInvHolds == Spec => []IInv
<1>1. Init => IInv
  BY InitHolds DEF IInv, Init, LateOnlyAfterTimeout
<1>2. IInv /\ [Next]_vars => IInv'
  BY TypeStep, CounterStep, RttStep, LateStep, SampleStep DEF IInv
<1> QED BY <1>1, <1>2, PTL DEF Spec

(* The script and the device stay within their types, the counter within   *)
(* the number of samples.                                                  *)
THEOREM MeasurementTypeCorrect == Spec => []TypeOK
<1>1. IInv => TypeOK
  BY DEF IInv, TypeInv
<1> QED BY <1>1, IInvHolds, PTL

(* No signed request goes out with a counter the device has passed, or     *)
(* that is still under way, whatever was lost, late or another central's.  *)
THEOREM FreshCounterSentHolds == Spec => []FreshCounterSent
<1>1. ASSUME IInv PROVE FreshCounterSent
  <2>1. /\ counter \in Int /\ mFloor \in Int /\ sRxBuf.counter \in Int
        /\ \A m \in ToSet(air) : m.counter \in Int
    <3>1. ToSet(air) \subseteq Request
      BY <1>1, Counts DEF IInv
    <3> QED BY <1>1, <3>1, Numbers, MessageTypes DEF IInv, TypeInv, TypeOK, Request
  <2>2. CounterInv
    BY <1>1 DEF IInv
  <2> QED BY <2>1, <2>2 DEF CounterInv, Spent, FreshCounterSent
<1> QED BY <1>1, IInvHolds, PTL

(* Every sample is made of a notification that came after its request was  *)
(* written.                                                                *)
THEOREM RttIsNotNegativeHolds == Spec => []RttIsNotNegative
<1>1. IInv => RttIsNotNegative
  BY DEF IInv, RttInv
<1> QED BY <1>1, IInvHolds, PTL

(* Every sample is made of the answer to its own request, or of one to a   *)
(* request not before the first timeout; or else another central is about, *)
(* and no signed sample is made of an answer to that one.                  *)
THEOREM LateOnlyAfterTimeoutHolds == Spec => []LateOnlyAfterTimeout
<1>1. IInv => LateOnlyAfterTimeout
  BY DEF IInv
<1> QED BY <1>1, IInvHolds, PTL


(* What is left to do is a natural number that every step of the coroutine *)
(* makes smaller: with the fairness of Spec the measurement ends.          *)
THEOREM NearsItsEndHolds == Spec => NearsItsEnd
<1>1. ASSUME TypeOK, TypeOK', [Next]_vars
      PROVE  [\/ Script /\ Remaining' \in Nat /\ Remaining' < Remaining
              \/ ~Script /\ UNCHANGED script]_vars
  <2> DEFINE k == LastExchange
  <2>1. /\ k \in Nat /\ n \in 0 .. k + 1 /\ n' \in 0 .. k + 1
        /\ step \in {"ready", "waiting", "done"} /\ step' \in {"ready", "waiting", "done"}
    BY <1>1, MeasurementAssumption DEF TypeOK, LastExchange
  <2>2. /\ Remaining = CASE step = "done" -> 0
                         [] step = "waiting" -> 2 * (k + 1 - n) + 1
                         [] OTHER -> 2 * (k + 1 - n) + 2
        /\ Remaining' = CASE step' = "done" -> 0
                          [] step' = "waiting" -> 2 * (k + 1 - n') + 1
                          [] OTHER -> 2 * (k + 1 - n') + 2
    BY DEF Remaining, LastExchange
  <2>3. ASSUME Script PROVE Remaining' \in Nat /\ Remaining' < Remaining
    <3>1. CASE Write
      <4>1. step = "ready" /\ step' = "waiting" /\ n' = n
        BY <3>1 DEF Write
      <4> QED BY <2>1, <2>2, <4>1
    <3>2. CASE WriteRaises
      <4>1. step = "ready" /\ step' = "done"
        BY <3>2 DEF WriteRaises
      <4> QED BY <2>1, <2>2, <4>1
    <3>3. CASE Answered \/ TimedOut
      <4>1. step = "waiting" /\ step' = "ready" /\ n' = n + 1
        BY <3>3 DEF Answered, TimedOut, Proceed
      <4> QED BY <2>1, <2>2, <4>1
    <3>4. CASE Finish
      <4>1. step = "ready" /\ step' = "done"
        BY <3>4 DEF Finish
      <4> QED BY <2>1, <2>2, <4>1
    <3> QED BY <2>3, <3>1, <3>2, <3>3, <3>4 DEF Script
  <2>4. ASSUME ~Script PROVE UNCHANGED script \/ UNCHANGED vars
    BY <1>1, <2>4 DEF Next, OtherWrites, Notify, Arrive, Dequeue, ProcessWork, vars
  <2> QED BY <2>3, <2>4
<1>2. Spec => []TypeOK
  BY MeasurementTypeCorrect
<1> QED
  BY <1>1, <1>2, PTL DEF Spec, NearsItsEnd
=============================================================================
