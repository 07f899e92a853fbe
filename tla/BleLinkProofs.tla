---------------------------- MODULE BleLinkProofs ----------------------------
(***************************************************************************)
(* Proofs about BleLink, for any number of links and slow-downs: the work  *)
(* queue holds an item at most once, sConn is never a link that is gone,   *)
(* and the renegotiation of a link ends with its retries.                  *)
(***************************************************************************)
EXTENDS BleLink, TLAPS

(* An update that is under way has been counted as a retry already.        *)
UnderWay == IF running = "update" THEN 1 ELSE 0

RetryInv ==
  /\ reasserted \in Nat
  /\ reasserted + UnderWay <= sParamRetries + 1

QueueInv ==
  /\ queue \in Seq(Items)
  /\ \A i, j \in 1 .. Len(queue) : queue[i] = queue[j] => i = j

LinkInv == TypeOK /\ QueueInv /\ RetryInv

(* Submitting leaves every item in the queue at most once ...              *)
LEMMA SubmitProperties ==
  ASSUME QueueInv, NEW item \in Items
  PROVE  /\ SubmitTo(queue, item) \in Seq(Items)
         /\ \A i, j \in 1 .. Len(SubmitTo(queue, item)) :
              SubmitTo(queue, item)[i] = SubmitTo(queue, item)[j] => i = j
<1>1. CASE inited /\ item \notin ToSet(queue)
  <2>1. \A i \in 1 .. Len(queue) : queue[i] # item
    BY <1>1 DEF QueueInv, ToSet
  <2>2. /\ Append(queue, item) \in Seq(Items)
        /\ Len(Append(queue, item)) = Len(queue) + 1
        /\ Append(queue, item)[Len(queue) + 1] = item
        /\ \A i \in 1 .. Len(queue) : Append(queue, item)[i] = queue[i]
    BY DEF QueueInv
  <2> QED BY <1>1, <2>1, <2>2 DEF SubmitTo, QueueInv
<1>2. CASE ~(inited /\ item \notin ToSet(queue))
  BY <1>2 DEF SubmitTo, QueueInv
<1> QED BY <1>1, <1>2

(* ... and so does taking the first one.                                   *)
LEMMA TailProperties ==
  ASSUME QueueInv, queue # <<>>
  PROVE  /\ Head(queue) \in Items
         /\ Tail(queue) \in Seq(Items)
         /\ \A i, j \in 1 .. Len(Tail(queue)) :
              Tail(queue)[i] = Tail(queue)[j] => i = j
<1>1. /\ Tail(queue) \in Seq(Items)
      /\ Len(Tail(queue)) = Len(queue) - 1
      /\ \A i \in 1 .. Len(Tail(queue)) : Tail(queue)[i] = queue[i + 1]
  BY DEF QueueInv
<1>2. Len(queue) \in Nat /\ Head(queue) \in Items
  BY DEF QueueInv
<1> QED BY <1>1, <1>2 DEF QueueInv

(* What the sequence operators of TypeOK say of such a queue.              *)
LEMMA QueueType ==
  QueueInv => ToSet(queue) \subseteq Items /\ IsInjective(queue)
BY DEF QueueInv, ToSet, IsInjective

LEMMA InitHolds == Init => LinkInv
<1> SUFFICES ASSUME Init PROVE LinkInv
  OBVIOUS
<1>1. QueueInv
  BY DEF Init, QueueInv
<1>2. RetryInv
  BY DEF Init, RetryInv, UnderWay
<1>3. ToSet(queue) \subseteq Items /\ IsInjective(queue)
  BY <1>1, QueueType
<1>4. TypeOK
  <2>1. /\ fast \subseteq conns /\ asked \subseteq conns /\ conns \subseteq Centrals
        /\ faults \subseteq FaultKinds /\ sParamRetries \in 0 .. MaxRetries
    BY DEF Init, MaxRetries
  <2> QED BY <1>3, <2>1 DEF Init, TypeOK
<1> QED
  BY <1>1, <1>2, <1>4 DEF LinkInv

-----------------------------------------------------------------------------
(* The queue is changed by submitting to it and taking from it alone.      *)
LEMMA QueueStep ==
  ASSUME LinkInv, [Next]_vars
  PROVE  QueueInv'
<1> USE DEF LinkInv, QueueInv, linkVars, workVars, paramVars
<1>1. CASE DoInit
  BY <1>1 DEF DoInit, InsertRequest, Fault, NoFault
<1>2. CASE Receive
  BY <1>2, SubmitProperties DEF Receive, Items
<1>3. CASE ParamTimeout
  BY <1>3, SubmitProperties DEF ParamTimeout, Items
<1>4. CASE Dequeue
  BY <1>4, TailProperties DEF Dequeue
<1>5. CASE RequestDone
  BY <1>5 DEF RequestDone
<1>6. CASE ParamCheck
  BY <1>6 DEF ParamCheck, Count
<1>7. CASE ParamUpdate
  BY <1>7 DEF ParamUpdate, NoFault, Fault
<1>8. CASE Readvertise
  BY <1>8 DEF Readvertise, InsertRequest, Fault, NoFault
<1>9. ASSUME NEW c \in Centrals, Connected(c) PROVE QueueInv'
  BY <1>9 DEF Connected, Fault, NoFault
<1>10. ASSUME NEW c \in Centrals, FastGranted(c) PROVE QueueInv'
  BY <1>10 DEF FastGranted, Fault, NoFault
<1>11. ASSUME NEW c \in Centrals, ChipSlows(c) PROVE QueueInv'
  BY <1>11 DEF ChipSlows, Reschedule
<1>12. ASSUME NEW c \in Centrals, Disconnected(c) PROVE QueueInv'
  BY <1>12, SubmitProperties DEF Disconnected, Items
<1>13. CASE UNCHANGED vars
  BY <1>13 DEF vars
<1> QED
  BY <1>1, <1>2, <1>3, <1>4, <1>5, <1>6, <1>7, <1>8, <1>9,
     <1>10, <1>11, <1>12, <1>13
  DEF Next, Handlers

(* An update counts as a retry when it is decided and as a re-assertion    *)
(* when it is made; a new link starts both counts again.                   *)
LEMMA RetryStep ==
  ASSUME LinkInv, [Next]_vars
  PROVE  RetryInv'
<1> USE DEF LinkInv, TypeOK, RetryInv, UnderWay, MaxRetries, Items, linkVars, workVars, paramVars
<1>1. CASE DoInit
  BY <1>1 DEF DoInit, InsertRequest, Fault, NoFault
<1>2. CASE Receive
  BY <1>2 DEF Receive, SubmitTo
<1>3. CASE ParamTimeout
  BY <1>3 DEF ParamTimeout
<1>4. CASE Dequeue
  BY <1>4, TailProperties DEF Dequeue
<1>5. CASE RequestDone
  BY <1>5 DEF RequestDone
<1>6. CASE ParamCheck
  BY <1>6 DEF ParamCheck, Count
<1>7. CASE ParamUpdate
  BY <1>7 DEF ParamUpdate, NoFault, Fault
<1>8. CASE Readvertise
  BY <1>8 DEF Readvertise, InsertRequest, Fault, NoFault
<1>9. ASSUME NEW c \in Centrals, Connected(c) PROVE RetryInv'
  BY <1>9 DEF Connected, Fault, NoFault
<1>10. ASSUME NEW c \in Centrals, FastGranted(c) PROVE RetryInv'
  BY <1>10 DEF FastGranted, Fault, NoFault
<1>11. ASSUME NEW c \in Centrals, ChipSlows(c) PROVE RetryInv'
  BY <1>11 DEF ChipSlows, Reschedule
<1>12. ASSUME NEW c \in Centrals, Disconnected(c) PROVE RetryInv'
  BY <1>12 DEF Disconnected, ForgetConn
<1>13. CASE UNCHANGED vars
  BY <1>13 DEF vars
<1> QED
  BY <1>1, <1>2, <1>3, <1>4, <1>5, <1>6, <1>7, <1>8, <1>9,
     <1>10, <1>11, <1>12, <1>13
  DEF Next, Handlers

(* sConn is given a link that is coming up and forgotten when any is lost. *)
LEMMA TypeStep ==
  ASSUME LinkInv, [Next]_vars
  PROVE  TypeOK'
<1>0. ToSet(queue') \subseteq Items /\ IsInjective(queue')
  <2>1. QueueInv'
    BY QueueStep
  <2> QED BY <2>1 DEF QueueInv, ToSet, IsInjective
<1> USE DEF LinkInv, TypeOK, MaxRetries, FaultKinds, linkVars, workVars, paramVars
<1>1. CASE DoInit
  BY <1>0, <1>1 DEF DoInit, InsertRequest, Fault, NoFault
<1>2. CASE Receive
  BY <1>0, <1>2 DEF Receive, SubmitTo
<1>3. CASE ParamTimeout
  BY <1>0, <1>3 DEF ParamTimeout
<1>4. CASE Dequeue
  BY <1>0, <1>4, TailProperties DEF Dequeue
<1>5. CASE RequestDone
  BY <1>0, <1>5 DEF RequestDone
<1>6. CASE ParamCheck
  BY <1>0, <1>6 DEF ParamCheck, Count
<1>7. CASE ParamUpdate
  BY <1>0, <1>7 DEF ParamUpdate, NoFault, Fault
<1>8. CASE Readvertise
  BY <1>0, <1>8 DEF Readvertise, InsertRequest, Fault, NoFault
<1>9. ASSUME NEW c \in Centrals, Connected(c) PROVE TypeOK'
  <2>1. asked' \subseteq conns' /\ conns' \subseteq Centrals /\ fast' \subseteq conns'
    BY <1>9 DEF Connected
  <2>2. faults' \subseteq FaultKinds
    BY <1>9 DEF Connected, Fault, NoFault
  <2>3. /\ sConn' \in conns' \cup {NoConn} /\ last' \in conns' \cup {NoConn}
        /\ sParamRetries' \in 0 .. MaxRetries
    BY <1>9 DEF Connected
  <2>5. otherEnded' \in BOOLEAN
    BY <1>9, Zenon DEF Connected
  <2>4. advertising' \in BOOLEAN
    BY <1>9, Zenon DEF Connected
  <2> QED BY <1>0, <1>9, <2>1, <2>2, <2>3, <2>4, <2>5 DEF Connected
<1>10. ASSUME NEW c \in Centrals, FastGranted(c) PROVE TypeOK'
  BY <1>0, <1>10 DEF FastGranted, Fault, NoFault
<1>11. ASSUME NEW c \in Centrals, ChipSlows(c) PROVE TypeOK'
  BY <1>0, <1>11 DEF ChipSlows, Reschedule
<1>12. ASSUME NEW c \in Centrals, Disconnected(c) PROVE TypeOK'
  <2>1. /\ conns' = conns \ {c} /\ sConn' = NoConn
        /\ last' \in conns' \cup {NoConn} /\ otherEnded' \in BOOLEAN
    BY <1>12 DEF Disconnected, ForgetConn, Remember
  <2> QED BY <1>0, <1>12, <2>1 DEF Disconnected
<1>13. CASE UNCHANGED vars
  BY <1>0, <1>13 DEF vars
<1> QED
  BY <1>1, <1>2, <1>3, <1>4, <1>5, <1>6, <1>7, <1>8, <1>9,
     <1>10, <1>11, <1>12, <1>13
  DEF Next, Handlers

-----------------------------------------------------------------------------
(* What an item that is submitted, and one that is taken, adds to what is  *)
(* in the queue.                                                           *)
LEMMA SubmitElements ==
  ASSUME QueueInv, NEW item \in Items
  PROVE  ToSet(SubmitTo(queue, item)) =
           ToSet(queue) \cup (IF inited THEN {item} ELSE {})
<1>1. CASE inited /\ item \notin ToSet(queue)
  <2>1. /\ Append(queue, item) \in Seq(Items)
        /\ Len(Append(queue, item)) = Len(queue) + 1
        /\ Append(queue, item)[Len(queue) + 1] = item
        /\ \A i \in 1 .. Len(queue) : Append(queue, item)[i] = queue[i]
    BY DEF QueueInv
  <2>2. Len(queue) \in Nat
    BY DEF QueueInv
  <2>3. ToSet(Append(queue, item)) \subseteq ToSet(queue) \cup {item}
    BY <2>1, <2>2 DEF ToSet
  <2>4. ToSet(queue) \subseteq ToSet(Append(queue, item))
    BY <2>1, <2>2 DEF ToSet
  <2>5. item \in ToSet(Append(queue, item))
    BY <2>1, <2>2 DEF ToSet
  <2> QED BY <1>1, <2>3, <2>4, <2>5 DEF SubmitTo
<1>2. CASE ~(inited /\ item \notin ToSet(queue))
  BY <1>2 DEF SubmitTo
<1> QED BY <1>1, <1>2

LEMMA TailElements ==
  ASSUME QueueInv, queue # <<>>
  PROVE  ToSet(queue) \subseteq ToSet(Tail(queue)) \cup {Head(queue)}
<1>1. /\ Len(Tail(queue)) = Len(queue) - 1
      /\ \A i \in 1 .. Len(Tail(queue)) : Tail(queue)[i] = queue[i + 1]
  BY DEF QueueInv
<1>2. Len(queue) \in Nat /\ Head(queue) = queue[1]
  BY DEF QueueInv
<1> SUFFICES ASSUME NEW i \in 1 .. Len(queue), i # 1
             PROVE  queue[i] \in ToSet(Tail(queue))
  BY <1>2 DEF ToSet
<1>3. i - 1 \in 1 .. Len(Tail(queue)) /\ Tail(queue)[i - 1] = queue[i]
  BY <1>1, <1>2
<1> QED BY <1>3 DEF ToSet

(* A link that came up before the carrier is one of the faults.            *)
EarlyInv == ~inited /\ conns # {} => {"early", "update"} \cap faults # {}

LEMMA EarlyStep ==
  ASSUME EarlyInv, [Next]_vars
  PROVE  EarlyInv'
BY DEF EarlyInv, Next, Handlers, DoInit, InsertRequest, Receive, ParamTimeout,
  Dequeue, RequestDone, ParamCheck, ParamUpdate, Readvertise, Connected,
  FastGranted, ChipSlows, Disconnected, Fault, NoFault, vars, linkVars

(* sConn is the last link for as long as no other one ends.                *)
ConnInv == last # NoConn /\ ~otherEnded => sConn = last

LEMMA ConnStep ==
  ASSUME ConnInv, [Next]_vars
  PROVE  ConnInv'
<1>1. ASSUME NEW c \in Centrals, Connected(c) PROVE ConnInv'
  BY <1>1 DEF ConnInv, Connected
<1>2. ASSUME NEW c \in Centrals, Disconnected(c) PROVE ConnInv'
  <2>1. CASE c = last
    BY <1>2, <2>1 DEF ConnInv, Disconnected, Remember
  <2>2. CASE c # last
    BY <1>2, <2>2 DEF ConnInv, Disconnected, Remember
  <2> QED BY <2>1, <2>2
<1>3. CASE UNCHANGED <<last, otherEnded, sConn>>
  BY <1>3 DEF ConnInv
<1>4. CASE UNCHANGED vars \/ DoInit \/ Receive \/ ParamTimeout \/ Dequeue \/ Handlers
  BY <1>3, <1>4 DEF Handlers, DoInit, Receive, ParamTimeout, Dequeue, RequestDone,
    ParamCheck, ParamUpdate, Readvertise, vars, paramVars
<1>5. ASSUME NEW c \in Centrals, FastGranted(c) \/ ChipSlows(c) PROVE ConnInv'
  BY <1>3, <1>5 DEF FastGranted, ChipSlows, paramVars
<1> QED BY <1>1, <1>2, <1>4, <1>5 DEF Next

(* Whatever ends the advertising of a device without a link also asks for  *)
(* it again, and the request is dropped only when it has been heard.       *)
LEMMA AdvertisingStep ==
  ASSUME LinkInv, AdvertisingPending, [Next]_vars
  PROVE  AdvertisingPending'
<1> USE DEF LinkInv, TypeOK, AdvertisingPending, Items, linkVars, workVars, paramVars
<1>1. CASE DoInit \/ Readvertise
  BY <1>1 DEF DoInit, Readvertise, InsertRequest, Fault, NoFault
<1>2. CASE Receive
  BY <1>2, SubmitElements DEF Receive
<1>3. CASE ParamTimeout
  BY <1>3, SubmitElements DEF ParamTimeout
<1>4. CASE Dequeue
  BY <1>4, TailElements DEF Dequeue
<1>5. CASE RequestDone
  BY <1>5 DEF RequestDone
<1>6. CASE ParamCheck
  BY <1>6 DEF ParamCheck
<1>7. CASE ParamUpdate
  BY <1>7 DEF ParamUpdate, NoFault, Fault
<1>8. ASSUME NEW c \in Centrals, Connected(c) PROVE AdvertisingPending'
  BY <1>8 DEF Connected
<1>9. ASSUME NEW c \in Centrals, FastGranted(c) PROVE AdvertisingPending'
  BY <1>9 DEF FastGranted, Fault, NoFault
<1>10. ASSUME NEW c \in Centrals, ChipSlows(c) PROVE AdvertisingPending'
  BY <1>10 DEF ChipSlows
<1>11. ASSUME NEW c \in Centrals, Disconnected(c) PROVE AdvertisingPending'
  BY <1>11, SubmitElements DEF Disconnected
<1>12. CASE UNCHANGED vars
  BY <1>12 DEF vars
<1> QED
  BY <1>1, <1>2, <1>3, <1>4, <1>5, <1>6, <1>7, <1>8, <1>9, <1>10, <1>11, <1>12
  DEF Next, Handlers

(* A slow-down that meets the timer, the queued item or the handler at any *)
(* of its steps leaves one of them to follow.                              *)
LEMMA ReassertionStep ==
  ASSUME LinkInv, EarlyInv, ConnInv, ReassertionPending, [Next]_vars
  PROVE  ReassertionPending'
<1> USE DEF LinkInv, TypeOK, ConnInv, ReassertionPending, Items, MaxRetries, linkVars, workVars, paramVars
<1>1. CASE DoInit
  BY <1>1 DEF DoInit, InsertRequest, Fault, NoFault, EarlyInv
<1>2. CASE Receive
  BY <1>2, SubmitElements DEF Receive
<1>3. CASE ParamTimeout
  BY <1>3, SubmitElements DEF ParamTimeout
<1>4. CASE Dequeue
  BY <1>4, TailElements DEF Dequeue
<1>5. CASE RequestDone
  BY <1>5 DEF RequestDone
<1>6. CASE ParamCheck
  BY <1>6 DEF ParamCheck, Count
<1>7. CASE ParamUpdate
  BY <1>7 DEF ParamUpdate, NoFault, Fault
<1>8. CASE Readvertise
  BY <1>8 DEF Readvertise, InsertRequest, Fault, NoFault
<1>9. ASSUME NEW c \in Centrals, Connected(c) PROVE ReassertionPending'
  BY <1>9 DEF Connected, Fault, NoFault
<1>10. ASSUME NEW c \in Centrals, FastGranted(c) PROVE ReassertionPending'
  BY <1>10 DEF FastGranted, Fault, NoFault
<1>11. ASSUME NEW c \in Centrals, ChipSlows(c) PROVE ReassertionPending'
  <2>1. /\ conns' = conns /\ asked' = asked /\ inited' = inited
        /\ queue' = queue /\ running' = running /\ target' = target
        /\ last' = last /\ otherEnded' = otherEnded
        /\ sParamRetries' = sParamRetries /\ faults' = faults
    BY <1>11 DEF ChipSlows
  <2>2. paramTimer \/ (inited /\ sParamRetries < MaxRetries
                        /\ "param" \notin ToSet(queue)) => paramTimer'
    BY <1>11, Zenon DEF ChipSlows, Reschedule
  <2>3. fast \ {c} = fast'
    BY <1>11 DEF ChipSlows
  <2>4. inited /\ ~(sParamRetries = MaxRetries) => sParamRetries < MaxRetries
    OBVIOUS
  <2> QED BY <2>1, <2>2, <2>3, <2>4
<1>12. ASSUME NEW c \in Centrals, Disconnected(c) PROVE ReassertionPending'
  BY <1>12, SubmitElements DEF Disconnected, ForgetConn, Remember
<1>13. CASE UNCHANGED vars
  BY <1>13 DEF vars
<1> QED
  BY <1>1, <1>2, <1>3, <1>4, <1>5, <1>6, <1>7, <1>8, <1>9,
     <1>10, <1>11, <1>12, <1>13
  DEF Next, Handlers

-----------------------------------------------------------------------------
LEMMA LinkInvHolds == Spec => []LinkInv
<1>1. LinkInv /\ [Next]_vars => LinkInv'
  BY QueueStep, RetryStep, TypeStep DEF LinkInv
<1> QED BY <1>1, InitHolds, PTL DEF Spec

(* The variables keep their types: sConn is no link that is gone, and no   *)
(* item is queued twice.                                                   *)
THEOREM LinkTypeCorrect == Spec => []TypeOK
<1>1. LinkInv => TypeOK  BY DEF LinkInv
<1> QED BY <1>1, LinkInvHolds, PTL

(* The renegotiation of a link is bounded, however often CHIP slows it     *)
(* down (tunnel_ble.cpp:187-191).                                          *)
THEOREM ReassertionsBoundedHolds == Spec => []ReassertionsBounded
<1>1. LinkInv => ReassertionsBounded
  BY DEF LinkInv, TypeOK, RetryInv, UnderWay, ReassertionsBounded, MaxRetries
<1> QED BY <1>1, LinkInvHolds, PTL

(* A device without a link advertises or is about to.                      *)
THEOREM AdvertisingPendingHolds == Spec => []AdvertisingPending
<1>1. Init => AdvertisingPending
  BY DEF Init, AdvertisingPending
<1>2. LinkInv /\ AdvertisingPending /\ [Next]_vars => AdvertisingPending'
  BY AdvertisingStep
<1> QED BY <1>1, <1>2, LinkInvHolds, PTL DEF Spec

(* As long as no other link ends, the link of the last OnConnected is fast *)
(* or about to be asked to.                                                *)
THEOREM ReassertionPendingHolds == Spec => []ReassertionPending
<1>1. Init => EarlyInv /\ ConnInv /\ ReassertionPending
  BY DEF Init, EarlyInv, ConnInv, ReassertionPending
<1>2. LinkInv /\ EarlyInv /\ ConnInv /\ ReassertionPending /\ [Next]_vars
        => EarlyInv' /\ ConnInv' /\ ReassertionPending'
  BY EarlyStep, ConnStep, ReassertionStep
<1> QED BY <1>1, <1>2, LinkInvHolds, PTL DEF Spec
=============================================================================
