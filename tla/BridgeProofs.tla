---------------------------- MODULE BridgeProofs ----------------------------
(***************************************************************************)
(* Theorems about the Loader -> Rosalina bridge, for every number of       *)
(* senders, messages, slots, attempts and launches.                        *)
(*                                                                         *)
(* They rest on one inductive invariant, IndInv of Bridge.  Each           *)
(* action has a lemma that shows it keeps IndInv, with one step for the    *)
(* types, one for the ring, one for the senders, one for the worker and    *)
(* one for the priority of stock Loader.  Two parts rest on it: whose      *)
(* attempts the worker counts, and that the bridge implements              *)
(* BridgeChannel.                                                          *)
(***************************************************************************)
EXTENDS Bridge, SequenceTheorems, TLAPS

\* Advancing an index of the ring without the modulus.
LEMMA AdvanceValue ==
    ASSUME NEW i \in Slots
    PROVE  /\ Advance(i) \in Slots
           /\ Advance(i) = IF i + 1 = QueueCount THEN 0 ELSE i + 1
  BY QueueCountAssumption DEF Advance, Slots

\* A recorded failure keeps the counters natural numbers.
LEMMA RecordFailureTypes ==
    ASSUME TypeOK, RecordFailure
    PROVE  failures' \in [Messages -> Nat] /\ wasted' \in Nat
<1>1. failures' \in [Messages -> Nat]
  <2>1. failures \in [Messages -> Nat]
    BY DEF TypeOK
  <2>2. failures' = [m \in Messages |-> IF m = queue[windex]
                                         THEN failures[m] + 1 ELSE failures[m]]
    BY <2>1 DEF RecordFailure
  <2> QED
    BY <2>1, <2>2
<1>2. wasted' \in Nat
  BY DEF TypeOK, RecordFailure
<1> QED
  BY <1>1, <1>2

-----------------------------------------------------------------------------
(* Each action keeps the inductive invariant *)

\* A refused message leaves everything but the bookkeeping as it is.
LEMMA SendRefusePreserves ==
    ASSUME IndInv, NEW s \in Senders, NEW m \in Messages, SendRefuse(s, m)
    PROVE  IndInv'
<1>1. TypeOK'
  BY DEF IndInv, SendRefuse, ring, workerVars, stockVars, rosalinaVars,
         history, TypeOK
<1>2. /\ RingInv' /\ SenderInv' /\ WorkerInv' /\ PriorityInv'
      /\ AcceptedIsWellFormed' /\ StockHasPriority'
      /\ BusyPeriodCostsOneAttempt'
  BY DEF IndInv, SendRefuse, ring, workerVars, stockVars, rosalinaVars,
         history, RingInv, SenderInv, WorkerInv, PriorityInv,
         AcceptedIsWellFormed, StockHasPriority, BusyPeriodCostsOneAttempt,
         Occupied, HoldsSlot
<1> QED
  BY <1>1, <1>2 DEF IndInv

\* A sender that takes the lock is its only holder and holds a message that
\* passed the checks.
LEMMA SendLockPreserves ==
    ASSUME IndInv, NEW s \in Senders, NEW m \in Messages, SendLock(s, m)
    PROVE  IndInv'
<1>1. TypeOK'
  BY DEF IndInv, SendLock, ring, workerVars, stockVars, rosalinaVars, history,
         TypeOK
<1>2. SenderInv'
  BY NoneAssumption
    DEF IndInv, SendLock, MayQueue, TypeOK, SenderInv, LockFree, WellFormed
<1>3. /\ RingInv' /\ WorkerInv' /\ PriorityInv' /\ AcceptedIsWellFormed'
      /\ StockHasPriority' /\ BusyPeriodCostsOneAttempt'
  BY DEF IndInv, SendLock, ring, workerVars, stockVars, rosalinaVars, history,
         RingInv, WorkerInv, PriorityInv, AcceptedIsWellFormed,
         StockHasPriority, BusyPeriodCostsOneAttempt, Occupied, HoldsSlot
<1> QED
  BY <1>1, <1>2, <1>3 DEF IndInv

\* A full queue is left as it is.
LEMMA SendFullPreserves ==
    ASSUME IndInv, NEW s \in Senders, SendFull(s)
    PROVE  IndInv'
<1>1. TypeOK'
  BY DEF IndInv, SendFull, ring, workerVars, stockVars, rosalinaVars, history,
         TypeOK
<1>2. SenderInv'
  BY NoneAssumption
    DEF IndInv, SendFull, TypeOK, SenderInv
<1>3. /\ RingInv' /\ WorkerInv' /\ PriorityInv' /\ AcceptedIsWellFormed'
      /\ StockHasPriority' /\ BusyPeriodCostsOneAttempt'
  BY DEF IndInv, SendFull, ring, workerVars, stockVars, rosalinaVars, history,
         RingInv, WorkerInv, PriorityInv, AcceptedIsWellFormed,
         StockHasPriority, BusyPeriodCostsOneAttempt, Occupied, HoldsSlot
<1> QED
  BY <1>1, <1>2, <1>3 DEF IndInv

\* The slot behind the last message is free, so copying into it disturbs none
\* of the queued ones.
LEMMA SendCopyPreserves ==
    ASSUME IndInv, NEW s \in Senders, SendCopy(s)
    PROVE  IndInv'
<1>1. TypeOK'
  BY DEF IndInv, SendCopy, workerVars, stockVars, rosalinaVars, history,
         TypeOK
<1>2. RingInv'
  <2>1. ~Occupied(tail)
    BY QueueCountAssumption DEF IndInv, SendCopy, QueueFull, TypeOK,
       RingInv, Occupied, Slots
  <2>2. \A i \in Slots : i # tail => queue'[i] = queue[i]
    BY DEF IndInv, SendCopy, TypeOK
  <2>3. \A i \in Slots : Occupied(i)' => Occupied(i)
    BY DEF SendCopy, Occupied
  <2> QED
    BY <2>1, <2>2, <2>3 DEF IndInv, SendCopy, RingInv, WellFormed
<1>3. SenderInv'
  BY QueueCountAssumption
    DEF IndInv, SendCopy, QueueFull, TypeOK, SenderInv
<1>4. WorkerInv'
  BY QueueCountAssumption
    DEF IndInv, SendCopy, QueueFull, workerVars, rosalinaVars, TypeOK,
        RingInv, WorkerInv, HoldsSlot
<1>5. /\ PriorityInv' /\ AcceptedIsWellFormed' /\ StockHasPriority'
      /\ BusyPeriodCostsOneAttempt'
  BY DEF IndInv, SendCopy, workerVars, stockVars, history, PriorityInv,
         AcceptedIsWellFormed, StockHasPriority, BusyPeriodCostsOneAttempt
<1> QED
  BY <1>1, <1>2, <1>3, <1>4, <1>5 DEF IndInv

\* The ring grows by the copied message, which is well formed.
LEMMA SendCommitPreserves ==
    ASSUME IndInv, NEW s \in Senders, SendCommit(s)
    PROVE  IndInv'
<1>1. TypeOK'
  BY AdvanceValue, QueueCountAssumption, RetryAssumption, BoundAssumption
    DEF IndInv, SendCommit, workerVars, stockVars, rosalinaVars, history,
        TypeOK, SenderInv
<1>2. RingInv'
  <2>1. \A i \in Slots : Occupied(i)' => i = tail \/ Occupied(i)
    BY QueueCountAssumption
       DEF IndInv, SendCommit, TypeOK,
       RingInv, Occupied, Slots
  <2>2. \A i \in Slots : queue'[i] = IF i = tail THEN smsg[s] ELSE queue[i]
    BY DEF IndInv, SendCommit, TypeOK
  <2>3. tail' = IF head' + count' < QueueCount
                  THEN head' + count' ELSE head' + count' - QueueCount
    BY AdvanceValue, QueueCountAssumption
       DEF IndInv, SendCommit, SenderInv, TypeOK, RingInv, Slots
  <2> QED
    BY <2>1, <2>2, <2>3 DEF IndInv, SendCommit, SenderInv, RingInv, WellFormed
<1>3. SenderInv'
  BY NoneAssumption
    DEF IndInv, SendCommit, TypeOK, SenderInv
<1>4. WorkerInv'
  BY QueueCountAssumption
    DEF IndInv, SendCommit, workerVars, rosalinaVars, TypeOK, RingInv,
        SenderInv, WorkerInv, HoldsSlot
<1>5. /\ PriorityInv' /\ AcceptedIsWellFormed' /\ StockHasPriority'
      /\ BusyPeriodCostsOneAttempt'
  BY DEF IndInv, SendCommit, workerVars, stockVars, history, PriorityInv,
         AcceptedIsWellFormed, StockHasPriority, BusyPeriodCostsOneAttempt
<1> QED
  BY <1>1, <1>2, <1>3, <1>4, <1>5 DEF IndInv

\* Signalling touches the event alone.
LEMMA SendSignalPreserves ==
    ASSUME IndInv, NEW s \in Senders, SendSignal(s)
    PROVE  IndInv'
<1>1. TypeOK'
  BY DEF IndInv, SendSignal, ring, workerVars, stockVars, rosalinaVars,
         history, TypeOK
<1>2. SenderInv'
  BY DEF IndInv, SendSignal, ring, SenderInv
<1>3. /\ RingInv' /\ WorkerInv' /\ PriorityInv' /\ AcceptedIsWellFormed'
      /\ StockHasPriority' /\ BusyPeriodCostsOneAttempt'
  BY DEF IndInv, SendSignal, ring, workerVars, stockVars, rosalinaVars,
         history, RingInv, WorkerInv, PriorityInv, AcceptedIsWellFormed,
         StockHasPriority, BusyPeriodCostsOneAttempt, Occupied, HoldsSlot
<1> QED
  BY <1>1, <1>2, <1>3 DEF IndInv

\* The worker starts without a slot.
LEMMA StartBridgeWorkerPreserves ==
    ASSUME IndInv, NEW b \in BOOLEAN, StartBridgeWorker(b)
    PROVE  IndInv'
<1>1. TypeOK'
  BY DEF IndInv, StartBridgeWorker, ring, senderVars, stockVars, rosalinaVars,
         history, TypeOK
<1>2. WorkerInv'
  BY DEF IndInv, StartBridgeWorker, rosalinaVars, WorkerInv, HoldsSlot
<1>3. PriorityInv'
  BY DEF IndInv, StartBridgeWorker, stockVars, PriorityInv
<1>4. /\ RingInv' /\ SenderInv' /\ AcceptedIsWellFormed' /\ StockHasPriority'
      /\ BusyPeriodCostsOneAttempt'
  BY DEF IndInv, StartBridgeWorker, ring, senderVars, history, RingInv,
         SenderInv, AcceptedIsWellFormed, StockHasPriority,
         BusyPeriodCostsOneAttempt, Occupied
<1> QED
  BY <1>1, <1>2, <1>3, <1>4 DEF IndInv

\* The worker remembers the head of a queue that is not empty.
LEMMA BridgePeekPreserves ==
    ASSUME IndInv, BridgePeek
    PROVE  IndInv'
<1>1. TypeOK'
  BY DEF IndInv, BridgePeek, TypeOK, ring, senderVars, stockVars,
         rosalinaVars, history
<1>2. WorkerInv'
  BY DEF IndInv, BridgePeek, ring, rosalinaVars, TypeOK, WorkerInv, HoldsSlot
<1>3. PriorityInv'
  BY DEF IndInv, BridgePeek, stockVars, PriorityInv
<1>4. /\ RingInv' /\ SenderInv' /\ AcceptedIsWellFormed' /\ StockHasPriority'
      /\ BusyPeriodCostsOneAttempt'
  BY DEF IndInv, BridgePeek, ring, senderVars, history, RingInv, SenderInv,
         AcceptedIsWellFormed, StockHasPriority, BusyPeriodCostsOneAttempt,
         Occupied
<1> QED
  BY <1>1, <1>2, <1>3, <1>4 DEF IndInv

\* Past this look at the flag no attempt of this busy period has failed yet.
LEMMA CheckBusyPreserves ==
    ASSUME IndInv, CheckBusy
    PROVE  IndInv'
<1>1. TypeOK'
  BY DEF IndInv, CheckBusy, ring, senderVars, stockVars, rosalinaVars,
         history, TypeOK
<1>2. WorkerInv'
  BY DEF IndInv, CheckBusy, ring, rosalinaVars, WorkerInv, HoldsSlot
<1>3. PriorityInv'
  BY DEF IndInv, CheckBusy, stockVars, PriorityInv
<1>4. /\ RingInv' /\ SenderInv' /\ AcceptedIsWellFormed' /\ StockHasPriority'
      /\ BusyPeriodCostsOneAttempt'
  BY DEF IndInv, CheckBusy, ring, senderVars, history, RingInv, SenderInv,
         AcceptedIsWellFormed, StockHasPriority, BusyPeriodCostsOneAttempt,
         Occupied
<1> QED
  BY <1>1, <1>2, <1>3, <1>4 DEF IndInv

\* Waiting changes the event alone.
LEMMA WorkerWaitPreserves ==
    ASSUME IndInv, WorkerWait
    PROVE  IndInv'
<1>1. TypeOK'
  <2>1. event' \in BOOLEAN /\ wpc' = "peek"
    BY DEF WorkerWait
  <2>2. UNCHANGED <<ring, lock, ready, senderVars, windex, attempts, request,
                    status, stockVars, session, rosalinaVars, history>>
    BY DEF WorkerWait
  <2> QED
    BY <2>1, <2>2 DEF IndInv, TypeOK, ring, senderVars, stockVars,
       rosalinaVars, history
<1>2. WorkerInv'
  BY DEF IndInv, WorkerWait, rosalinaVars, WorkerInv, HoldsSlot
<1>3. PriorityInv'
  BY DEF IndInv, WorkerWait, stockVars, PriorityInv
<1>4. /\ RingInv' /\ SenderInv' /\ AcceptedIsWellFormed' /\ StockHasPriority'
      /\ BusyPeriodCostsOneAttempt'
  BY DEF IndInv, WorkerWait, ring, senderVars, history, RingInv, SenderInv,
         AcceptedIsWellFormed, StockHasPriority, BusyPeriodCostsOneAttempt,
         Occupied
<1> QED
  BY <1>1, <1>2, <1>3, <1>4 DEF IndInv

\* An attempt that meets the flag is the first that the busy period wastes.
LEMMA TrySendRecheckPreserves ==
    ASSUME IndInv, TrySendRecheck
    PROVE  IndInv'
<1>1. TypeOK'
  <2>1. UNCHANGED <<ring, lock, event, ready, senderVars, windex, attempts,
                    request, stockVars, session, rosalinaVars, delivered,
                    early, intrusions>>
    BY DEF TrySendRecheck
  <2>2. wpc' \in {"account", "connect"} /\ status' \in {status, "retry"}
    BY DEF TrySendRecheck
  <2>3. failures' \in [Messages -> Nat]
    <3>1. CASE busy
      BY <3>1, RecordFailureTypes DEF IndInv, TrySendRecheck
    <3>2. CASE ~busy
      BY <3>2 DEF IndInv, TrySendRecheck, TypeOK
    <3> QED
      BY <3>1, <3>2
  <2>4. wasted' \in Nat
    <3>1. CASE busy
      BY <3>1, RecordFailureTypes DEF IndInv, TrySendRecheck
    <3>2. CASE ~busy
      BY <3>2 DEF IndInv, TrySendRecheck, TypeOK
    <3> QED
      BY <3>1, <3>2
  <2> QED
    BY <2>1, <2>2, <2>3, <2>4 DEF IndInv, TypeOK, ring, senderVars, stockVars,
       rosalinaVars
<1>2. WorkerInv'
  BY DEF IndInv, TrySendRecheck, ring, rosalinaVars, WorkerInv, HoldsSlot
<1>3. PriorityInv'
  BY DEF IndInv, TrySendRecheck, stockVars, PriorityInv
<1>4. AcceptedIsWellFormed'
  BY DEF IndInv, TrySendRecheck, AcceptedIsWellFormed
<1>5. BusyPeriodCostsOneAttempt'
  BY DEF IndInv, TrySendRecheck, BusyPeriodCostsOneAttempt, PriorityInv,
         RecordFailure
<1>6. RingInv' /\ SenderInv' /\ StockHasPriority'
  BY DEF IndInv, TrySendRecheck, ring, senderVars, RingInv, SenderInv,
         StockHasPriority, Occupied
<1> QED
  BY <1>1, <1>2, <1>3, <1>4, <1>5, <1>6 DEF IndInv

\* A session opened during a stock connect is the first, since later attempts
\* meet the flag.
LEMMA TrySendConnectPreserves ==
    ASSUME IndInv, TrySendConnect
    PROVE  IndInv'
<1>1. TypeOK'
  BY DEF IndInv, TrySendConnect, TypeOK, ring, senderVars, stockVars,
         rosalinaVars, RecordFailure
<1>2. WorkerInv'
  BY DEF IndInv, TrySendConnect, ring, rosalinaVars, WorkerInv, HoldsSlot
<1>3. PriorityInv'
  BY DEF IndInv, TrySendConnect, stockVars, PriorityInv
<1>4. AcceptedIsWellFormed'
  BY DEF IndInv, TrySendConnect, AcceptedIsWellFormed
<1>5. StockHasPriority'
  BY DEF IndInv, TrySendConnect, StockHasPriority, PriorityInv
<1>6. BusyPeriodCostsOneAttempt'
  BY DEF IndInv, TrySendConnect, BusyPeriodCostsOneAttempt, PriorityInv,
         RecordFailure
<1>7. RingInv' /\ SenderInv'
  BY DEF IndInv, TrySendConnect, ring, senderVars, RingInv, SenderInv,
         Occupied
<1> QED
  BY <1>1, <1>2, <1>3, <1>4, <1>5, <1>6, <1>7 DEF IndInv

\* The request is the message of the slot, which no sender touches.
LEMMA TrySendMarshalPreserves ==
    ASSUME IndInv, TrySendMarshal
    PROVE  IndInv'
<1>1. TypeOK'
  BY DEF IndInv, TrySendMarshal, ring, senderVars, stockVars, rosalinaVars,
         history, TypeOK
<1>2. WorkerInv'
  BY DEF IndInv, TrySendMarshal, ring, WorkerInv, HoldsSlot
<1>3. PriorityInv'
  BY DEF IndInv, TrySendMarshal, stockVars, history, PriorityInv
<1>4. /\ RingInv' /\ SenderInv' /\ AcceptedIsWellFormed' /\ StockHasPriority'
      /\ BusyPeriodCostsOneAttempt'
  BY DEF IndInv, TrySendMarshal, ring, senderVars, history, RingInv,
         SenderInv, AcceptedIsWellFormed, StockHasPriority,
         BusyPeriodCostsOneAttempt, Occupied
<1> QED
  BY <1>1, <1>2, <1>3, <1>4 DEF IndInv

\* A failure after the flag went up is the first of its busy period.
LEMMA TrySendReplyPreserves ==
    ASSUME IndInv, TrySendReply
    PROVE  IndInv'
<1>1. TypeOK'
  BY DEF IndInv, TrySendReply, TypeOK, ring, senderVars, stockVars,
         rosalinaVars, RecordFailure
<1>2. WorkerInv'
  BY DEF IndInv, TrySendReply, ring, rosalinaVars, WorkerInv, HoldsSlot
<1>3. PriorityInv'
  BY DEF IndInv, TrySendReply, stockVars, PriorityInv
<1>4. BusyPeriodCostsOneAttempt'
  BY DEF IndInv, TrySendReply, BusyPeriodCostsOneAttempt, PriorityInv,
         RecordFailure
<1>5. RingInv' /\ SenderInv' /\ AcceptedIsWellFormed' /\ StockHasPriority'
  BY DEF IndInv, TrySendReply, ring, senderVars, RingInv, SenderInv,
         AcceptedIsWellFormed, StockHasPriority, Occupied
<1> QED
  BY <1>1, <1>2, <1>3, <1>4, <1>5 DEF IndInv

\* The attempt counter stays below its limit.
LEMMA WorkerAccountPreserves ==
    ASSUME IndInv, WorkerAccount
    PROVE  IndInv'
<1>1. TypeOK'
  BY RetryAssumption
    DEF IndInv, WorkerAccount, Finished, ring, senderVars, stockVars,
        rosalinaVars, history, TypeOK
<1>2. WorkerInv'
  BY DEF IndInv, WorkerAccount, ring, rosalinaVars, WorkerInv, HoldsSlot
<1>3. PriorityInv'
  BY DEF IndInv, WorkerAccount, stockVars, PriorityInv
<1>4. AcceptedIsWellFormed'
  BY DEF IndInv, WorkerAccount, AcceptedIsWellFormed
<1>5. /\ RingInv' /\ SenderInv' /\ StockHasPriority'
      /\ BusyPeriodCostsOneAttempt'
  BY DEF IndInv, WorkerAccount, ring, senderVars, history, RingInv, SenderInv,
         StockHasPriority, BusyPeriodCostsOneAttempt, Occupied
<1> QED
  BY <1>1, <1>2, <1>3, <1>4, <1>5 DEF IndInv

\* The ring shrinks at its head and keeps its other messages.
LEMMA BridgePopPreserves ==
    ASSUME IndInv, BridgePop
    PROVE  IndInv'
<1>1. TypeOK'
  <2>1. queue[windex] \in Messages
    BY DEF IndInv, BridgePop, TypeOK, WorkerInv, RingInv, Occupied, HoldsSlot
  <2>2. head' = Advance(head) /\ count' = count - 1 /\ count > 0
    BY DEF IndInv, BridgePop, WorkerInv, HoldsSlot
  <2>3. head' \in Slots /\ count' \in 0 .. QueueCount
    BY <2>2, AdvanceValue, QueueCountAssumption DEF IndInv, TypeOK
  <2>4. attempts' \in 0 .. RetryCount - 1
    BY RetryAssumption DEF BridgePop
  <2>5. early' \subseteq Messages
    BY <2>1 DEF IndInv, BridgePop, TypeOK
  <2> QED
    BY <2>3, <2>4, <2>5 DEF IndInv, BridgePop, TypeOK, ring, senderVars,
       stockVars, rosalinaVars, history
<1>2. RingInv'
  <2>1. count' = count - 1 /\ count > 0 /\ tail' = tail /\ queue' = queue
    BY DEF IndInv, BridgePop, WorkerInv, HoldsSlot
  <2>2. head' = IF head + 1 = QueueCount THEN 0 ELSE head + 1
    BY AdvanceValue DEF IndInv, BridgePop, WorkerInv, HoldsSlot, TypeOK
  <2>3. head \in 0 .. QueueCount - 1 /\ count \in 0 .. QueueCount
    BY DEF IndInv, TypeOK, Slots
  <2>4. ASSUME NEW i \in Slots, Occupied(i)' PROVE Occupied(i)
    BY <2>4, <2>1, <2>2, <2>3, QueueCountAssumption DEF Occupied, Slots
  <2>5. tail' = IF head' + count' < QueueCount
                  THEN head' + count' ELSE head' + count' - QueueCount
    BY <2>1, <2>2, <2>3, QueueCountAssumption DEF IndInv, RingInv
  <2> QED
    BY <2>1, <2>4, <2>5 DEF IndInv, RingInv, WellFormed
<1>3. SenderInv'
  BY NoneAssumption
    DEF IndInv, BridgePop, senderVars, SenderInv, LockFree
<1>4. WorkerInv'
  BY DEF IndInv, BridgePop, rosalinaVars, WorkerInv, HoldsSlot
<1>5. PriorityInv'
  BY DEF IndInv, BridgePop, stockVars, PriorityInv
<1>6. AcceptedIsWellFormed'
  BY DEF IndInv, BridgePop, AcceptedIsWellFormed
<1>7. StockHasPriority' /\ BusyPeriodCostsOneAttempt'
  BY DEF IndInv, BridgePop, StockHasPriority, BusyPeriodCostsOneAttempt
<1> QED
  BY <1>1, <1>2, <1>3, <1>4, <1>5, <1>6, <1>7 DEF IndInv

\* A busy period begins with no session opened and no attempt wasted.
LEMMA StockInitPreserves ==
    ASSUME IndInv, StockInit
    PROVE  IndInv'
<1>1. TypeOK'
  BY RetryAssumption, BoundAssumption
    DEF IndInv, StockInit, ring, senderVars, workerVars, rosalinaVars, TypeOK
<1>2. PriorityInv'
  BY RetryAssumption
    DEF IndInv, StockInit, PriorityInv
<1>3. StockHasPriority'
  BY DEF IndInv, StockInit, StockHasPriority
<1>4. BusyPeriodCostsOneAttempt'
  BY DEF IndInv, StockInit, BusyPeriodCostsOneAttempt
<1>5. RingInv' /\ SenderInv' /\ WorkerInv' /\ AcceptedIsWellFormed'
  BY DEF IndInv, StockInit, ring, senderVars, workerVars, rosalinaVars,
         RingInv, SenderInv, WorkerInv, AcceptedIsWellFormed, Occupied,
         HoldsSlot
<1> QED
  BY <1>1, <1>2, <1>3, <1>4, <1>5 DEF IndInv

\* Stock Loader takes the free session.
LEMMA StockConnectPreserves ==
    ASSUME IndInv, StockConnect
    PROVE  IndInv'
<1>1. TypeOK'
  BY DEF IndInv, StockConnect, ring, senderVars, workerVars, rosalinaVars,
         history, TypeOK
<1>2. PriorityInv'
  BY DEF IndInv, StockConnect, workerVars, history, PriorityInv
<1>3. /\ RingInv' /\ SenderInv' /\ WorkerInv' /\ AcceptedIsWellFormed'
      /\ StockHasPriority' /\ BusyPeriodCostsOneAttempt'
  BY DEF IndInv, StockConnect, ring, senderVars, workerVars, rosalinaVars,
         history, RingInv, SenderInv, WorkerInv, AcceptedIsWellFormed,
         StockHasPriority, BusyPeriodCostsOneAttempt, Occupied, HoldsSlot
<1> QED
  BY <1>1, <1>2, <1>3 DEF IndInv

\* The retries end with the last one allowed.
LEMMA StockPortFullPreserves ==
    ASSUME IndInv, StockPortFull
    PROVE  IndInv'
<1>1. TypeOK'
  <2>1. tries' \in 0 .. InitRetries
    BY RetryAssumption DEF IndInv, StockPortFull, PriorityInv, TypeOK
  <2>2. busy' \in BOOLEAN /\ event' \in BOOLEAN
    BY DEF IndInv, StockPortFull, TypeOK
  <2> QED
    BY <2>1, <2>2 DEF IndInv, StockPortFull, TypeOK, ring, senderVars,
       workerVars, rosalinaVars, history
<1>2. PriorityInv'
  BY DEF IndInv, StockPortFull, workerVars, history, PriorityInv
<1>3. /\ RingInv' /\ SenderInv' /\ WorkerInv' /\ AcceptedIsWellFormed'
      /\ StockHasPriority' /\ BusyPeriodCostsOneAttempt'
  BY DEF IndInv, StockPortFull, ring, senderVars, workerVars, rosalinaVars,
         history, RingInv, SenderInv, WorkerInv, AcceptedIsWellFormed,
         StockHasPriority, BusyPeriodCostsOneAttempt, Occupied, HoldsSlot
<1> QED
  BY <1>1, <1>2, <1>3 DEF IndInv

\* Closing the session keeps the flag up.
LEMMA StockClosePreserves ==
    ASSUME IndInv, StockClose
    PROVE  IndInv'
<1>1. TypeOK'
  BY DEF IndInv, StockClose, ring, senderVars, workerVars, rosalinaVars,
         history, TypeOK
<1>2. PriorityInv'
  BY DEF IndInv, StockClose, workerVars, history, PriorityInv
<1>3. /\ RingInv' /\ SenderInv' /\ WorkerInv' /\ AcceptedIsWellFormed'
      /\ StockHasPriority' /\ BusyPeriodCostsOneAttempt'
  BY DEF IndInv, StockClose, ring, senderVars, workerVars, rosalinaVars,
         history, RingInv, SenderInv, WorkerInv, AcceptedIsWellFormed,
         StockHasPriority, BusyPeriodCostsOneAttempt, Occupied, HoldsSlot
<1> QED
  BY <1>1, <1>2, <1>3 DEF IndInv

\* The flag goes down after the session is closed.
LEMMA BridgeStockClosedPreserves ==
    ASSUME IndInv, BridgeStockClosed
    PROVE  IndInv'
<1>1. TypeOK'
  <2>1. busy' \in BOOLEAN
    BY DEF BridgeStockClosed
  <2> QED
    BY <2>1 DEF IndInv, BridgeStockClosed, TypeOK, ring, senderVars,
       workerVars, rosalinaVars, history
<1>2. PriorityInv'
  BY DEF IndInv, BridgeStockClosed, PriorityInv
<1>3. /\ RingInv' /\ SenderInv' /\ WorkerInv' /\ AcceptedIsWellFormed'
      /\ StockHasPriority' /\ BusyPeriodCostsOneAttempt'
  BY DEF IndInv, BridgeStockClosed, ring, senderVars, workerVars,
         rosalinaVars, history, RingInv, SenderInv, WorkerInv,
         AcceptedIsWellFormed, StockHasPriority, BusyPeriodCostsOneAttempt,
         Occupied, HoldsSlot
<1> QED
  BY <1>1, <1>2, <1>3 DEF IndInv

\* Waking the worker touches the event alone.
LEMMA BridgeStockWakePreserves ==
    ASSUME IndInv, BridgeStockWake
    PROVE  IndInv'
<1>1. TypeOK'
  BY DEF IndInv, BridgeStockWake, ring, senderVars, workerVars, rosalinaVars,
         history, TypeOK
<1>2. PriorityInv'
  BY DEF IndInv, BridgeStockWake, PriorityInv
<1>3. /\ RingInv' /\ SenderInv' /\ WorkerInv' /\ AcceptedIsWellFormed'
      /\ StockHasPriority' /\ BusyPeriodCostsOneAttempt'
  BY DEF IndInv, BridgeStockWake, ring, senderVars, workerVars, rosalinaVars,
         history, RingInv, SenderInv, WorkerInv, AcceptedIsWellFormed,
         StockHasPriority, BusyPeriodCostsOneAttempt, Occupied, HoldsSlot
<1> QED
  BY <1>1, <1>2, <1>3 DEF IndInv

\* Rosalina coming up touches no queue.
LEMMA RosalinaStepPreserves ==
    ASSUME IndInv, RosalinaStep
    PROVE  IndInv'
<1>1. TypeOK'
  BY DEF IndInv, RosalinaStep, ring, senderVars, workerVars, stockVars,
         history, TypeOK
<1>2. /\ RingInv' /\ SenderInv' /\ WorkerInv' /\ PriorityInv'
      /\ AcceptedIsWellFormed' /\ StockHasPriority'
      /\ BusyPeriodCostsOneAttempt'
  BY DEF IndInv, RosalinaStep, ring, senderVars, workerVars, stockVars,
         history, RingInv, SenderInv, WorkerInv, PriorityInv,
         AcceptedIsWellFormed, StockHasPriority, BusyPeriodCostsOneAttempt,
         Occupied, HoldsSlot
<1> QED
  BY <1>1, <1>2 DEF IndInv

\* Registering touches the registry alone.
LEMMA RegisterBridgeReceiverPreserves ==
    ASSUME IndInv, NEW t \in Targets, RegisterBridgeReceiver(t)
    PROVE  IndInv'
<1>1. TypeOK'
  BY BoundAssumption
    DEF IndInv, RegisterBridgeReceiver, ring, senderVars, workerVars,
        stockVars, history, TypeOK
<1>2. /\ RingInv' /\ SenderInv' /\ WorkerInv' /\ PriorityInv'
      /\ AcceptedIsWellFormed' /\ StockHasPriority'
      /\ BusyPeriodCostsOneAttempt'
  BY DEF IndInv, RegisterBridgeReceiver, ring, senderVars, workerVars,
         stockVars, history, RingInv, SenderInv, WorkerInv, PriorityInv,
         AcceptedIsWellFormed, StockHasPriority, BusyPeriodCostsOneAttempt,
         Occupied, HoldsSlot
<1> QED
  BY <1>1, <1>2 DEF IndInv

\* Unregistering touches the registry alone.
LEMMA UnregisterBridgeReceiverPreserves ==
    ASSUME IndInv, NEW t \in Targets, UnregisterBridgeReceiver(t)
    PROVE  IndInv'
<1>1. TypeOK'
  BY BoundAssumption
    DEF IndInv, UnregisterBridgeReceiver, ring, senderVars, workerVars,
        stockVars, history, TypeOK
<1>2. /\ RingInv' /\ SenderInv' /\ WorkerInv' /\ PriorityInv'
      /\ AcceptedIsWellFormed' /\ StockHasPriority'
      /\ BusyPeriodCostsOneAttempt'
  BY DEF IndInv, UnregisterBridgeReceiver, ring, senderVars, workerVars,
         stockVars, history, RingInv, SenderInv, WorkerInv, PriorityInv,
         AcceptedIsWellFormed, StockHasPriority, BusyPeriodCostsOneAttempt,
         Occupied, HoldsSlot
<1> QED
  BY <1>1, <1>2 DEF IndInv

\* The stock handler answers a pending request once.
LEMMA StockHandlerAnswersPreserves ==
    ASSUME IndInv, StockHandlerAnswers
    PROVE  IndInv'
<1>1. TypeOK'
  BY DEF IndInv, StockHandlerAnswers, ring, senderVars, stockVars,
         rosalinaVars, history, TypeOK
<1>2. WorkerInv'
  BY DEF IndInv, StockHandlerAnswers, ring, rosalinaVars, WorkerInv,
         HoldsSlot, RequestPending
<1>3. AcceptedIsWellFormed'
  BY DEF IndInv, StockHandlerAnswers, AcceptedIsWellFormed
<1>4. /\ RingInv' /\ SenderInv' /\ PriorityInv' /\ StockHasPriority'
      /\ BusyPeriodCostsOneAttempt'
  BY DEF IndInv, StockHandlerAnswers, ring, senderVars, stockVars, history,
         RingInv, SenderInv, PriorityInv, StockHasPriority,
         BusyPeriodCostsOneAttempt, Occupied
<1> QED
  BY <1>1, <1>2, <1>3, <1>4 DEF IndInv

\* A pending request is well formed, so it is not dropped.
LEMMA DispatchLookupPreserves ==
    ASSUME IndInv, DispatchLookup
    PROVE  IndInv'
<1>1. TypeOK'
  BY DEF IndInv, DispatchLookup, ring, senderVars, stockVars, history, TypeOK
<1>2. WorkerInv'
  BY DEF IndInv, DispatchLookup, ring, WorkerInv, HoldsSlot, RequestPending
<1>3. AcceptedIsWellFormed'
  BY DEF IndInv, DispatchLookup, AcceptedIsWellFormed, RequestPending,
         WorkerInv, RingInv, HoldsSlot, Occupied, TypeOK
<1>4. /\ RingInv' /\ SenderInv' /\ PriorityInv' /\ StockHasPriority'
      /\ BusyPeriodCostsOneAttempt'
  BY DEF IndInv, DispatchLookup, ring, senderVars, stockVars, history,
         RingInv, SenderInv, PriorityInv, StockHasPriority,
         BusyPeriodCostsOneAttempt, Occupied
<1> QED
  BY <1>1, <1>2, <1>3, <1>4 DEF IndInv

\* A callback answers the request it was called for.
LEMMA DispatchCallbackPreserves ==
    ASSUME IndInv, NEW b \in BOOLEAN, DispatchCallback(b)
    PROVE  IndInv'
<1>1. TypeOK'
  BY DEF IndInv, DispatchCallback, ring, senderVars, stockVars, TypeOK,
         RingInv, WorkerInv, Occupied, HoldsSlot
<1>2. WorkerInv'
  BY DEF IndInv, DispatchCallback, ring, WorkerInv, HoldsSlot
<1>3. AcceptedIsWellFormed'
  BY DEF IndInv, DispatchCallback, AcceptedIsWellFormed
<1>4. /\ RingInv' /\ SenderInv' /\ PriorityInv' /\ StockHasPriority'
      /\ BusyPeriodCostsOneAttempt'
  BY DEF IndInv, DispatchCallback, ring, senderVars, stockVars, RingInv,
         SenderInv, PriorityInv, StockHasPriority, BusyPeriodCostsOneAttempt,
         Occupied
<1> QED
  BY <1>1, <1>2, <1>3, <1>4 DEF IndInv

\* Freeing the port touches the session alone.
LEMMA ReapSessionPreserves ==
    ASSUME IndInv, ReapSession
    PROVE  IndInv'
<1>1. TypeOK'
  BY DEF IndInv, ReapSession, ring, senderVars, workerVars, stockVars,
         rosalinaVars, history, TypeOK
<1>2. /\ RingInv' /\ SenderInv' /\ WorkerInv' /\ PriorityInv'
      /\ AcceptedIsWellFormed' /\ StockHasPriority'
      /\ BusyPeriodCostsOneAttempt'
  BY DEF IndInv, ReapSession, ring, senderVars, workerVars, stockVars,
         rosalinaVars, history, RingInv, SenderInv, WorkerInv, PriorityInv,
         AcceptedIsWellFormed, StockHasPriority, BusyPeriodCostsOneAttempt,
         Occupied, HoldsSlot
<1> QED
  BY <1>1, <1>2 DEF IndInv

-----------------------------------------------------------------------------
(* From the actions to the specification *)

\* The program starts in a state of the inductive invariant.
LEMMA InitEstablishes == Init => IndInv
<1> SUFFICES ASSUME Init PROVE IndInv
  OBVIOUS
<1>1. TypeOK
  <2>1. event \in BOOLEAN /\ busy \in BOOLEAN /\ ready \in BOOLEAN
    BY DEF Init
  <2>2. /\ queue \in [Slots -> Messages \cup {None}]
        /\ smsg \in [Senders -> Messages \cup {None}]
        /\ failures \in [Messages -> Nat]
    BY DEF Init
  <2>3. spc \in [Senders -> {"idle", "locked", "copying", "signal"}]
    BY DEF Init
  <2>4. delivered \in Seq(Messages)
    BY DEF Init
  <2> QED
    BY <2>1, <2>2, <2>3, <2>4, QueueCountAssumption, RetryAssumption,
       BoundAssumption DEF Init, TypeOK, Slots
<1>2. RingInv
  BY QueueCountAssumption DEF Init, RingInv, Occupied, Slots
<1>3. SenderInv
  BY NoneAssumption DEF Init, SenderInv
<1>4. WorkerInv
  BY DEF Init, WorkerInv, HoldsSlot
<1>5. PriorityInv
  BY DEF Init, PriorityInv
<1>6. AcceptedIsWellFormed /\ StockHasPriority /\ BusyPeriodCostsOneAttempt
  BY DEF Init, AcceptedIsWellFormed, StockHasPriority, BusyPeriodCostsOneAttempt
<1> QED
  BY <1>1, <1>2, <1>3, <1>4, <1>5, <1>6 DEF IndInv

\* Every step of the program, and every stutter, keeps the invariant.
LEMMA StepPreserves == IndInv /\ [Next]_vars => IndInv'
<1> SUFFICES ASSUME IndInv, [Next]_vars PROVE IndInv'
  OBVIOUS
<1>1. ASSUME NEW s \in Senders, SenderNext(s) PROVE IndInv'
  <2>1. ASSUME NEW m \in Messages, SendRefuse(s, m) \/ SendLock(s, m)
        PROVE  IndInv'
    BY <2>1, SendRefusePreserves, SendLockPreserves
  <2>2. CASE SenderSteps(s)
    BY <2>2, SendFullPreserves, SendCopyPreserves, SendCommitPreserves,
       SendSignalPreserves DEF SenderSteps
  <2> QED
    BY <1>1, <2>1, <2>2 DEF SenderNext
<1>2. CASE WorkerNext
  BY <1>2, StartBridgeWorkerPreserves, BridgePeekPreserves,
     CheckBusyPreserves, WorkerWaitPreserves, TrySendRecheckPreserves,
     TrySendConnectPreserves, TrySendMarshalPreserves, TrySendReplyPreserves,
     WorkerAccountPreserves, BridgePopPreserves DEF WorkerNext
<1>3. CASE StockInit \/ StockSteps
  BY <1>3, StockInitPreserves, StockConnectPreserves, StockPortFullPreserves,
     StockClosePreserves, BridgeStockClosedPreserves,
     BridgeStockWakePreserves DEF StockSteps
<1>4. CASE RosalinaStep \/ RegistryNext
  BY <1>4, RosalinaStepPreserves, RegisterBridgeReceiverPreserves,
     UnregisterBridgeReceiverPreserves DEF RegistryNext
<1>5. CASE DispatchNext \/ ReapSession
  BY <1>5, StockHandlerAnswersPreserves, DispatchLookupPreserves,
     DispatchCallbackPreserves, ReapSessionPreserves DEF DispatchNext
<1>6. CASE UNCHANGED vars
  <2>1. TypeOK'
    BY <1>6 DEF IndInv, TypeOK, vars, ring, senderVars, workerVars, stockVars,
       rosalinaVars, history
  <2>2. RingInv' /\ SenderInv'
    BY <1>6 DEF IndInv, RingInv, SenderInv, Occupied, WellFormed, vars, ring,
       senderVars
  <2>3. WorkerInv' /\ PriorityInv'
    BY <1>6 DEF IndInv, WorkerInv, PriorityInv, HoldsSlot, vars, ring,
       workerVars, stockVars, rosalinaVars, history
  <2>4. (AcceptedIsWellFormed /\ StockHasPriority /\ BusyPeriodCostsOneAttempt)'
    BY <1>6 DEF IndInv, AcceptedIsWellFormed, StockHasPriority,
       BusyPeriodCostsOneAttempt, vars, workerVars, history
  <2> QED
    BY <2>1, <2>2, <2>3, <2>4 DEF IndInv
<1> QED
  BY <1>1, <1>2, <1>3, <1>4, <1>5, <1>6 DEF Next

\* The inductive invariant holds throughout every behaviour of the bridge.
THEOREM BridgeInvariant == Spec => []IndInv
  BY InitEstablishes, StepPreserves, PTL DEF Spec

-----------------------------------------------------------------------------
(* What follows from it, for every number of senders, messages and slots *)

\* Every variable keeps its type: the indices of g_MENUBridgeQueue stay inside
\* the array and the attempt counter below its limit.
THEOREM TypeCorrect == Spec => []TypeOK
<1>1. IndInv => TypeOK
  BY DEF IndInv
<1> QED
  BY <1>1, BridgeInvariant, PTL

\* BridgeTrySend may read its slot without g_MENUBridgeQueueLock: no
\* BridgeSend writes to that slot between BridgePeek and BridgePop.
THEOREM SlotsAreStable == Spec => []NoTornRead
<1>1. IndInv => NoTornRead
  <2> SUFFICES ASSUME IndInv, HoldsSlot,
                      NEW s \in Senders, spc[s] = "copying", tail = windex
               PROVE  FALSE
    BY DEF NoTornRead
  <2>1. windex = head /\ count > 0 /\ count < QueueCount
    BY DEF IndInv, WorkerInv, SenderInv
  <2>2. tail # head
    BY <2>1, QueueCountAssumption DEF IndInv, RingInv, TypeOK, Slots
  <2> QED
    BY <2>1, <2>2
<1> QED
  BY <1>1, BridgeInvariant, PTL

\* PLUGIN_MENU_PlgldrInitHandler never competes with more than one bridge session
\* for the single plg:ldr session, and costs the queue at most one attempt.
THEOREM StockFirst == Spec => []StockComesFirst
<1>1. IndInv => StockComesFirst
  BY DEF IndInv, StockComesFirst
<1> QED
  BY <1>1, BridgeInvariant, PTL

\* The dispatcher of Rosalina drops nothing that BridgeSend has accepted.
THEOREM AcceptedWellFormed == Spec => []AcceptedIsWellFormed
<1>1. IndInv => AcceptedIsWellFormed
  BY DEF IndInv
<1> QED
  BY <1>1, BridgeInvariant, PTL

-----------------------------------------------------------------------------
(***************************************************************************)
(* A message pays for its own attempts only.                               *)
(*                                                                         *)
(* The worker's one counter says how often the message at the head of the  *)
(* queue has failed, and nothing else in the queue has failed yet.  That   *)
(* needs each message to be in one place only: in one slot, or with one    *)
(* sender, or nowhere.  AttemptsInv says so; it is inductive together with *)
(* IndInv.                                                                 *)
(***************************************************************************)

\* The sender has taken the lock and has not yet put its message in the queue.
Sending(s) == spc[s] \in {"locked", "copying"}

\* No message is queued twice, and none is queued that a sender still holds.
Once ==
    /\ \A i, j \in Slots :
           Occupied(i) /\ Occupied(j) /\ queue[i] = queue[j] => i = j
    /\ \A s \in Senders : Sending(s) =>
           smsg[s] \in offered /\ \A i \in Slots : Occupied(i) => queue[i] # smsg[s]
    /\ \A i \in Slots : Occupied(i) => queue[i] \in offered

\* Only the message at the head of the queue may have failed before.
Untried ==
    /\ \A m \in Messages \ offered : failures[m] = 0
    /\ \A s \in Senders : Sending(s) => failures[smsg[s]] = 0
    /\ \A i \in Slots : Occupied(i) /\ i # head => failures[queue[i]] = 0

\* The attempts charged to the head: the counter, and the failure that the
\* worker has seen and not counted.
Charged == IF status = "retry" /\ wpc \in {"account", "pop"}
             THEN attempts + 1 ELSE attempts

HeadPays == IF count = 0 THEN attempts = 0 ELSE failures[queue[head]] = Charged

GivenUpLast == wpc = "pop" /\ status = "retry" => attempts + 1 = RetryCount

WithinLimit == \A m \in Messages : failures[m] <= RetryCount

AttemptsInv == Once /\ Untried /\ HeadPays /\ GivenUpLast /\ WithinLimit

-----------------------------------------------------------------------------
(* Helpers *)

\* The lock has one holder, so no two senders hold a message at once.
LEMMA OneSends ==
    ASSUME IndInv, NEW s \in Senders, NEW t \in Senders, Sending(s), Sending(t)
    PROVE  s = t
  BY DEF IndInv, SenderInv, Sending

\* The head of a queue that is not empty is one of its messages.
LEMMA HeadIsQueued ==
    ASSUME IndInv, count > 0
    PROVE  /\ head \in Slots /\ Occupied(head)
           /\ queue[head] \in Messages
  BY DEF IndInv, TypeOK, RingInv, Occupied, Slots

\* While the worker relies on a slot, that slot is the head.
LEMMA WorkersSlot ==
    ASSUME IndInv, HoldsSlot
    PROVE  windex = head /\ count > 0
  BY DEF IndInv, WorkerInv

\* A step that leaves the queue, the senders' messages and all counters alone
\* keeps the invariant.
LEMMA UntouchedPreserves ==
    ASSUME AttemptsInv,
           UNCHANGED <<queue, head, count, smsg, offered, attempts, failures>>,
           \A s \in Senders : Sending(s)' => Sending(s),
           Charged' = Charged, GivenUpLast'
    PROVE  AttemptsInv'
<1>1. \A i \in Slots : Occupied(i)' <=> Occupied(i)
  BY DEF Occupied
<1>2. Once'
  BY <1>1 DEF AttemptsInv, Once
<1>3. Untried'
  BY <1>1 DEF AttemptsInv, Untried
<1>4. HeadPays' /\ WithinLimit'
  BY DEF AttemptsInv, HeadPays, WithinLimit
<1> QED
  BY <1>2, <1>3, <1>4 DEF AttemptsInv

\* A failed attempt is charged to the head, which has paid less than its limit.
LEMMA FailurePreserves ==
    ASSUME IndInv, AttemptsInv, RecordFailure, HoldsSlot,
           UNCHANGED <<queue, head, count, spc, smsg, offered, attempts>>,
           wpc # "pop", Charged = attempts,
           wpc' = "account", status' = "retry"
    PROVE  AttemptsInv'
<1>1. count > 0 /\ windex = head
  BY WorkersSlot
<1>2. head \in Slots /\ Occupied(head) /\ queue[head] \in Messages
  BY <1>1, HeadIsQueued
<1>3. failures \in [Messages -> Nat]
  BY DEF IndInv, TypeOK
<1>4. /\ failures'[queue[head]] = failures[queue[head]] + 1
      /\ \A m \in Messages : m # queue[head] => failures'[m] = failures[m]
  BY <1>1, <1>2, <1>3 DEF RecordFailure
<1>5. \A i \in Slots : Occupied(i)' <=> Occupied(i)
  BY DEF Occupied
<1>6. \A i \in Slots : Occupied(i) => queue[i] \in Messages
  BY DEF IndInv, RingInv
<1>7. Once'
  BY <1>5 DEF AttemptsInv, Once, Sending
<1>8. Untried'
  <2>1. \A m \in Messages \ offered' : failures'[m] = 0
    BY <1>2, <1>4 DEF AttemptsInv, Untried, Once
  <2>2. \A s \in Senders : Sending(s)' => failures'[smsg'[s]] = 0
    <3> SUFFICES ASSUME NEW s \in Senders, Sending(s)
                 PROVE  failures'[smsg[s]] = 0
      BY DEF Sending
    <3>1. smsg[s] \in Messages
      BY DEF IndInv, SenderInv, Sending
    <3>2. smsg[s] # queue[head]
      BY <1>2 DEF AttemptsInv, Once
    <3> QED
      BY <3>1, <3>2, <1>4 DEF AttemptsInv, Untried
  <2>3. \A i \in Slots : Occupied(i)' /\ i # head' => failures'[queue'[i]] = 0
    <3> SUFFICES ASSUME NEW i \in Slots, Occupied(i), i # head
                 PROVE  failures'[queue[i]] = 0
      BY <1>5
    <3>1. queue[i] # queue[head] /\ queue[i] \in Messages
      BY <1>2, <1>6 DEF AttemptsInv, Once
    <3> QED
      BY <3>1, <1>4 DEF AttemptsInv, Untried
  <2> QED
    BY <2>1, <2>2, <2>3 DEF Untried
<1>9. failures[queue[head]] = attempts /\ attempts \in 0 .. RetryCount - 1
  BY <1>1 DEF IndInv, TypeOK, AttemptsInv, HeadPays
<1>10. HeadPays'
  BY <1>1, <1>4, <1>9 DEF HeadPays, Charged
<1>11. WithinLimit'
  <2> SUFFICES ASSUME NEW m \in Messages PROVE failures'[m] <= RetryCount
    BY DEF WithinLimit
  <2> QED
    BY <1>4, <1>9, RetryAssumption DEF AttemptsInv, WithinLimit
<1>12. GivenUpLast'
  BY DEF GivenUpLast
<1> QED
  BY <1>7, <1>8, <1>10, <1>11, <1>12 DEF AttemptsInv

-----------------------------------------------------------------------------
(* The steps of a sender *)

\* A refused message has never been tried.
LEMMA SendRefuseKeeps ==
    ASSUME IndInv, AttemptsInv, NEW s \in Senders, NEW m \in Messages,
           SendRefuse(s, m)
    PROVE  AttemptsInv'
<1>1. /\ UNCHANGED <<queue, head, count, spc, smsg, wpc, status, attempts,
                      failures>>
      /\ offered' = offered \cup {m}
  BY DEF SendRefuse, ring, workerVars, history
<1>2. Once'
  BY <1>1 DEF AttemptsInv, Once, Sending, Occupied
<1>3. Untried'
  BY <1>1 DEF AttemptsInv, Untried, Sending, Occupied
<1>4. HeadPays' /\ GivenUpLast' /\ WithinLimit'
  BY <1>1 DEF AttemptsInv, HeadPays, Charged, GivenUpLast, WithinLimit
<1> QED
  BY <1>2, <1>3, <1>4 DEF AttemptsInv

\* A message that is offered now is in no slot and has never been tried.
LEMMA SendLockKeeps ==
    ASSUME IndInv, AttemptsInv, NEW s \in Senders, NEW m \in Messages,
           SendLock(s, m)
    PROVE  AttemptsInv'
<1>1. /\ UNCHANGED <<queue, head, count, wpc, status, attempts, failures>>
      /\ offered' = offered \cup {m} /\ m \notin offered
  BY DEF SendLock, ring, workerVars, history
<1>2. \A t \in Senders : Sending(t)' => t = s
  <2> SUFFICES ASSUME NEW t \in Senders, Sending(t)', t # s PROVE FALSE
    OBVIOUS
  <2>1. spc'[t] = spc[t]
    BY DEF IndInv, TypeOK, SendLock
  <2>2. lock = t
    BY <2>1 DEF IndInv, SenderInv, Sending
  <2> QED
    BY <2>2, NoneAssumption DEF SendLock, LockFree
<1>3. smsg'[s] = m
  BY DEF IndInv, TypeOK, SendLock
<1>4. \A i \in Slots : Occupied(i)' <=> Occupied(i)
  BY <1>1 DEF Occupied
<1>5. Once'
  BY <1>1, <1>2, <1>3, <1>4 DEF AttemptsInv, Once
<1>6. Untried'
  BY <1>1, <1>2, <1>3, <1>4 DEF AttemptsInv, Untried
<1>7. HeadPays' /\ GivenUpLast' /\ WithinLimit'
  BY <1>1 DEF AttemptsInv, HeadPays, Charged, GivenUpLast, WithinLimit
<1> QED
  BY <1>5, <1>6, <1>7 DEF AttemptsInv

\* A message that finds the queue full is dropped by its sender.
LEMMA SendFullKeeps ==
    ASSUME IndInv, AttemptsInv, NEW s \in Senders, SendFull(s)
    PROVE  AttemptsInv'
<1>1. /\ UNCHANGED <<queue, head, count, offered, wpc, status, attempts,
                      failures>>
      /\ spc' = [spc EXCEPT ![s] = "idle"]
      /\ smsg' = [smsg EXCEPT ![s] = None]
  BY DEF SendFull, ring, workerVars, history
<1>2. \A t \in Senders : Sending(t)' => Sending(t) /\ smsg'[t] = smsg[t]
  BY <1>1 DEF IndInv, TypeOK, Sending
<1>3. \A i \in Slots : Occupied(i)' <=> Occupied(i)
  BY <1>1 DEF Occupied
<1>4. Once'
  BY <1>1, <1>2, <1>3 DEF AttemptsInv, Once
<1>5. Untried'
  BY <1>1, <1>2, <1>3 DEF AttemptsInv, Untried
<1>6. HeadPays' /\ GivenUpLast' /\ WithinLimit'
  BY <1>1 DEF AttemptsInv, HeadPays, Charged, GivenUpLast, WithinLimit
<1> QED
  BY <1>4, <1>5, <1>6 DEF AttemptsInv

\* The slot that is overwritten holds no queued message.
LEMMA SendCopyKeeps ==
    ASSUME IndInv, AttemptsInv, NEW s \in Senders, SendCopy(s)
    PROVE  AttemptsInv'
<1>1. /\ UNCHANGED <<head, count, smsg, offered, wpc, status, attempts,
                      failures>>
      /\ spc[s] = "locked" /\ spc' = [spc EXCEPT ![s] = "copying"]
  BY DEF SendCopy, workerVars, history
<1>2. \A t \in Senders : Sending(t)' => Sending(t)
  BY <1>1 DEF IndInv, TypeOK, Sending
<1>3. \A i \in Slots : Occupied(i)' <=> Occupied(i)
  BY <1>1 DEF Occupied
<1>4. \A i \in Slots : Occupied(i) => queue'[i] = queue[i]
  <2>1. ~Occupied(tail)
    BY QueueCountAssumption DEF IndInv, SendCopy, QueueFull, TypeOK,
       RingInv, Occupied, Slots
  <2>2. \A i \in Slots : i # tail => queue'[i] = queue[i]
    BY DEF IndInv, SendCopy, TypeOK
  <2> QED
    BY <2>1, <2>2
<1>5. Once'
  BY <1>1, <1>2, <1>3, <1>4 DEF AttemptsInv, Once
<1>6. Untried'
  BY <1>1, <1>2, <1>3, <1>4 DEF AttemptsInv, Untried
<1>7. HeadPays'
  <2>1. CASE count = 0
    BY <1>1, <2>1 DEF AttemptsInv, HeadPays
  <2>2. CASE count # 0
    <3>1. queue'[head] = queue[head]
      BY <2>2, <1>4, HeadIsQueued DEF IndInv, TypeOK
    <3> QED
      BY <1>1, <2>2, <3>1 DEF AttemptsInv, HeadPays, Charged
  <2> QED
    BY <2>1, <2>2
<1>8. GivenUpLast' /\ WithinLimit'
  BY <1>1 DEF AttemptsInv, GivenUpLast, WithinLimit
<1> QED
  BY <1>5, <1>6, <1>7, <1>8 DEF AttemptsInv

\* The message moves from its sender to the slot behind the last one.
LEMMA SendCommitKeeps ==
    ASSUME IndInv, AttemptsInv, NEW s \in Senders, SendCommit(s)
    PROVE  AttemptsInv'
<1>1. /\ UNCHANGED <<head, smsg, offered, wpc, status, attempts, failures>>
      /\ spc[s] = "copying" /\ spc' = [spc EXCEPT ![s] = "signal"]
      /\ count' = count + 1
  BY DEF SendCommit, workerVars, history
<1>2. \A t \in Senders : ~Sending(t)'
  <2> SUFFICES ASSUME NEW t \in Senders, Sending(t)' PROVE FALSE
    OBVIOUS
  <2>1. t # s /\ Sending(t)
    BY <1>1 DEF IndInv, TypeOK, Sending
  <2>2. Sending(s)
    BY <1>1 DEF Sending
  <2> QED
    BY <2>1, <2>2, OneSends
<1>3. tail \in Slots /\ ~Occupied(tail) /\ count < QueueCount
  BY <1>1, QueueCountAssumption
     DEF IndInv, SenderInv, TypeOK, RingInv, Occupied, Slots
<1>4. \A i \in Slots : Occupied(i)' => i = tail \/ Occupied(i)
  BY <1>1, QueueCountAssumption DEF IndInv, TypeOK, RingInv, Occupied, Slots
<1>5. \A i \in Slots : queue'[i] = IF i = tail THEN smsg[s] ELSE queue[i]
  BY DEF IndInv, SendCommit, TypeOK
<1>6. /\ smsg[s] \in offered /\ failures[smsg[s]] = 0
      /\ \A i \in Slots : Occupied(i) => queue[i] # smsg[s]
  BY <1>1 DEF AttemptsInv, Once, Untried, Sending
<1>7. Once'
  BY <1>1, <1>2, <1>4, <1>5, <1>6 DEF AttemptsInv, Once
<1>8. Untried'
  BY <1>1, <1>2, <1>4, <1>5, <1>6 DEF AttemptsInv, Untried
<1>9. HeadPays'
  <2>1. CASE count = 0
    <3>1. tail = head /\ head \in Slots
      BY <2>1, QueueCountAssumption DEF IndInv, RingInv, TypeOK, Slots
    <3>2. Charged = 0 /\ Charged' = Charged
      BY <1>1, <2>1 DEF IndInv, WorkerInv, HoldsSlot, AttemptsInv, HeadPays,
         Charged
    <3>3. count' # 0
      BY <1>1, <2>1
    <3> QED
      BY <1>1, <1>5, <1>6, <3>1, <3>2, <3>3 DEF HeadPays
  <2>2. CASE count # 0
    <3>1. head \in Slots /\ Occupied(head)
      BY <2>2, HeadIsQueued DEF IndInv, TypeOK
    <3>2. queue'[head] = queue[head]
      BY <3>1, <1>3, <1>5
    <3>3. count' # 0
      BY <1>1, QueueCountAssumption DEF IndInv, TypeOK
    <3> QED
      BY <1>1, <2>2, <3>2, <3>3 DEF AttemptsInv, HeadPays, Charged
  <2> QED
    BY <2>1, <2>2
<1>10. GivenUpLast' /\ WithinLimit'
  BY <1>1 DEF AttemptsInv, GivenUpLast, WithinLimit
<1> QED
  BY <1>7, <1>8, <1>9, <1>10 DEF AttemptsInv

\* A sender that signals holds no message any more.
LEMMA SendSignalKeeps ==
    ASSUME IndInv, AttemptsInv, NEW s \in Senders, SendSignal(s)
    PROVE  AttemptsInv'
<1>1. /\ UNCHANGED <<queue, head, count, offered, wpc, status, attempts,
                      failures>>
      /\ spc' = [spc EXCEPT ![s] = "idle"]
      /\ smsg' = [smsg EXCEPT ![s] = None]
  BY DEF SendSignal, ring, workerVars, history
<1>2. \A t \in Senders : Sending(t)' => Sending(t) /\ smsg'[t] = smsg[t]
  BY <1>1 DEF IndInv, TypeOK, Sending
<1>3. \A i \in Slots : Occupied(i)' <=> Occupied(i)
  BY <1>1 DEF Occupied
<1>4. Once'
  BY <1>1, <1>2, <1>3 DEF AttemptsInv, Once
<1>5. Untried'
  BY <1>1, <1>2, <1>3 DEF AttemptsInv, Untried
<1>6. HeadPays' /\ GivenUpLast' /\ WithinLimit'
  BY <1>1 DEF AttemptsInv, HeadPays, Charged, GivenUpLast, WithinLimit
<1> QED
  BY <1>4, <1>5, <1>6 DEF AttemptsInv

-----------------------------------------------------------------------------
(* The steps of the worker *)

\* A failed attempt is charged to the head, whether the flag, the port or the
\* answer made it fail.
LEMMA TrySendKeeps ==
    ASSUME IndInv, AttemptsInv, TrySendRecheck \/ TrySendConnect \/ TrySendReply
    PROVE  AttemptsInv'
<1>1. /\ UNCHANGED <<queue, head, count, spc, smsg, offered, attempts>>
      /\ wpc \in {"trySend", "connect", "await"} /\ HoldsSlot
      /\ Charged = attempts
  BY DEF TrySendRecheck, TrySendConnect, TrySendReply, ring, senderVars,
     HoldsSlot, Charged
<1>2. CASE wpc' = "account" /\ status' = "retry"
  <2>1. RecordFailure
    BY <1>2 DEF IndInv, WorkerInv, TrySendRecheck, TrySendConnect, TrySendReply
  <2> QED
    BY <1>1, <1>2, <2>1, FailurePreserves
<1>3. CASE ~(wpc' = "account" /\ status' = "retry")
  <2>1. UNCHANGED failures /\ wpc' # "pop"
    BY <1>3 DEF TrySendRecheck, TrySendConnect, TrySendReply
  <2>2. Charged' = Charged /\ GivenUpLast'
    BY <1>1, <1>3, <2>1 DEF Charged, GivenUpLast
  <2>3. \A s \in Senders : Sending(s)' => Sending(s)
    BY <1>1 DEF Sending
  <2> QED
    BY <1>1, <2>1, <2>2, <2>3, UntouchedPreserves
<1> QED
  BY <1>2, <1>3

\* Counting a failure moves it from the status to the counter; the worker stops
\* trying when the counter would reach its limit, and not before.
LEMMA WorkerAccountKeeps ==
    ASSUME IndInv, AttemptsInv, WorkerAccount
    PROVE  AttemptsInv'
<1>1. /\ UNCHANGED <<queue, head, count, spc, smsg, offered, failures>>
      /\ wpc = "account" /\ count > 0
  BY DEF IndInv, WorkerAccount, WorkerInv, HoldsSlot, ring, senderVars, history
<1>2. attempts \in 0 .. RetryCount - 1
  BY DEF IndInv, TypeOK
<1>3. Charged' = Charged
  BY <1>1 DEF WorkerAccount, Finished, Charged
<1>4. GivenUpLast'
  BY <1>1, <1>2, RetryAssumption DEF WorkerAccount, Finished, GivenUpLast
<1>5. \A i \in Slots : Occupied(i)' <=> Occupied(i)
  BY <1>1 DEF Occupied
<1>6. Once' /\ Untried'
  BY <1>1, <1>5 DEF AttemptsInv, Once, Untried, Sending
<1>7. HeadPays' /\ WithinLimit'
  BY <1>1, <1>3 DEF AttemptsInv, HeadPays, WithinLimit
<1> QED
  BY <1>4, <1>6, <1>7 DEF AttemptsInv

\* The next message starts with a counter of its own.
LEMMA BridgePopKeeps ==
    ASSUME IndInv, AttemptsInv, BridgePop
    PROVE  AttemptsInv'
<1>1. /\ UNCHANGED <<queue, spc, smsg, offered, failures>>
      /\ count > 0 /\ count' = count - 1 /\ head' = Advance(head)
      /\ attempts' = 0 /\ status' = "none" /\ wpc' = "peek"
  BY DEF IndInv, BridgePop, WorkerInv, HoldsSlot, senderVars
<1>2. head \in 0 .. QueueCount - 1 /\ count \in 0 .. QueueCount
  BY DEF IndInv, TypeOK, Slots
<1>3. head' = IF head + 1 = QueueCount THEN 0 ELSE head + 1
  BY <1>1, AdvanceValue DEF IndInv, TypeOK
<1>4. \A i \in Slots : Occupied(i)' => Occupied(i) /\ i # head
  BY <1>1, <1>2, <1>3, QueueCountAssumption DEF Occupied, Slots
<1>5. Once'
  BY <1>1, <1>4 DEF AttemptsInv, Once, Sending
<1>6. Untried'
  BY <1>1, <1>4 DEF AttemptsInv, Untried, Sending
<1>7. HeadPays'
  <2>1. CASE count' = 0
    BY <1>1, <2>1 DEF HeadPays
  <2>2. CASE count' # 0
    <3>1. head' \in Slots
      BY <1>2, <1>3, QueueCountAssumption DEF Slots
    <3>2. Occupied(head') /\ head' # head
      BY <1>1, <1>2, <1>3, <2>2, QueueCountAssumption DEF Occupied, Slots
    <3>3. failures[queue[head']] = 0
      BY <3>1, <3>2 DEF AttemptsInv, Untried
    <3> QED
      BY <1>1, <2>2, <3>3 DEF HeadPays, Charged
  <2> QED
    BY <2>1, <2>2
<1>8. GivenUpLast' /\ WithinLimit'
  BY <1>1 DEF AttemptsInv, GivenUpLast, WithinLimit
<1> QED
  BY <1>5, <1>6, <1>7, <1>8 DEF AttemptsInv

\* The other steps of the worker touch neither a message nor a counter.
LEMMA WorkerRestKeeps ==
    ASSUME IndInv, AttemptsInv,
           \/ \E b \in BOOLEAN : StartBridgeWorker(b)
           \/ BridgePeek \/ CheckBusy \/ WorkerWait \/ TrySendMarshal
    PROVE  AttemptsInv'
<1>1. /\ UNCHANGED <<queue, head, count, spc, smsg, offered, attempts,
                      failures, status>>
      /\ wpc \notin {"account", "pop"} /\ wpc' \notin {"account", "pop"}
  BY DEF StartBridgeWorker, BridgePeek, CheckBusy, WorkerWait, TrySendMarshal,
     ring, senderVars, history
<1>2. Charged' = Charged /\ GivenUpLast'
  BY <1>1 DEF Charged, GivenUpLast
<1>3. \A s \in Senders : Sending(s)' => Sending(s)
  BY <1>1 DEF Sending
<1> QED
  BY <1>1, <1>2, <1>3, UntouchedPreserves

-----------------------------------------------------------------------------
(* The steps of stock Loader and of Rosalina *)

\* They touch the messages and counters of neither a sender nor the worker.
LEMMA StockKeeps ==
    ASSUME IndInv, AttemptsInv, StockInit \/ StockSteps
    PROVE  AttemptsInv'
<1>1. UNCHANGED <<queue, head, count, spc, smsg, offered, attempts, failures,
                  status, wpc>>
  BY DEF StockInit, StockSteps, StockConnect, StockPortFull, StockClose,
     BridgeStockClosed, BridgeStockWake, ring, senderVars, workerVars, history
<1>2. Charged' = Charged /\ GivenUpLast'
  BY <1>1 DEF AttemptsInv, Charged, GivenUpLast
<1>3. \A s \in Senders : Sending(s)' => Sending(s)
  BY <1>1 DEF Sending
<1> QED
  BY <1>1, <1>2, <1>3, UntouchedPreserves

\* An answer of Rosalina waits for the worker to record it.
LEMMA RosalinaKeeps ==
    ASSUME IndInv, AttemptsInv,
           RosalinaStep \/ RegistryNext \/ DispatchNext \/ ReapSession
    PROVE  AttemptsInv'
<1>1. UNCHANGED <<queue, head, count, spc, smsg, offered, attempts, failures,
                  wpc>>
  BY DEF RosalinaStep, RegistryNext, RegisterBridgeReceiver,
     UnregisterBridgeReceiver, DispatchNext, StockHandlerAnswers,
     DispatchLookup, DispatchCallback, ReapSession, ring, senderVars,
     workerVars, history
<1>2. status' = status \/ wpc \notin {"account", "pop"}
  BY DEF IndInv, WorkerInv, RosalinaStep, RegistryNext, RegisterBridgeReceiver,
     UnregisterBridgeReceiver, DispatchNext, StockHandlerAnswers,
     DispatchLookup, DispatchCallback, RequestPending, ReapSession, workerVars
<1>3. Charged' = Charged /\ GivenUpLast'
  BY <1>1, <1>2 DEF AttemptsInv, Charged, GivenUpLast
<1>4. \A s \in Senders : Sending(s)' => Sending(s)
  BY <1>1 DEF Sending
<1> QED
  BY <1>1, <1>3, <1>4, UntouchedPreserves

-----------------------------------------------------------------------------
(* From the steps to the specification *)

\* Nothing is queued or tried when the program starts.
LEMMA InitAttempts == Init => AttemptsInv
<1> SUFFICES ASSUME Init PROVE AttemptsInv
  OBVIOUS
<1>1. \A i \in Slots : ~Occupied(i)
  BY QueueCountAssumption DEF Init, Occupied, Slots
<1>2. Once /\ Untried
  BY <1>1 DEF Init, Once, Untried, Sending
<1>3. HeadPays /\ GivenUpLast
  BY DEF Init, HeadPays, GivenUpLast
<1>4. WithinLimit
  <2>1. \A m \in Messages : failures[m] = 0
    BY DEF Init
  <2>2. 0 <= RetryCount
    BY RetryAssumption
  <2> QED
    BY <2>1, <2>2 DEF WithinLimit
<1> QED
  BY <1>2, <1>3, <1>4 DEF AttemptsInv

\* Every step of the program, and every stutter, keeps the invariant.
LEMMA StepKeepsAttempts == IndInv /\ AttemptsInv /\ [Next]_vars => AttemptsInv'
<1> SUFFICES ASSUME IndInv, AttemptsInv, [Next]_vars PROVE AttemptsInv'
  OBVIOUS
<1>1. ASSUME NEW s \in Senders, SenderNext(s) PROVE AttemptsInv'
  <2>1. ASSUME NEW m \in Messages, SendRefuse(s, m) \/ SendLock(s, m)
        PROVE  AttemptsInv'
    BY <2>1, SendRefuseKeeps, SendLockKeeps
  <2>2. CASE SenderSteps(s)
    BY <2>2, SendFullKeeps, SendCopyKeeps, SendCommitKeeps, SendSignalKeeps
       DEF SenderSteps
  <2> QED
    BY <1>1, <2>1, <2>2 DEF SenderNext
<1>2. CASE WorkerNext
  BY <1>2, TrySendKeeps, WorkerAccountKeeps, BridgePopKeeps, WorkerRestKeeps
     DEF WorkerNext
<1>3. CASE StockInit \/ StockSteps
  BY <1>3, StockKeeps
<1>4. CASE RosalinaStep \/ RegistryNext \/ DispatchNext \/ ReapSession
  BY <1>4, RosalinaKeeps
<1>5. CASE UNCHANGED vars
  <2>1. UNCHANGED <<queue, head, count, spc, smsg, offered, attempts, failures,
                    status, wpc>>
    BY <1>5 DEF vars, ring, senderVars, workerVars, history
  <2>2. Charged' = Charged /\ GivenUpLast'
    BY <2>1 DEF AttemptsInv, Charged, GivenUpLast
  <2>3. \A s \in Senders : Sending(s)' => Sending(s)
    BY <2>1 DEF Sending
  <2> QED
    BY <2>1, <2>2, <2>3, UntouchedPreserves
<1> QED
  BY <1>1, <1>2, <1>3, <1>4, <1>5 DEF Next

\* BridgeWorker charges a failed attempt to the message it tried and to no other,
\* and gives a message up with its last allowed attempt, not before: for every
\* RetryCount, and whatever the receivers answer.
THEOREM EachPaysForItself == Spec => []OwnAttemptsOnly
<1>1. IndInv /\ AttemptsInv => OwnAttemptsOnly
  <2> SUFFICES ASSUME IndInv, AttemptsInv PROVE OwnAttemptsOnly
    OBVIOUS
  <2>1. \A m \in Messages : failures[m] <= RetryCount
    BY DEF AttemptsInv, WithinLimit
  <2>2. ASSUME wpc = "pop", status = "retry"
        PROVE  failures[queue[windex]] = RetryCount
    <3>1. windex = head /\ count > 0
      BY <2>2, WorkersSlot DEF HoldsSlot
    <3> QED
      BY <2>2, <3>1 DEF AttemptsInv, HeadPays, Charged, GivenUpLast
  <2> QED
    BY <2>1, <2>2 DEF OwnAttemptsOnly
<1>2. Spec => [](IndInv /\ AttemptsInv)
  BY InitEstablishes, StepPreserves, InitAttempts, StepKeepsAttempts, PTL
     DEF Spec
<1> QED
  BY <1>1, <1>2, PTL

-----------------------------------------------------------------------------
(***************************************************************************)
(* The bridge implements BridgeChannel: with ring, lock, worker, ports and *)
(* retries hidden it is a FIFO of at most QueueCount messages.             *)
(*                                                                         *)
(* Contents is the ring as a sequence.  The first lemmas show how the      *)
(* three operations on the ring change that sequence; the others map each  *)
(* step of Bridge to Accept, Deliver, GiveUp or a stutter.                 *)
(***************************************************************************)

\* What a step of the bridge may do to the channel.
ChannelStep == [Channel!ChanNext]_Channel!chanVars

-----------------------------------------------------------------------------
(* The ring as a sequence *)

\* The modulus of a value that wraps at most once.
LEMMA WrapValue ==
    ASSUME NEW a \in 0 .. 2 * QueueCount - 1
    PROVE  a % QueueCount = IF a < QueueCount THEN a ELSE a - QueueCount
  BY QueueCountAssumption

\* The slot of the i-th message is occupied, and its index needs no modulus.
LEMMA SlotOf ==
    ASSUME IndInv, NEW i \in 1 .. count
    PROVE  /\ (head + i - 1) % QueueCount \in Slots
           /\ Occupied((head + i - 1) % QueueCount)
           /\ (head + i - 1) % QueueCount =
                  IF head + i - 1 < QueueCount THEN head + i - 1
                                               ELSE head + i - 1 - QueueCount
<1>1. /\ head \in 0 .. QueueCount - 1 /\ count \in 0 .. QueueCount
      /\ QueueCount \in Nat \ {0}
  BY QueueCountAssumption DEF IndInv, TypeOK, Slots
<1> DEFINE a == head + i - 1
<1>2. a \in 0 .. 2 * QueueCount - 1
  BY <1>1
<1>3. a % QueueCount = IF a < QueueCount THEN a ELSE a - QueueCount
  <2> HIDE DEF a
  <2> QED
    BY <1>2, WrapValue
<1>4. a % QueueCount \in Slots /\ Occupied(a % QueueCount)
  BY <1>1, <1>3 DEF Slots, Occupied
<1> QED
  BY <1>1, <1>3, <1>4

\* The ring holds a sequence of count messages.
LEMMA ContentsIsSeq ==
    ASSUME IndInv
    PROVE  /\ Contents \in Seq(Messages)
           /\ Len(Contents) = count
           /\ \A i \in 1 .. count : Contents[i] = queue[(head + i - 1) % QueueCount]
<1>1. count \in Nat
  BY QueueCountAssumption DEF IndInv, TypeOK
<1>2. \A i \in 1 .. count : queue[(head + i - 1) % QueueCount] \in Messages
  BY SlotOf DEF IndInv, RingInv
<1>3. Contents \in [1 .. count -> Messages]
  BY <1>2 DEF Contents
<1>4. Contents \in Seq(Messages)
  BY <1>1, <1>3
<1>5. DOMAIN Contents = 1 .. count
  BY DEF Contents
<1> QED
  BY <1>1, <1>4, <1>5, LenProperties DEF Contents

\* The first message of the sequence is the one at the head.
LEMMA HeadOfContents ==
    ASSUME IndInv, count > 0
    PROVE  Contents # <<>> /\ Head(Contents) = queue[head]
<1>1. 1 \in 1 .. count /\ head \in Nat /\ head < QueueCount
  BY QueueCountAssumption DEF IndInv, TypeOK, Slots
<1>2. (head + 1 - 1) % QueueCount = head
  BY <1>1, SlotOf
<1>3. Contents[1] = queue[head]
  BY <1>1, <1>2, ContentsIsSeq
<1>4. Contents # <<>>
  BY <1>1, ContentsIsSeq
<1> QED
  BY <1>3, <1>4, ContentsIsSeq

\* A step that leaves the queued slots alone leaves the sequence alone.
LEMMA ContentsUnchanged ==
    ASSUME IndInv, UNCHANGED <<head, count>>,
           \A i \in Slots : Occupied(i) => queue'[i] = queue[i]
    PROVE  Contents' = Contents
<1>1. \A i \in 1 .. count : queue'[(head + i - 1) % QueueCount]
                                = queue[(head + i - 1) % QueueCount]
  BY SlotOf
<1> QED
  BY <1>1 DEF Contents

\* SendCommit appends the sender's message.
LEMMA CommitAppends ==
    ASSUME IndInv, NEW s \in Senders, SendCommit(s)
    PROVE  /\ smsg[s] \in Messages /\ Len(Contents) < QueueCount
           /\ Contents' = Append(Contents, smsg[s])
<1> DEFINE c == Append(Contents, smsg[s])
<1>1. /\ smsg[s] \in Messages /\ count < QueueCount
      /\ head' = head /\ count' = count + 1 /\ count \in Nat
  BY QueueCountAssumption DEF IndInv, TypeOK, SendCommit, SenderInv
<1>2. /\ Contents \in Seq(Messages) /\ Len(Contents) = count
      /\ \A i \in 1 .. count : Contents[i] = queue[(head + i - 1) % QueueCount]
  BY ContentsIsSeq
<1>3. /\ c \in Seq(Messages) /\ Len(c) = count + 1
      /\ \A i \in 1 .. count : c[i] = Contents[i]
      /\ c[count + 1] = smsg[s]
  BY <1>1, <1>2
<1>4. DOMAIN c = 1 .. count + 1 /\ c = [i \in 1 .. count + 1 |-> c[i]]
  BY <1>1, <1>3, LenProperties
<1>5. tail \in Slots /\ ~Occupied(tail) /\ tail = (head + count) % QueueCount
  <2> DEFINE a == head + count
  <2>1. head \in 0 .. QueueCount - 1 /\ a \in 0 .. 2 * QueueCount - 1
    BY <1>1, QueueCountAssumption DEF IndInv, TypeOK, Slots
  <2>2. tail \in Slots /\ ~Occupied(tail)
    BY <1>1, <2>1, QueueCountAssumption
       DEF IndInv, TypeOK, RingInv, Occupied, Slots
  <2>3. a % QueueCount = IF a < QueueCount THEN a ELSE a - QueueCount
    <3> HIDE DEF a
    <3> QED
      BY <2>1, WrapValue
  <2>4. tail = IF a < QueueCount THEN a ELSE a - QueueCount
    BY <2>1, QueueCountAssumption DEF IndInv, RingInv, TypeOK
  <2> QED
    BY <2>2, <2>3, <2>4, Zenon
<1>6. ASSUME NEW i \in 1 .. count + 1
      PROVE  queue'[(head + i - 1) % QueueCount] = c[i]
  <2>1. CASE i = count + 1
    <3>1. head + i - 1 = head + count
      BY <2>1, <1>1 DEF IndInv, TypeOK, Slots
    <3>2. queue'[tail] = smsg[s]
      BY <1>5 DEF IndInv, TypeOK, SendCommit
    <3> QED
      BY <2>1, <3>1, <3>2, <1>3, <1>5
  <2>2. CASE i # count + 1
    <3>1. i \in 1 .. count
      BY <2>2, <1>1
    <3>2. /\ (head + i - 1) % QueueCount \in Slots
          /\ (head + i - 1) % QueueCount # tail
      BY <3>1, <1>5, SlotOf
    <3>3. queue'[(head + i - 1) % QueueCount] = queue[(head + i - 1) % QueueCount]
      BY <3>2 DEF IndInv, TypeOK, SendCommit
    <3> QED
      BY <3>1, <3>3, <1>2, <1>3
  <2> QED
    BY <2>1, <2>2
<1>7. Contents' = [i \in 1 .. count + 1 |-> queue'[(head + i - 1) % QueueCount]]
  BY <1>1 DEF Contents
<1> QED
  BY <1>1, <1>2, <1>4, <1>6, <1>7

\* BridgePop removes the first message.
LEMMA PopTakesTail ==
    ASSUME IndInv, BridgePop
    PROVE  Contents # <<>> /\ Contents' = Tail(Contents)
<1>1. /\ count > 0 /\ queue' = queue /\ head' = Advance(head)
      /\ count' = count - 1
  BY DEF IndInv, BridgePop, WorkerInv, HoldsSlot
<1>2. /\ head \in 0 .. QueueCount - 1 /\ count \in 1 .. QueueCount
      /\ QueueCount \in Nat \ {0}
  BY <1>1, QueueCountAssumption DEF IndInv, TypeOK, Slots
<1>3. /\ Contents \in Seq(Messages) /\ Len(Contents) = count /\ Contents # <<>>
      /\ \A i \in 1 .. count : Contents[i] = queue[(head + i - 1) % QueueCount]
  BY <1>1, ContentsIsSeq, HeadOfContents
<1>4. /\ Tail(Contents) \in Seq(Messages) /\ Len(Tail(Contents)) = count - 1
      /\ \A i \in 1 .. count - 1 : Tail(Contents)[i] = Contents[i + 1]
  BY <1>2, <1>3, HeadTailProperties
<1>5. Tail(Contents) = [i \in 1 .. count - 1 |-> Tail(Contents)[i]]
  BY <1>4, LenProperties
<1>6. ASSUME NEW i \in 1 .. count - 1
      PROVE  queue[(head' + i - 1) % QueueCount] = Tail(Contents)[i]
  <2>1. head' = IF head + 1 = QueueCount THEN 0 ELSE head + 1
    BY <1>1, AdvanceValue DEF IndInv, TypeOK
  <2>2. /\ head' + i - 1 \in 0 .. 2 * QueueCount - 1
        /\ head + (i + 1) - 1 \in 0 .. 2 * QueueCount - 1
    BY <1>2, <2>1
  <2>3. (head' + i - 1) % QueueCount = (head + (i + 1) - 1) % QueueCount
    BY <1>2, <2>1, <2>2, WrapValue
  <2>4. i + 1 \in 1 .. count
    BY <1>2
  <2> QED
    BY <2>3, <2>4, <1>3, <1>4
<1>7. Contents' = [i \in 1 .. count - 1 |-> queue[(head' + i - 1) % QueueCount]]
  BY <1>1 DEF Contents
<1> QED
  BY <1>3, <1>5, <1>6, <1>7

-----------------------------------------------------------------------------
(* The steps of the bridge as steps of the channel *)

\* A step that changes neither the queued messages nor what was delivered is
\* invisible in the channel.
LEMMA QuietStep ==
    ASSUME Contents' = Contents, UNCHANGED delivered,
           status' = "delivered" <=> status = "delivered"
    PROVE  ChannelStep
  BY DEF ChannelStep, Channel!chanVars

\* A step that touches neither the ring nor the answer is invisible.
LEMMA RingAlone ==
    ASSUME UNCHANGED <<queue, head, count, status, delivered>>
    PROVE  ChannelStep
<1>1. Contents' = Contents
  BY DEF Contents
<1> QED
  BY <1>1, QuietStep

\* SendCommit is the step at which the channel accepts a message.
LEMMA CommitAccepts ==
    ASSUME IndInv, NEW s \in Senders, SendCommit(s)
    PROVE  ChannelStep
<1>1. /\ UNCHANGED <<status, delivered>>
      /\ smsg[s] \in Messages /\ Len(Contents) < QueueCount
      /\ Contents' = Append(Contents, smsg[s]) /\ Contents \in Seq(Messages)
  BY CommitAppends, ContentsIsSeq DEF SendCommit, workerVars, history
<1>2. CASE status = "delivered"
  <2>1. Contents # <<>>
    BY <1>2, HeadOfContents DEF IndInv, WorkerInv, HoldsSlot
  <2>2. /\ Tail(Contents) \in Seq(Messages)
        /\ Len(Tail(Contents)) = Len(Contents) - 1
        /\ \A i \in 1 .. Len(Tail(Contents)) : Tail(Contents)[i] = Contents[i + 1]
    BY <1>1, <2>1, HeadTailProperties
  <2>3. Tail(Append(Contents, smsg[s])) = Append(Tail(Contents), smsg[s])
    BY <1>1, <2>1
  <2>4. Len(Tail(Contents)) < QueueCount
    BY <1>1, <2>2, QueueCountAssumption
  <2>5. Channel!Accept(smsg[s])
    BY <1>1, <1>2, <2>3, <2>4 DEF Channel!Accept
  <2> QED
    BY <1>1, <2>5 DEF ChannelStep, Channel!ChanNext
<1>3. CASE status # "delivered"
  <2>1. Channel!Accept(smsg[s])
    BY <1>1, <1>3 DEF Channel!Accept
  <2> QED
    BY <1>1, <2>1 DEF ChannelStep, Channel!ChanNext
<1> QED
  BY <1>2, <1>3

\* The other steps of a sender do not change a queued message.
LEMMA SenderIsQuiet ==
    ASSUME IndInv, NEW s \in Senders,
           \/ \E m \in Messages : SendRefuse(s, m) \/ SendLock(s, m)
           \/ SendFull(s) \/ SendCopy(s) \/ SendSignal(s)
    PROVE  ChannelStep
<1>1. CASE SendCopy(s)
  <2>1. UNCHANGED <<head, count, status, delivered>>
    BY <1>1 DEF SendCopy, workerVars, history
  <2>2. ~Occupied(tail)
    BY <1>1, QueueCountAssumption
       DEF IndInv, SendCopy, QueueFull, TypeOK, RingInv, Occupied, Slots
  <2>3. \A i \in Slots : Occupied(i) => queue'[i] = queue[i]
    BY <1>1, <2>2 DEF IndInv, TypeOK, SendCopy
  <2>4. Contents' = Contents
    BY <2>1, <2>3, ContentsUnchanged
  <2> QED
    BY <2>1, <2>4, QuietStep
<1>2. CASE ~SendCopy(s)
  BY <1>2, RingAlone
     DEF SendRefuse, SendLock, SendFull, SendSignal, ring, workerVars, history
<1> QED
  BY <1>1, <1>2

\* BridgePop gives the head up, or removes what was delivered before.
LEMMA PopGivesUp ==
    ASSUME IndInv, BridgePop
    PROVE  ChannelStep
<1>1. /\ Contents # <<>> /\ Contents' = Tail(Contents)
      /\ UNCHANGED delivered /\ status' = "none"
  BY PopTakesTail DEF BridgePop
<1>2. CASE status = "delivered"
  BY <1>1, <1>2 DEF ChannelStep, Channel!chanVars
<1>3. CASE status # "delivered"
  <2>1. Channel!GiveUp
    BY <1>1, <1>3 DEF Channel!GiveUp
  <2> QED
    BY <2>1 DEF ChannelStep, Channel!ChanNext
<1> QED
  BY <1>2, <1>3

\* Until the pop the worker leaves the ring and what was delivered alone, and
\* no answer turns into another.
LEMMA WorkerIsQuiet ==
    ASSUME IndInv,
           \/ \E b \in BOOLEAN : StartBridgeWorker(b)
           \/ BridgePeek \/ CheckBusy \/ WorkerWait \/ TrySendRecheck
           \/ TrySendConnect \/ TrySendMarshal \/ TrySendReply
           \/ WorkerAccount
    PROVE  ChannelStep
<1>1. UNCHANGED <<queue, head, count, delivered>>
  BY DEF StartBridgeWorker, BridgePeek, CheckBusy, WorkerWait, TrySendRecheck,
     TrySendConnect, TrySendMarshal, TrySendReply, WorkerAccount, ring, history
<1>2. status' = "delivered" <=> status = "delivered"
  BY DEF IndInv, WorkerInv, StartBridgeWorker, BridgePeek, CheckBusy,
     WorkerWait, TrySendRecheck, TrySendConnect, TrySendMarshal, TrySendReply,
     WorkerAccount, Finished
<1>3. Contents' = Contents
  BY <1>1 DEF Contents
<1> QED
  BY <1>1, <1>2, <1>3, QuietStep

\* A receiver that accepts the request consumes the head of the channel.
LEMMA CallbackDelivers ==
    ASSUME IndInv, NEW b \in BOOLEAN, DispatchCallback(b)
    PROVE  ChannelStep
<1>1. /\ UNCHANGED <<queue, head, count>> /\ status = "none"
      /\ wpc = "await" /\ request = queue[head] /\ count > 0
  BY DEF IndInv, WorkerInv, HoldsSlot, DispatchCallback, ring
<1>2. /\ Contents' = Contents /\ Contents # <<>>
      /\ Head(Contents) = queue[head]
  BY <1>1, HeadOfContents DEF Contents
<1>3. CASE b
  <2>1. Channel!Deliver
    BY <1>1, <1>2, <1>3 DEF DispatchCallback, Channel!Deliver
  <2> QED
    BY <2>1 DEF ChannelStep, Channel!ChanNext
<1>4. CASE ~b
  BY <1>1, <1>2, <1>4, QuietStep DEF DispatchCallback
<1> QED
  BY <1>3, <1>4

\* Every other step of stock Loader and of Rosalina is invisible.
LEMMA OthersAreQuiet ==
    ASSUME IndInv,
           \/ StockInit \/ StockSteps \/ RosalinaStep \/ RegistryNext
           \/ StockHandlerAnswers \/ DispatchLookup \/ ReapSession
    PROVE  ChannelStep
<1>1. UNCHANGED <<queue, head, count, delivered>>
  BY DEF StockInit, StockSteps, StockConnect, StockPortFull, StockClose,
     BridgeStockClosed, BridgeStockWake, RosalinaStep, RegistryNext,
     RegisterBridgeReceiver, UnregisterBridgeReceiver, StockHandlerAnswers,
     DispatchLookup, ReapSession, ring, history
<1>2. status' = "delivered" <=> status = "delivered"
  BY DEF StockInit, StockSteps, StockConnect, StockPortFull, StockClose,
     BridgeStockClosed, BridgeStockWake, RosalinaStep, RegistryNext,
     RegisterBridgeReceiver, UnregisterBridgeReceiver, StockHandlerAnswers,
     DispatchLookup, RequestPending, ReapSession, workerVars
<1>3. Contents' = Contents
  BY <1>1 DEF Contents
<1> QED
  BY <1>1, <1>2, <1>3, QuietStep

-----------------------------------------------------------------------------
(* The refinement *)

\* The channel is empty when the program starts.
LEMMA InitImplements == Init => Channel!ChanInit
<1> SUFFICES ASSUME Init PROVE Channel!ChanInit
  OBVIOUS
<1>1. IndInv /\ count = 0 /\ status = "none" /\ delivered = <<>>
  BY InitEstablishes DEF Init
<1>2. Contents \in Seq(Messages) /\ Len(Contents) = 0
  BY <1>1, ContentsIsSeq
<1>3. Contents = <<>>
  BY <1>2
<1> QED
  BY <1>1, <1>3 DEF Channel!ChanInit

\* Every step of the program is a step of the channel or a stutter.
LEMMA StepImplements == IndInv /\ [Next]_vars => ChannelStep
<1> SUFFICES ASSUME IndInv, [Next]_vars PROVE ChannelStep
  OBVIOUS
<1>1. ASSUME NEW s \in Senders, SenderNext(s) PROVE ChannelStep
  BY <1>1, SenderIsQuiet, CommitAccepts DEF SenderNext, SenderSteps
<1>2. CASE WorkerNext
  BY <1>2, WorkerIsQuiet, PopGivesUp DEF WorkerNext
<1>3. CASE StockInit \/ StockSteps \/ RosalinaStep \/ RegistryNext \/ ReapSession
  BY <1>3, OthersAreQuiet
<1>4. CASE DispatchNext
  BY <1>4, OthersAreQuiet, CallbackDelivers DEF DispatchNext
<1>5. CASE UNCHANGED vars
  BY <1>5, RingAlone DEF vars, ring, workerVars, history
<1> QED
  BY <1>1, <1>2, <1>3, <1>4, <1>5 DEF Next

\* BridgeSend, BridgeWorker and the dispatcher of Rosalina are together a bounded
\* FIFO that hands each accepted message over at most once and in order, whatever
\* retries, ports and busy periods do in between.
THEOREM BridgeIsChannel == Spec => ImplementsChannel
<1>1. Spec => [][Channel!ChanNext]_Channel!chanVars
  BY BridgeInvariant, StepImplements, PTL DEF Spec, ChannelStep
<1> QED
  BY <1>1, InitImplements, PTL DEF Spec, ImplementsChannel, Channel!ChanSpec
=============================================================================
