------------------------------- MODULE Bridge -------------------------------
(***************************************************************************)
(* The Loader -> Rosalina message bridge over the plg:ldr port.            *)
(*                                                                         *)
(* Loader side (menu_loader_bridge.c): callers of BridgeSend, the worker   *)
(* thread that drains the ring queue, and the stock Loader thread, whose   *)
(* own use of plg:ldr has priority.  Rosalina side (modmenu_bridge.c): the *)
(* receiver registry and the dispatcher on the plg:ldr service thread.     *)
(*                                                                         *)
(* The 100 ms and 1 ms sleeps are untimed: a timed wait may end at any     *)
(* moment.  A critical section that touches only what its lock protects is *)
(* one step; BridgeSend holds the lock over two, so that the copy into the *)
(* slot overlaps whatever reads a slot without the lock.                   *)
(***************************************************************************)
EXTENDS Naturals, Sequences

CONSTANTS
    Messages,       \* messages; each is offered to BridgeSend at most once
    Senders,        \* Loader threads that call BridgeSend
    Targets,        \* plugin ids of Rosalina receivers, all nonzero
    TargetOf,       \* the target id a message carries: in Targets, or NoTarget
    NoTarget,       \* target id 0
    PayloadOf,      \* the payload size of a message
    MaxPayload,     \* SYSPLUGIN_MENU_BRIDGE_MAX_PAYLOAD
    QueueCount,     \* MENU_BRIDGE_QUEUE_COUNT
    RetryCount,     \* MENU_BRIDGE_RETRY_COUNT
    InitRetries,    \* MENU_PLGLDR_RETRY_COUNT
    MaxLaunches,    \* bound: how many titles stock Loader starts
    MaxRegistryOps, \* bound: how often receivers register or unregister
    None            \* no message, no thread

ASSUME QueueCountAssumption == QueueCount \in Nat \ {0}
ASSUME RetryAssumption == RetryCount \in Nat \ {0} /\ InitRetries \in Nat \ {0}
ASSUME BoundAssumption == MaxLaunches \in Nat /\ MaxRegistryOps \in Nat
ASSUME NoneAssumption == None \notin Messages /\ None \notin Senders
ASSUME TargetAssumption == NoTarget \notin Targets
ASSUME MessageAssumption ==
    /\ TargetOf \in [Messages -> Targets \cup {NoTarget}]
    /\ PayloadOf \in [Messages -> Nat]
    /\ MaxPayload \in Nat

VARIABLES
    queue,      \* g_MENUBridgeQueue
    head,       \* g_MENUBridgeHead
    tail,       \* g_MENUBridgeTail
    count,      \* g_MENUBridgeCount
    lock,       \* holder of g_MENUBridgeQueueLock, or None
    event,      \* g_MENUBridgeEvent is signalled (RESET_ONESHOT)
    ready,      \* g_MENUBridgeReady
    busy,       \* g_MENUStockPlgldrBusy
    spc,        \* where each sender is in BridgeSend
    smsg,       \* the message each sender is sending
    wpc,        \* where the worker is in BridgeWorker and BridgeTrySend
    windex,     \* the worker's local "index"
    attempts,   \* the worker's local "attempts"
    request,    \* the message marshalled into the worker's command buffer
    status,     \* the status TrySend returns
    stpc,       \* where stock Loader is around its plg:ldr use
    tries,      \* port-full answers in PlgldrInitHandler's loop
    session,    \* who holds the only plg:ldr session
    rosalina,   \* "down": no port yet, "stock": port but no hook, "up"
    rpc,        \* where the dispatcher of Rosalina's service thread is
    registered, \* plugin ids in the receiver registry
    offered,    \* bookkeeping of the bound: messages given to BridgeSend
    launches,   \* bookkeeping of the bound: titles started
    regOps,     \* bookkeeping of the bound: registry operations
    delivered,  \* history: messages a receiver consumed, in order
    failures,   \* history: failed attempts per message
    early,      \* history: messages given up before Rosalina was up
    intrusions, \* history: bridge sessions opened during one stock connect
    wasted      \* history: attempts that failed during one busy period

ring == <<queue, head, tail, count>>
senderVars == <<spc, smsg, offered>>
workerVars == <<wpc, windex, attempts, request, status>>
stockVars == <<stpc, tries, launches, busy>>
rosalinaVars == <<rosalina, rpc, registered, regOps>>
history == <<delivered, failures, early, intrusions, wasted>>
vars == <<ring, lock, event, ready, senderVars, workerVars, stockVars,
          session, rosalinaVars, history>>

Slots == 0 .. QueueCount - 1
Advance(i) == (i + 1) % QueueCount
LockFreeIgnored == TRUE    \* mutant: the queue is used without its lock
LockFree == lock = None
LoaderAlive == stpc # "panic"

\* The limits BridgeSend puts on a message, and those of Rosalina's dispatcher.
\* (mutant MayQueueAnySize: the payload limit is not checked before queueing)
MayQueueAnySize(m) == TargetOf[m] # NoTarget
MayQueue(m) == TargetOf[m] # NoTarget /\ PayloadOf[m] <= MaxPayload
WellFormed(m) == TargetOf[m] # NoTarget /\ PayloadOf[m] <= MaxPayload
QueueFullLate == count > QueueCount    \* mutant: off by one
QueueFull == count >= QueueCount

Init ==
    /\ queue = [i \in Slots |-> None] /\ head = 0 /\ tail = 0 /\ count = 0
    /\ lock = None /\ event = FALSE /\ ready = FALSE /\ busy = FALSE
    /\ spc = [s \in Senders |-> "idle"] /\ smsg = [s \in Senders |-> None]
    /\ wpc = "unborn" /\ windex = 0 /\ attempts = 0
    /\ request = None /\ status = "none"
    /\ stpc = "idle" /\ tries = 0 /\ session = "none"
    /\ rosalina = "down" /\ rpc = "idle" /\ registered = {}
    /\ offered = {} /\ launches = 0 /\ regOps = 0
    /\ delivered = <<>> /\ failures = [m \in Messages |-> 0]
    /\ early = {} /\ intrusions = 0 /\ wasted = 0

\* PLUGIN_MENU_StartBridgeWorker, while MENU is loaded: event and thread, then
\* the ready flag.  When either cannot be created the bridge stays closed.
StartBridgeWorker(created) ==
    /\ wpc = "unborn"
    /\ wpc' = IF created THEN "peek" ELSE "failed"
    /\ ready' = created
    /\ UNCHANGED <<ring, lock, event, senderVars, windex, attempts, request,
                   status, stockVars, session, rosalinaVars, history>>

-----------------------------------------------------------------------------
(* PLUGIN_MENU_BridgeSend *)

\* The argument checks that do not need the lock, and their early return.
SendRefuse(s, m) ==
    /\ spc[s] = "idle" /\ m \notin offered
    /\ ~ready \/ ~MayQueue(m)
    /\ offered' = offered \cup {m}
    /\ UNCHANGED <<ring, lock, event, ready, spc, smsg, workerVars, stockVars,
                   session, rosalinaVars, history>>

SendLock(s, m) ==
    /\ spc[s] = "idle" /\ m \notin offered
    /\ ready /\ MayQueue(m)
    /\ LockFree
    /\ lock' = s
    /\ spc' = [spc EXCEPT ![s] = "locked"]
    /\ smsg' = [smsg EXCEPT ![s] = m]
    /\ offered' = offered \cup {m}
    /\ UNCHANGED <<ring, event, ready, workerVars, stockVars, session,
                   rosalinaVars, history>>

SendFull(s) ==
    /\ spc[s] = "locked" /\ QueueFull
    /\ lock' = None
    /\ spc' = [spc EXCEPT ![s] = "idle"]
    /\ smsg' = [smsg EXCEPT ![s] = None]
    /\ UNCHANGED <<ring, event, ready, offered, workerVars, stockVars,
                   session, rosalinaVars, history>>

\* The copy has started: until SendCommit the slot holds neither message.
SendCopy(s) ==
    /\ spc[s] = "locked" /\ ~QueueFull
    /\ queue' = [queue EXCEPT ![tail] = None]
    /\ spc' = [spc EXCEPT ![s] = "copying"]
    /\ UNCHANGED <<head, tail, count, lock, event, ready, smsg, offered,
                   workerVars, stockVars, session, rosalinaVars, history>>

SendCommit(s) ==
    /\ spc[s] = "copying"
    /\ queue' = [queue EXCEPT ![tail] = smsg[s]]
    /\ tail' = Advance(tail)
    /\ count' = count + 1
    /\ lock' = None
    /\ spc' = [spc EXCEPT ![s] = "signal"]
    /\ UNCHANGED <<head, event, ready, smsg, offered, workerVars, stockVars,
                   session, rosalinaVars, history>>

SendSignal(s) ==
    /\ spc[s] = "signal"
    /\ event' = TRUE
    /\ spc' = [spc EXCEPT ![s] = "idle"]
    /\ smsg' = [smsg EXCEPT ![s] = None]
    /\ UNCHANGED <<ring, lock, ready, offered, workerVars, stockVars, session,
                   rosalinaVars, history>>

-----------------------------------------------------------------------------
(* PLUGIN_MENU_BridgeWorker and PLUGIN_MENU_BridgeTrySend *)

BridgePeek ==
    /\ wpc = "peek" /\ LockFree
    /\ IF count = 0
         THEN wpc' = "waitEmpty" /\ UNCHANGED windex
         ELSE wpc' = "checkBusy" /\ windex' = head
    /\ UNCHANGED <<ring, lock, event, ready, senderVars, attempts, request,
                   status, stockVars, session, rosalinaVars, history>>

\* Mutant: the worker does not look at the flag before its attempt.
CheckBusyNever ==
    /\ wpc = "checkBusy" /\ wpc' = "trySend"
    /\ UNCHANGED <<ring, lock, event, ready, senderVars, windex, attempts,
                   request, status, stockVars, session, rosalinaVars, history>>

CheckBusy ==
    /\ wpc = "checkBusy"
    /\ wpc' = IF busy THEN "waitBusy" ELSE "trySend"
    /\ UNCHANGED <<ring, lock, event, ready, senderVars, windex, attempts,
                   request, status, stockVars, session, rosalinaVars, history>>

\* svcWaitSynchronization: consumes the one-shot event; only the wait between
\* two attempts has a time limit.
WorkerWait ==
    /\ \/ wpc \in {"waitEmpty", "waitBusy"} /\ event
       \/ wpc = "waitRetry"
    /\ event' = FALSE
    /\ wpc' = "peek"
    /\ UNCHANGED <<ring, lock, ready, senderVars, windex, attempts, request,
                   status, stockVars, session, rosalinaVars, history>>

\* What the history remembers of a failed attempt.
RecordFailure ==
    /\ failures' = [failures EXCEPT ![queue[windex]] = @ + 1]
    /\ wasted' = IF busy THEN wasted + 1 ELSE wasted

TrySendRecheck ==
    /\ wpc = "trySend"
    /\ IF busy
         THEN wpc' = "account" /\ status' = "retry" /\ RecordFailure
         ELSE wpc' = "connect" /\ UNCHANGED <<status, failures, wasted>>
    /\ UNCHANGED <<ring, lock, event, ready, senderVars, windex, attempts,
                   request, stockVars, session, rosalinaVars, delivered,
                   early, intrusions>>

\* svcConnectToPort fails without a port and when the session is taken.
TrySendConnect ==
    /\ wpc = "connect"
    /\ IF rosalina # "down" /\ session = "none"
         THEN /\ session' = "bridge"
              /\ wpc' = "marshal"
              /\ intrusions' = IF stpc = "connect" THEN intrusions + 1
                                                   ELSE intrusions
              /\ UNCHANGED <<status, failures, wasted>>
         ELSE /\ wpc' = "account" /\ status' = "retry" /\ RecordFailure
              /\ UNCHANGED <<session, intrusions>>
    /\ UNCHANGED <<ring, lock, event, ready, senderVars, windex, attempts,
                   request, stockVars, rosalinaVars, delivered, early>>

\* The slot is read into the command buffer without the queue lock.
TrySendMarshal ==
    /\ wpc = "marshal"
    /\ request' = queue[windex]
    /\ wpc' = "await"
    /\ UNCHANGED <<ring, lock, event, ready, senderVars, windex, attempts,
                   status, stockVars, session, rosalinaVars, history>>

\* The reply is in the command buffer: close the session and classify it.
TrySendReply ==
    /\ wpc = "await" /\ status # "none"
    /\ session' = "reaping"
    /\ request' = None
    /\ wpc' = "account"
    /\ IF status = "retry" THEN RecordFailure
                           ELSE UNCHANGED <<failures, wasted>>
    /\ UNCHANGED <<ring, lock, event, ready, senderVars, windex, attempts,
                   status, stockVars, rosalinaVars, delivered, early,
                   intrusions>>

\* Mutants: one attempt too many; a delivered message is sent again.
FinishedLate == status # "retry" \/ attempts + 1 > RetryCount
FinishedByCount == attempts + 1 >= RetryCount

\* ++attempts is evaluated only for a status that asks for a retry.
Finished == status # "retry" \/ attempts + 1 >= RetryCount

WorkerAccount ==
    /\ wpc = "account"
    /\ IF Finished
         THEN wpc' = "pop" /\ UNCHANGED <<attempts, status>>
         ELSE /\ wpc' = "waitRetry"
              /\ attempts' = attempts + 1
              /\ status' = "none"
    /\ UNCHANGED <<ring, lock, event, ready, senderVars, windex, request,
                   stockVars, session, rosalinaVars, history>>

\* Mutant: the next message starts with the attempts of this one.
BridgePopKeepsAttempts ==
    /\ wpc = "pop" /\ LockFree
    /\ IF count > 0 THEN head' = Advance(head) /\ count' = count - 1
                    ELSE UNCHANGED <<head, count>>
    /\ status' = "none" /\ wpc' = "peek"
    /\ UNCHANGED <<queue, tail, lock, event, ready, senderVars, windex, attempts,
                   request, stockVars, session, rosalinaVars, history>>

BridgePop ==
    /\ wpc = "pop" /\ LockFree
    /\ IF count > 0 THEN head' = Advance(head) /\ count' = count - 1
                    ELSE UNCHANGED <<head, count>>
    /\ attempts' = 0
    /\ status' = "none"
    /\ wpc' = "peek"
    /\ early' = IF status = "retry" /\ rosalina # "up"
                  THEN early \cup {queue[windex]} ELSE early
    /\ UNCHANGED <<queue, tail, lock, event, ready, senderVars, windex,
                   request, stockVars, session, rosalinaVars, delivered,
                   failures, intrusions, wasted>>

-----------------------------------------------------------------------------
(* Stock Loader's own use of plg:ldr, one title at a time *)

\* Mutant: stock Loader connects with the flag down.
StockInitQuietly ==
    /\ stpc = "idle" /\ ready /\ launches < MaxLaunches
    /\ launches' = launches + 1 /\ tries' = 0 /\ stpc' = "connect"
    /\ intrusions' = 0 /\ wasted' = 0
    /\ UNCHANGED <<ring, lock, event, ready, senderVars, workerVars, session,
                   busy, rosalinaVars, delivered, failures, early>>

\* PLUGIN_MENU_PlgldrInitHandler raises the flag before it tries to connect.
StockInit ==
    /\ stpc = "idle" /\ ready /\ launches < MaxLaunches
    /\ launches' = launches + 1
    /\ busy' = TRUE
    /\ tries' = 0
    /\ stpc' = "connect"
    /\ intrusions' = 0 /\ wasted' = 0
    /\ UNCHANGED <<ring, lock, event, ready, senderVars, workerVars, session,
                   rosalinaVars, delivered, failures, early>>

\* plgldrInit itself waits for the port to exist.
StockConnect ==
    /\ stpc = "connect" /\ rosalina # "down" /\ session = "none"
    /\ session' = "stock"
    /\ stpc' = "owner"
    /\ UNCHANGED <<ring, lock, event, ready, senderVars, workerVars, busy,
                   tries, launches, rosalinaVars, history>>

\* A port-full answer: sleep and retry, and with the last retry give up; the
\* call site asserts success, so Loader stops there.
StockPortFull ==
    /\ stpc = "connect" /\ rosalina # "down" /\ session # "none"
    /\ tries' = tries + 1
    /\ IF tries + 1 < InitRetries
         THEN UNCHANGED <<stpc, busy, event>>
         ELSE stpc' = "panic" /\ busy' = FALSE /\ event' = TRUE
    /\ UNCHANGED <<ring, lock, ready, senderVars, workerVars, launches,
                   session, rosalinaVars, history>>

\* PLUGIN_MENU_PlgldrCloseHandler: close, (callbacks), then BridgeStockClosed.
StockClose ==
    /\ stpc = "owner"
    /\ session' = "reaping"
    /\ stpc' = "closed"
    /\ UNCHANGED <<ring, lock, event, ready, senderVars, workerVars, tries,
                   launches, busy, rosalinaVars, history>>

BridgeStockClosed ==
    /\ stpc = "closed"
    /\ busy' = FALSE
    /\ stpc' = "wake"
    /\ UNCHANGED <<ring, lock, event, ready, senderVars, workerVars, tries,
                   launches, session, rosalinaVars, history>>

\* Mutant: the worker is not woken.
BridgeStockWakeForgotten ==
    /\ stpc = "wake" /\ stpc' = "idle"
    /\ UNCHANGED <<ring, lock, event, ready, senderVars, workerVars, tries,
                   launches, busy, session, rosalinaVars, history>>

BridgeStockWake ==
    /\ stpc = "wake"
    /\ event' = TRUE
    /\ stpc' = "idle"
    /\ UNCHANGED <<ring, lock, ready, senderVars, workerVars, tries, launches,
                   busy, session, rosalinaVars, history>>

-----------------------------------------------------------------------------
(* Rosalina *)

\* The service thread publishes plg:ldr; MENU's Main installs the hook.
RosalinaStep ==
    /\ rosalina # "up"
    /\ rosalina' = IF rosalina = "down" THEN "stock" ELSE "up"
    /\ UNCHANGED <<ring, lock, event, ready, senderVars, workerVars,
                   stockVars, session, rpc, registered, regOps, history>>

RegisterBridgeReceiver(t) ==
    /\ rosalina = "up" /\ t \notin registered /\ regOps < MaxRegistryOps
    /\ registered' = registered \cup {t}
    /\ regOps' = regOps + 1
    /\ UNCHANGED <<ring, lock, event, ready, senderVars, workerVars,
                   stockVars, session, rosalina, rpc, history>>

UnregisterBridgeReceiver(t) ==
    /\ t \in registered /\ regOps < MaxRegistryOps
    /\ registered' = registered \ {t}
    /\ regOps' = regOps + 1
    /\ UNCHANGED <<ring, lock, event, ready, senderVars, workerVars,
                   stockVars, session, rosalina, rpc, history>>

RequestPending == wpc = "await" /\ status = "none" /\ rpc = "idle"

\* Without the hook the stock handler answers an unknown command.
StockHandlerAnswers ==
    /\ RequestPending /\ rosalina = "stock"
    /\ status' = "retry"
    /\ UNCHANGED <<ring, lock, event, ready, senderVars, wpc, windex, attempts,
                   request, stockVars, session, rosalinaVars, history>>

\* PLUGIN_MENU_PluginLoaderCommandsWrapper up to the call: the callback is
\* copied under the registry lock and called after the unlock.
DispatchLookup ==
    /\ RequestPending /\ rosalina = "up"
    /\ IF ~WellFormed(request) THEN status' = "drop" /\ UNCHANGED rpc
       ELSE IF TargetOf[request] \in registered
              THEN rpc' = "calling" /\ UNCHANGED status
              ELSE status' = "retry" /\ UNCHANGED rpc
    /\ UNCHANGED <<ring, lock, event, ready, senderVars, wpc, windex, attempts,
                   request, stockVars, session, rosalina, registered, regOps,
                   history>>

DispatchCallback(accepts) ==
    /\ rpc = "calling"
    /\ rpc' = "idle"
    /\ status' = IF accepts THEN "delivered" ELSE "retry"
    /\ delivered' = IF accepts THEN Append(delivered, request) ELSE delivered
    /\ UNCHANGED <<ring, lock, event, ready, senderVars, wpc, windex, attempts,
                   request, stockVars, session, rosalina, registered, regOps,
                   failures, early, intrusions, wasted>>

\* Until the service thread sees the closed session, the port stays full.
ReapSession ==
    /\ session = "reaping"
    /\ session' = "none"
    /\ UNCHANGED <<ring, lock, event, ready, senderVars, workerVars,
                   stockVars, rosalinaVars, history>>

-----------------------------------------------------------------------------
SenderSteps(s) == SendFull(s) \/ SendCopy(s) \/ SendCommit(s) \/ SendSignal(s)

SenderNext(s) ==
    SenderSteps(s) \/ \E m \in Messages : SendRefuse(s, m) \/ SendLock(s, m)

WorkerNext ==
    \/ \E b \in BOOLEAN : StartBridgeWorker(b)
    \/ BridgePeek \/ CheckBusy \/ WorkerWait
    \/ TrySendRecheck \/ TrySendConnect \/ TrySendMarshal \/ TrySendReply
    \/ WorkerAccount \/ BridgePop

StockSteps == StockConnect \/ StockPortFull \/ StockClose
                \/ BridgeStockClosed \/ BridgeStockWake

DispatchNext ==
    StockHandlerAnswers \/ DispatchLookup \/ \E b \in BOOLEAN : DispatchCallback(b)

RegistryNext ==
    \E t \in Targets : RegisterBridgeReceiver(t) \/ UnregisterBridgeReceiver(t)

Next ==
    \/ LoaderAlive /\ (WorkerNext \/ StockInit \/ StockSteps
                         \/ \E s \in Senders : SenderNext(s))
    \/ RosalinaStep \/ RegistryNext \/ DispatchNext \/ ReapSession

Spec == Init /\ [][Next]_vars

\* Every thread is scheduled while it can run, receivers return, and Rosalina
\* starts.  Nobody has to send, register, unregister or start a title.
Fairness ==
    /\ \A s \in Senders : WF_vars(LoaderAlive /\ SenderSteps(s))
    /\ WF_vars(LoaderAlive /\ WorkerNext)
    /\ WF_vars(LoaderAlive /\ StockSteps)
    /\ WF_vars(RosalinaStep) /\ WF_vars(DispatchNext) /\ WF_vars(ReapSession)

FairSpec == Spec /\ Fairness

-----------------------------------------------------------------------------
(* What is expected of it *)

\* The messages in the queue, oldest first.
Contents == [i \in 1 .. count |-> queue[(head + i - 1) % QueueCount]]
Queued == {Contents[i] : i \in 1 .. count}

\* Types of every variable: the state the code can represent.
TypeOK ==
    /\ queue \in [Slots -> Messages \cup {None}]
    /\ head \in Slots /\ tail \in Slots /\ count \in 0 .. QueueCount
    /\ lock \in Senders \cup {None}
    /\ event \in BOOLEAN /\ ready \in BOOLEAN /\ busy \in BOOLEAN
    /\ spc \in [Senders -> {"idle", "locked", "copying", "signal"}]
    /\ smsg \in [Senders -> Messages \cup {None}]
    /\ wpc \in {"unborn", "failed", "peek", "checkBusy", "waitEmpty",
                "waitBusy", "trySend", "connect", "marshal", "await", "account",
                "pop", "waitRetry"}
    /\ windex \in Slots
    /\ attempts \in 0 .. RetryCount - 1
    /\ request \in Messages \cup {None}
    /\ status \in {"none", "delivered", "retry", "drop"}
    /\ stpc \in {"idle", "connect", "owner", "closed", "wake", "panic"}
    /\ tries \in 0 .. InitRetries
    /\ session \in {"none", "bridge", "stock", "reaping"}
    /\ rosalina \in {"down", "stock", "up"}
    /\ rpc \in {"idle", "calling"}
    /\ registered \subseteq Targets
    /\ offered \subseteq Messages
    /\ launches \in 0 .. MaxLaunches /\ regOps \in 0 .. MaxRegistryOps
    /\ delivered \in Seq(Messages)
    /\ failures \in [Messages -> Nat]
    /\ early \subseteq Messages
    /\ intrusions \in Nat /\ wasted \in Nat

\* The worker is between its peek and its pop and relies on slot windex.
HoldsSlot ==
    wpc \in {"checkBusy", "trySend", "connect", "marshal", "await", "account",
             "pop"}

\* BridgeTrySend reads its slot without g_MENUBridgeQueueLock: no sender may be
\* copying into that slot from the peek of the index until the pop.
NoTornRead ==
    HoldsSlot => ~ \E s \in Senders : spc[s] = "copying" /\ tail = windex

\* A receiver that refuses or a transport that fails costs a message only its
\* own attempts: one that is given up, and not before its last allowed attempt,
\* has failed RetryCount times, and none has failed more often.
OwnAttemptsOnly ==
    /\ \A m \in Messages : failures[m] <= RetryCount
    /\ wpc = "pop" /\ status = "retry" => failures[queue[windex]] = RetryCount

\* PlgldrInitHandler raises the busy flag before it connects, so of all bridge
\* sessions at most the one the worker was about to open can get in the way of
\* one stock connect: its port-full retries wait for one request, not for many.
StockHasPriority == intrusions <= 1

\* While stock Loader owns the service bridge traffic pauses: one busy period
\* may fail the attempt that was under way when it began, and no other.
BusyPeriodCostsOneAttempt == wasted <= 1

\* Neither side of the shared port starves the other.
StockComesFirst == StockHasPriority /\ BusyPeriodCostsOneAttempt

\* The checks of BridgeSend and those of the Rosalina dispatcher agree: what
\* was accepted for the queue is never answered with DROP.
AcceptedIsWellFormed == status # "drop"

\* The bridge is a FIFO of at most QueueCount messages from which each message
\* is delivered once or given up: a message the receiver has consumed is no
\* longer pending although its slot is freed only by the later pop.
Channel == INSTANCE BridgeChannel WITH
    pending <- IF status = "delivered" THEN Tail(Contents) ELSE Contents
ImplementsChannel == Channel!ChanSpec

\* Every queued message is eventually delivered or given up, whatever wake-ups
\* of the one-shot event race with the worker, unless Loader itself stops.
QueueDrains ==
    \A m \in Messages : m \in Queued ~> (m \notin Queued \/ ~LoaderAlive)

\* "MENU owns the plg:ldr transport, waits for Rosalina to become available,
\* and retries delivery": no message is given up before Rosalina's half is up.
WaitsForRosalina == early = {}

-----------------------------------------------------------------------------
(* The inductive invariant behind the theorems of BridgeProofs *)

\* The slots that hold the count messages from head on, without the modulus.
Occupied(i) == i \in head .. head + count - 1
                 \/ i + QueueCount \in head .. head + count - 1

RingInv ==
    /\ tail = IF head + count < QueueCount THEN head + count
                                           ELSE head + count - QueueCount
    /\ \A i \in Slots : Occupied(i) => queue[i] \in Messages /\ WellFormed(queue[i])

SenderInv ==
    \A s \in Senders :
        /\ spc[s] \in {"locked", "copying"} <=> lock = s
        /\ spc[s] = "copying" => count < QueueCount
        /\ spc[s] \in {"locked", "copying"} =>
               smsg[s] \in Messages /\ WellFormed(smsg[s])

WorkerInv ==
    /\ HoldsSlot => windex = head /\ count > 0
    /\ wpc = "await" => request = queue[windex]
    /\ rpc = "calling" => wpc = "await" /\ status = "none"
    /\ status # "none" => wpc \in {"await", "account", "pop"}

\* Stock Loader connects with the flag up, and the worker passes its last look
\* at the flag before it connects.
PriorityInv ==
    /\ stpc \in {"connect", "owner", "closed"} <=> busy
    /\ stpc = "connect" /\ wpc = "connect" => intrusions = 0
    /\ stpc = "connect" => tries < InitRetries
    /\ busy /\ wpc \in {"trySend", "connect", "marshal", "await"} => wasted = 0

IndInv ==
    /\ TypeOK /\ RingInv /\ SenderInv /\ WorkerInv /\ PriorityInv
    /\ AcceptedIsWellFormed /\ StockHasPriority /\ BusyPeriodCostsOneAttempt
=============================================================================
