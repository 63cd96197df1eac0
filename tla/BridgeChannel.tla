--------------------------- MODULE BridgeChannel ---------------------------
(***************************************************************************)
(* What the Loader -> Rosalina bridge promises to its users, with every    *)
(* detail of the transport hidden: a bounded FIFO of accepted messages     *)
(* whose head is either handed to a receiver, once, or given up.           *)
(***************************************************************************)
EXTENDS Naturals, Sequences

CONSTANTS
    Messages,   \* the messages Loader plugins may send
    QueueCount  \* the capacity of the queue

VARIABLES
    pending,    \* accepted and not yet settled, oldest first
    delivered   \* consumed by a receiver, in order

chanVars == <<pending, delivered>>

ChanInit == pending = <<>> /\ delivered = <<>>

Accept(m) ==
    /\ Len(pending) < QueueCount
    /\ pending' = Append(pending, m)
    /\ UNCHANGED delivered

Deliver ==
    /\ pending # <<>>
    /\ delivered' = Append(delivered, Head(pending))
    /\ pending' = Tail(pending)

GiveUp ==
    /\ pending # <<>>
    /\ pending' = Tail(pending)
    /\ UNCHANGED delivered

ChanNext == Deliver \/ GiveUp \/ \E m \in Messages : Accept(m)

ChanSpec == ChanInit /\ [][ChanNext]_chanVars
=============================================================================
