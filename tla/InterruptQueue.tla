--------------------------- MODULE InterruptQueue ---------------------------
(***************************************************************************)
(* What the interrupt table is meant to be, and is as long as the sources  *)
(* in use share one priority: a bounded queue.  Every accepted request is  *)
(* delivered once, in the order of the requests.                           *)
(***************************************************************************)
EXTENDS Sequences, Naturals

CONSTANTS Vectors, Bound

VARIABLES queue, serving        \* serving = 0: no delivery under way

qvars == <<queue, serving>>

QueueInit == queue = << >> /\ serving = 0

Request(v) ==
    /\ Len(queue) < Bound
    /\ queue' = Append(queue, v)
    /\ UNCHANGED serving

Deliver ==
    /\ serving = 0
    /\ queue # << >>
    /\ serving' = Head(queue)
    /\ UNCHANGED queue

\* The delivered entry, still the head, leaves the queue.
Retire ==
    /\ serving # 0
    /\ serving = Head(queue)
    /\ serving' = 0
    /\ queue' = Tail(queue)

QueueNext == Deliver \/ Retire \/ \E v \in Vectors : Request(v)

QueueSpec == QueueInit /\ [][QueueNext]_qvars
=============================================================================
