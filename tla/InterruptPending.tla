-------------------------- MODULE InterruptPending --------------------------
(***************************************************************************)
(* What the interrupt table promises with every request line in use: a     *)
(* source is delivered only while it is pending, it is pending only after  *)
(* a request, and the request made last is never the one that gets lost.   *)
(* The table promises no more: entries of OTHER sources may vanish when a  *)
(* request is inserted in front of them (cpu.cpp:1312-1314), and a pop may *)
(* remove an entry other than the one delivered.                           *)
(***************************************************************************)
EXTENDS Naturals

CONSTANT Vectors    \* the sources, each named by its vector

VARIABLES pending, serving      \* serving = 0: no delivery under way

pvars == <<pending, serving>>

PendingInit == pending = {} /\ serving = 0

Request(v) ==
    /\ \E kept \in SUBSET pending : pending' = kept \cup {v}
    /\ UNCHANGED serving

Deliver(v) ==
    /\ serving = 0
    /\ v \in pending
    /\ serving' = v
    /\ UNCHANGED pending

\* The delivery ends and takes at most one source with it.
Retire ==
    /\ serving # 0
    /\ serving' = 0
    /\ \E gone \in Vectors : pending' \in {pending, pending \ {gone}}

PendingNext == Retire \/ \E v \in Vectors : Request(v) \/ Deliver(v)

PendingSpec == PendingInit /\ [][PendingNext]_pvars
=============================================================================
