--------------------------- MODULE InterruptTable ---------------------------
(***************************************************************************)
(* The table of pending interrupts, lib/cpu/cpu.cpp:16 and 1279-1329: an   *)
(* array of ITABN slots, head first.  cpu::interrupt() inserts a request,  *)
(* popirq() drops the head.  Each runs with interrupts disabled, so each   *)
(* is one atomic function of the table.                                    *)
(*                                                                         *)
(* The two scan loops are stated by what their index satisfies when they   *)
(* stop, so that the module can be reasoned about without induction over   *)
(* the loop; the shift loop by the slots it leaves.                        *)
(***************************************************************************)
EXTENDS Naturals

CONSTANT ITABN      \* number of slots, 32 in cpu.h:14

ASSUME ITABNAssumption == ITABN \in Nat \ {0}

Slots == 0 .. ITABN - 1

\* An empty slot is recognised by its vector alone (vec == 0).
NoIntr == [vec |-> 0, pri |-> 0]

Occupied(t, i) == t[i].vec # 0

\* Mutant: the first scan stops at an equal priority.
PriorityScanStrict(t, s, p) ==
    /\ p \in 0 .. ITABN
    /\ \A j \in Slots : j < p => Occupied(t, j) /\ t[j].pri > s.pri
    /\ p < ITABN => ~Occupied(t, p) \/ t[p].pri <= s.pri

(***************************************************************************)
(* First scan (1293-1298): p is the first slot that is empty or holds a    *)
(* lower priority, or ITABN when there is none.                            *)
(***************************************************************************)
PriorityScan(t, s, p) ==
    /\ p \in 0 .. ITABN
    /\ \A j \in Slots : j < p => Occupied(t, j) /\ t[j].pri >= s.pri
    /\ p < ITABN => ~Occupied(t, p) \/ t[p].pri < s.pri

\* Mutant: the second scan compares the vectors the wrong way round.
VectorScanReversed(t, s, p, i) ==
    /\ i \in p .. ITABN
    /\ \A j \in Slots : p <= j /\ j < i => Occupied(t, j) /\ t[j].vec > s.vec
    /\ i < ITABN => ~Occupied(t, i) \/ t[i].vec <= s.vec

(***************************************************************************)
(* Second scan (1299-1303): it starts where the first one stopped and      *)
(* passes over every occupied slot with a smaller vector, WHATEVER its     *)
(* priority; i is the slot it stops at.                                    *)
(***************************************************************************)
VectorScan(t, s, p, i) ==
    /\ i \in p .. ITABN
    /\ \A j \in Slots : p <= j /\ j < i => Occupied(t, j) /\ t[j].vec < s.vec
    /\ i < ITABN => ~Occupied(t, i) \/ t[i].vec >= s.vec

(***************************************************************************)
(* Where a request goes: slot 0 of an empty table without any scan (the    *)
(* fast path, 1287-1292), else where the two scans lead.                   *)
(***************************************************************************)
InsertsAt(t, s, i) ==
    \/ ~Occupied(t, 0) /\ i = 0
    \/ /\ Occupied(t, 0)
       /\ \E p \in 0 .. ITABN : PriorityScan(t, s, p) /\ VectorScan(t, s, p, i)

\* The scans ran off the end: "interrupt table full" (1304-1311).
Full(t, s) == InsertsAt(t, s, ITABN)

(***************************************************************************)
(* The table after the insertion at slot i (1312-1316).  The loop copies   *)
(* slot j-1 to slot j with j ASCENDING, so every slot behind i receives    *)
(* what slot i held; on the fast path nothing moves.                       *)
(***************************************************************************)
Inserted(t, s, i) ==
    [j \in Slots |-> IF j < i \/ (j > i /\ ~Occupied(t, 0)) THEN t[j]
                     ELSE IF j = i THEN s
                     ELSE t[i]]

\* Mutants of popirq(): the head is cleared and nothing moves up; the last slot
\* loses its vector only.
PoppedInPlace(t) == [t EXCEPT ![0] = NoIntr]
PoppedKeepsPriority(t) ==
    [j \in Slots |-> IF j = ITABN - 1 THEN [t[j] EXCEPT !.vec = 0] ELSE t[j + 1]]

\* popirq(): every slot takes its successor's entry, the last one is cleared.
Popped(t) == [j \in Slots |-> IF j = ITABN - 1 THEN NoIntr ELSE t[j + 1]]

-----------------------------------------------------------------------------
\* No empty slot stands before an occupied one.
Compact(t) == \A i, j \in Slots : i < j /\ Occupied(t, j) => Occupied(t, i)

\* An entry stands before another only with no lower priority or no higher
\* vector.
Ordered(t) ==
    \A i, j \in Slots :
        i < j /\ Occupied(t, j) => t[i].pri >= t[j].pri \/ t[i].vec <= t[j].vec
=============================================================================
