-------------------------- MODULE InterruptProofs --------------------------
(***************************************************************************)
(* Proofs about the interrupt system: InterruptDelivery, for every table   *)
(* size, every set of sources and every set of priority levels, and Dl11,  *)
(* the console line that lives in it, for every table size, pace, number   *)
(* of keys up to 15 and number of characters written.                      *)
(***************************************************************************)
EXTENDS Dl11, SequenceTheorems, FiniteSetTheorems, TLAPS

\* A table over a set S of sources.
Tables(S) == [Slots -> S \cup {NoIntr}]

\* Each source has a vector other than 0, and vector and priority are numbers.
SourceSet(S) == \A s \in S : s.vec \in Nat \ {0} /\ s.pri \in Nat

-----------------------------------------------------------------------------
(***************************************************************************)
(* Lemmas on the table operators.                                          *)
(***************************************************************************)

\* Every request line of the machine has a nonzero vector.
LEMMA SourcesAreSources == SourceSet(Sources)
BY SourcesAssumption DEF SourceSet, TtyIn, TtyOut, Clock, Rk, Tm

\* Slot 0 exists and slots are numbers.
LEMMA SlotFacts == 0 \in Slots /\ ITABN \in Nat /\ Slots \subseteq Nat
BY ITABNAssumption DEF Slots

\* An insertion keeps the table a table.
LEMMA InsertedType ==
  ASSUME NEW S, NEW t \in Tables(S), NEW s \in S, NEW i \in Slots
  PROVE  Inserted(t, s, i) \in Tables(S)
BY DEF Tables, Inserted

\* So does a pop.
LEMMA PoppedType ==
  ASSUME NEW S, NEW t \in Tables(S)
  PROVE  Popped(t) \in Tables(S)
BY ITABNAssumption DEF Tables, Popped, Slots

\* Every slot before the one a request goes to is occupied.
LEMMA InsertBehindOccupied ==
  ASSUME NEW t, NEW s, NEW i \in Slots, InsertsAt(t, s, i),
         NEW j \in Slots, j < i
  PROVE  Occupied(t, j)
<1>1. i # 0
  BY SlotFacts
<1>2. PICK p \in 0 .. ITABN : PriorityScan(t, s, p) /\ VectorScan(t, s, p, i)
  BY <1>1 DEF InsertsAt
<1>3. CASE j < p
  BY <1>2, <1>3 DEF PriorityScan
<1>4. CASE p <= j
  BY <1>2, <1>4 DEF VectorScan
<1>5. QED
  BY <1>3, <1>4, SlotFacts

\* The insertion leaves no hole, although it copies one entry over all others.
LEMMA InsertedCompact ==
  ASSUME NEW S, SourceSet(S), NEW t \in Tables(S), NEW s \in S,
         NEW i \in Slots, InsertsAt(t, s, i), Compact(t)
  PROVE  Compact(Inserted(t, s, i))
<1> DEFINE u == Inserted(t, s, i)
<1> SUFFICES ASSUME NEW j \in Slots, NEW k \in Slots, j < k, Occupied(u, k)
             PROVE  Occupied(u, j)
  BY DEF Compact
<1>1. s.vec # 0
  BY DEF SourceSet
<1>2. CASE j < i
  <2>1. Occupied(t, j)
    BY <1>2, InsertBehindOccupied
  <2>2. QED
    BY <1>2, <2>1 DEF Inserted, Occupied
<1>3. CASE j = i
  BY <1>1, <1>3, SlotFacts DEF Inserted, Occupied
<1>4. CASE j > i /\ Occupied(t, 0)
  <2>1. u[j] = t[i] /\ u[k] = t[i]
    BY <1>4, SlotFacts DEF Inserted
  <2>2. QED
    BY <2>1 DEF Occupied
<1>5. CASE j > i /\ ~Occupied(t, 0)
  <2>1. u[k] = t[k]
    BY <1>5, SlotFacts DEF Inserted
  <2>2. Occupied(t, 0)
    <3>1. 0 \in Slots /\ 0 < k
      BY <1>5, SlotFacts
    <3>2. Occupied(t, k)
      BY <2>1 DEF Occupied
    <3> QED
      BY <3>1, <3>2 DEF Compact
  <2>3. QED
    BY <1>5, <2>2
<1>6. QED
  BY <1>2, <1>3, <1>4, <1>5, SlotFacts

\* A pop leaves no hole.
LEMMA PoppedCompact ==
  ASSUME NEW S, NEW t \in Tables(S), Compact(t)
  PROVE  Compact(Popped(t))
<1> SUFFICES ASSUME NEW j \in Slots, NEW k \in Slots, j < k,
                    Occupied(Popped(t), k)
             PROVE  Occupied(Popped(t), j)
  BY DEF Compact
<1>1. k # ITABN - 1
  BY DEF Popped, Occupied, NoIntr
<1>2. j + 1 \in Slots /\ k + 1 \in Slots /\ j + 1 < k + 1
  BY <1>1, ITABNAssumption DEF Slots
<1>3. Popped(t)[k] = t[k + 1] /\ Popped(t)[j] = t[j + 1]
  BY <1>1, <1>2, ITABNAssumption DEF Popped, Slots
<1>4. QED
  BY <1>2, <1>3 DEF Occupied, Compact

\* The insertion keeps the order, although it goes by two different scans.
LEMMA InsertedOrdered ==
  ASSUME NEW S, SourceSet(S), NEW t \in Tables(S), NEW s \in S,
         NEW i \in Slots, InsertsAt(t, s, i), Compact(t), Ordered(t)
  PROVE  Ordered(Inserted(t, s, i))
<1> DEFINE u == Inserted(t, s, i)
<1> SUFFICES ASSUME NEW j \in Slots, NEW k \in Slots, j < k, Occupied(u, k)
             PROVE  u[j].pri >= u[k].pri \/ u[j].vec <= u[k].vec
  BY DEF Ordered
<1>0. /\ \A n \in Slots : t[n].vec \in Nat /\ t[n].pri \in Nat
      /\ s.vec \in Nat /\ s.pri \in Nat
  BY DEF SourceSet, Tables, NoIntr
<1>1. CASE ~Occupied(t, 0)
  <2>1. i = 0
    BY <1>1, SlotFacts, InsertBehindOccupied DEF InsertsAt
  <2>2. u[k] = t[k]
    BY <1>1, <2>1, SlotFacts DEF Inserted
  <2>3. Occupied(t, 0)
    BY <2>2, SlotFacts DEF Occupied, Compact
  <2>4. QED
    BY <1>1, <2>3
<1>2. CASE Occupied(t, 0)
  <2>1. PICK p \in 0 .. ITABN : PriorityScan(t, s, p) /\ VectorScan(t, s, p, i)
    BY <1>2, SlotFacts DEF InsertsAt
  <2>2. CASE k < i
    <3>1. u[j] = t[j] /\ u[k] = t[k]
      BY <2>2, SlotFacts DEF Inserted
    <3>2. QED
      BY <3>1 DEF Ordered, Occupied
  <2>3. CASE k = i
    <3>1. u[j] = t[j] /\ u[k] = s
      BY <2>3, SlotFacts DEF Inserted
    <3>2. t[j].pri >= s.pri \/ t[j].vec < s.vec
      BY <2>1, <2>3, SlotFacts DEF PriorityScan, VectorScan
    <3>3. QED
      BY <3>1, <3>2, <1>0
  <2>4. CASE k > i
    <3>1. u[k] = t[i] /\ Occupied(t, i)
      BY <1>2, <2>4, SlotFacts DEF Inserted, Occupied
    <3>2. CASE j < i
      <4>1. u[j] = t[j]
        BY <3>2, SlotFacts DEF Inserted
      <4>2. QED
        BY <3>1, <3>2, <4>1 DEF Ordered
    <3>3. CASE j = i
      <4>1. u[j] = s
        BY <3>3, SlotFacts DEF Inserted
      <4>2. t[i].vec >= s.vec
        BY <2>1, <3>1, ITABNAssumption DEF VectorScan, Slots
      <4>3. QED
        BY <3>1, <4>1, <4>2, <1>0
    <3>4. CASE j > i
      <4>1. u[j] = t[i]
        BY <1>2, <3>4, SlotFacts DEF Inserted
      <4>2. QED
        BY <3>1, <4>1, <1>0
    <3>5. QED
      BY <3>2, <3>3, <3>4, SlotFacts
  <2>5. QED
    BY <2>2, <2>3, <2>4, SlotFacts
<1>3. QED
  BY <1>1, <1>2

\* A pop keeps the order.
LEMMA PoppedOrdered ==
  ASSUME NEW S, NEW t \in Tables(S), Ordered(t)
  PROVE  Ordered(Popped(t))
<1> DEFINE u == Popped(t)
<1> SUFFICES ASSUME NEW j \in Slots, NEW k \in Slots, j < k, Occupied(u, k)
             PROVE  u[j].pri >= u[k].pri \/ u[j].vec <= u[k].vec
  BY DEF Ordered
<1>1. k # ITABN - 1
  BY DEF Popped, Occupied, NoIntr
<1>2. j + 1 \in Slots /\ k + 1 \in Slots /\ j + 1 < k + 1
  BY <1>1, ITABNAssumption DEF Slots
<1>3. u[k] = t[k + 1] /\ u[j] = t[j + 1]
  BY <1>1, <1>2, ITABNAssumption DEF Popped, Slots
<1>4. QED
  BY <1>2, <1>3 DEF Occupied, Ordered

\* What an insertion does to an occupied head: nothing, or it puts a strictly
\* higher priority in its place.
LEMMA InsertedHead ==
  ASSUME NEW S, SourceSet(S), NEW t \in Tables(S), NEW s \in S,
         NEW i \in Slots, InsertsAt(t, s, i), Occupied(t, 0)
  PROVE  \/ Inserted(t, s, i)[0] = t[0]
         \/ /\ Inserted(t, s, i)[0] = s
            /\ s.pri > t[0].pri
<1>1. PICK p \in 0 .. ITABN : PriorityScan(t, s, p) /\ VectorScan(t, s, p, i)
  BY SlotFacts DEF InsertsAt
<1>2. CASE i > 0
  BY <1>2, SlotFacts DEF Inserted
<1>3. CASE i = 0
  <2>1. p = 0 /\ p < ITABN
    BY <1>1, <1>3, ITABNAssumption DEF VectorScan
  <2>2. t[0].pri < s.pri
    BY <1>1, <2>1 DEF PriorityScan
  <2>3. t[0].pri \in Nat /\ s.pri \in Nat
    BY SlotFacts DEF SourceSet, Tables, NoIntr
  <2>4. QED
    BY <1>3, <2>2, <2>3, SlotFacts DEF Inserted
<1>4. QED
  BY <1>2, <1>3, SlotFacts

-----------------------------------------------------------------------------
(***************************************************************************)
(* The invariant.                                                          *)
(***************************************************************************)

\* What cpu::interrupt() does to the state, with room or without.
LEMMA InterruptStep ==
  ASSUME TypeOK, TableCompact, TableOrdered,
         NEW s \in Sources, NEW where \in ConsoleValues, Interrupt(s, where)
  PROVE  /\ itab' \in Tables(Sources)
         /\ Compact(itab')
         /\ Ordered(itab')
         /\ console' \in {console, where}
         /\ active' \in BOOLEAN
         /\ console' = console \/ UNCHANGED itab
         /\ Occupied(itab, 0) => \/ itab'[0] = itab[0]
                                 \/ itab'[0] = s /\ s.pri > itab[0].pri
<1>1. itab \in Tables(Sources)
  BY DEF TypeOK, Tables
<1>2. CASE /\ \E i \in Slots : InsertsAt(itab, s, i) /\ itab' = Inserted(itab, s, i)
           /\ UNCHANGED <<console, active>>
  <2>1. PICK i \in Slots : InsertsAt(itab, s, i) /\ itab' = Inserted(itab, s, i)
    BY <1>2
  <2>2. console' = console /\ active' \in BOOLEAN
    BY <1>2 DEF TypeOK
  <2>3. QED
    BY <1>1, <2>1, <2>2, SourcesAreSources, InsertedType, InsertedCompact,
       InsertedOrdered, InsertedHead DEF TableCompact, TableOrdered
<1>3. CASE Full(itab, s) /\ console' = where /\ active' = TRUE /\ UNCHANGED itab
  BY <1>1, <1>3 DEF TableCompact, TableOrdered
<1>4. QED
  BY <1>2, <1>3 DEF Interrupt

\* The invariant holds initially.
LEMMA InitIInv == Init => IInv
<1> SUFFICES ASSUME Init PROVE IInv
  OBVIOUS
<1>1. TypeOK
  BY LevelsAssumption DEF Init, TypeOK, PcValues, ConsoleValues
<1>2. TableCompact /\ TableOrdered
  BY DEF Init, TableCompact, Compact, TableOrdered, Ordered, Occupied, NoIntr
<1>3. ConsoleFromLoop /\ VectorHeld /\ NeverBelowPriority
  BY DEF Init, ConsoleFromLoop, VectorHeld, NeverBelowPriority
<1>4. QED
  BY <1>1, <1>2, <1>3 DEF IInv

\* Every step preserves it, first in actions that leave the table alone.
LEMMA QuietStepIInv ==
  ASSUME IInv, ~undefined,
         \/ Execute \/ Trap \/ Halt \/ Check \/ EnterHandler
         \/ Deposit \/ BusErrorInConsole \/ Resume
  PROVE  IInv'
<1>0. UNCHANGED itab
  BY DEF Execute, Trap, Halt, Check, EnterHandler, Deposit, BusErrorInConsole, Resume
<1>1. TypeOK'
  <2>1. CASE Resume
    <3>1. undefined' \in BOOLEAN /\ active' \in BOOLEAN /\ console' \in ConsoleValues
      BY <2>1 DEF IInv, TypeOK, Resume, ConsoleValues
    <3>2. QED
      BY <1>0, <2>1, <3>1 DEF IInv, TypeOK, Resume
  <2>2. CASE BusErrorInConsole
    <3>1. undefined' \in BOOLEAN /\ console' \in ConsoleValues
      BY <2>2 DEF IInv, TypeOK, BusErrorInConsole, ConsoleValues
    <3>2. pc' \in PcValues /\ priority' \in Levels /\ UNCHANGED <<clockIE, vec, active>>
      BY <2>2 DEF IInv, TypeOK, BusErrorInConsole, PcValues
    <3>3. QED
      BY <1>0, <3>1, <3>2 DEF IInv, TypeOK
  <2>3. CASE Execute \/ Trap \/ Halt \/ Check \/ EnterHandler \/ Deposit
    BY <1>0, <2>3 DEF IInv, TypeOK, PcValues, ConsoleValues, Execute, Trap, Halt,
         Check, EnterHandler, Deposit
  <2>4. QED
    BY <2>1, <2>2, <2>3
<1>2. TableCompact' /\ TableOrdered'
  BY <1>0 DEF IInv, TableCompact, TableOrdered, Compact, Ordered, Occupied
<1>3. ConsoleFromLoop'
  BY DEF IInv, ConsoleFromLoop, Execute, Trap, Halt, Check, EnterHandler, Deposit,
       BusErrorInConsole, Resume, Running
<1>4. VectorHeld'
  BY DEF IInv, VectorHeld, ConsoleFromLoop, TypeOK, ConsoleValues, Execute, Trap,
       Halt, Check, EnterHandler, Deposit, BusErrorInConsole, Resume, Running
<1>5. NeverBelowPriority'
  BY <1>0 DEF IInv, NeverBelowPriority, ConsoleFromLoop, TypeOK, ConsoleValues,
       Occupied, Execute, Trap, Halt, Check, EnterHandler, Deposit,
       BusErrorInConsole, Resume, Running
<1>6. QED
  BY <1>1, <1>2, <1>3, <1>4, <1>5 DEF IInv

\* The requests of the main thread and of the operator.
LEMMA RequestStepIInv ==
  ASSUME IInv, ~undefined,
         \/ StartDevice \/ Rewind \/ Finish \/ PollReceiver \/ PollTransmitter
         \/ DepositCommand
  PROVE  IInv'
<1>1. \/ UNCHANGED itab /\ console' \in {console, "main"} /\ active' \in BOOLEAN
      \/ \E s \in Sources, where \in ConsoleValues : Interrupt(s, where)
  BY DEF StartDevice, Rewind, Finish, PollReceiver, PollTransmitter, DepositCommand,
       ConsoleValues, IInv, TypeOK
<1>2. /\ itab' \in Tables(Sources) /\ Compact(itab') /\ Ordered(itab')
      /\ active' \in BOOLEAN
  BY <1>1, InterruptStep DEF IInv, TypeOK, Tables, TableCompact, TableOrdered
<1>3. /\ pc' \in {"step", "finish", "check", "xmit"}
      /\ console' \in {console, "main", "full"}
      \/ /\ pc' = pc /\ console # "off" /\ console' # "off"
         /\ console = "isr" => console' = "isr"
         /\ console' \in {console, "full", "isr"}
  BY DEF StartDevice, Rewind, Finish, PollReceiver, PollTransmitter, DepositCommand,
       Interrupt, Running
<1>4. UNCHANGED <<priority, clockIE, vec, undefined>>
  BY DEF StartDevice, Rewind, Finish, PollReceiver, PollTransmitter, DepositCommand
<1>5. TypeOK'
  BY <1>2, <1>3, <1>4 DEF IInv, TypeOK, Tables, PcValues, ConsoleValues
<1>6. ConsoleFromLoop'
  BY <1>3 DEF IInv, ConsoleFromLoop, TypeOK, ConsoleValues
<1>7. VectorHeld'
  <2>1. CASE DepositCommand
    BY <1>4, <2>1 DEF IInv, VectorHeld, DepositCommand
  <2>2. CASE \/ StartDevice \/ Rewind \/ Finish \/ PollReceiver \/ PollTransmitter
    BY <1>4, <2>2 DEF IInv, VectorHeld, StartDevice, Rewind, Finish, PollReceiver,
         PollTransmitter, Running
  <2>3. QED
    BY <2>1, <2>2
<1>8. NeverBelowPriority'
  BY <1>3 DEF NeverBelowPriority
<1>9. QED
  BY <1>2, <1>5, <1>6, <1>7, <1>8 DEF IInv, TableCompact, TableOrdered

\* The timer interrupt: it may come between the test and the read of the head,
\* and what it puts in front has the higher priority.
LEMMA TickIInv ==
  ASSUME IInv, ~undefined, Tick
  PROVE  IInv'
<1>1. Interrupt(Clock, "isr") /\ Clock \in Sources /\ console = "off"
  BY DEF Tick
<1>2. "isr" \in ConsoleValues
  BY DEF ConsoleValues
<1>3. /\ itab' \in Tables(Sources) /\ Compact(itab') /\ Ordered(itab')
      /\ console' \in {"off", "isr"} /\ active' \in BOOLEAN
      /\ Occupied(itab, 0) => \/ itab'[0] = itab[0]
                              \/ itab'[0] = Clock /\ Clock.pri > itab[0].pri
  BY <1>1, <1>2, InterruptStep DEF IInv
<1>4. UNCHANGED <<pc, priority, clockIE, vec, undefined>>
  BY DEF Tick
<1>5. TypeOK'
  BY <1>3, <1>4 DEF IInv, TypeOK, Tables, ConsoleValues
<1>6. ConsoleFromLoop' /\ VectorHeld'
  BY <1>3, <1>4 DEF IInv, ConsoleFromLoop, VectorHeld
<1>7. NeverBelowPriority'
  <2>1. CASE pc = "handle"
    <3>1. Occupied(itab, 0) /\ itab[0].pri >= priority
      BY <1>1, <2>1 DEF IInv, NeverBelowPriority
    <3>2. itab[0].pri \in Nat /\ priority \in Nat
      BY SourcesAreSources, SlotFacts, LevelsAssumption
         DEF IInv, TypeOK, SourceSet, NoIntr
    <3>3. Occupied(itab, 0)' /\ itab'[0].pri >= priority
      BY <1>3, <3>1, <3>2 DEF Occupied, Clock
    <3>4. QED
      BY <1>4, <2>1, <3>3 DEF NeverBelowPriority
  <2>2. CASE pc # "handle"
    BY <1>1, <1>4, <2>2 DEF IInv, NeverBelowPriority
  <2>3. QED
    BY <2>1, <2>2
<1>8. QED
  BY <1>3, <1>5, <1>6, <1>7 DEF IInv, TableCompact, TableOrdered

\* The delivery takes its vector from the head.
LEMMA ReadVectorIInv ==
  ASSUME IInv, ~undefined, ReadVector
  PROVE  IInv'
<1>1. Occupied(itab, 0) /\ itab[0].pri >= priority /\ console = "off" /\ pc = "handle"
  BY DEF ReadVector, Running, IInv, NeverBelowPriority
<1>2. itab[0] \in Sources
  BY <1>1, SlotFacts DEF IInv, TypeOK, Occupied, NoIntr
<1>3. /\ vec' = itab[0].vec /\ pc' = "vector" /\ vec' # 0
      /\ UNCHANGED <<itab, priority, clockIE, console, active, undefined>>
  BY <1>1 DEF ReadVector, Occupied
<1>4. TypeOK'
  BY <1>2, <1>3 DEF IInv, TypeOK, PcValues
<1>5. TableCompact' /\ TableOrdered'
  BY <1>3 DEF IInv, TableCompact, TableOrdered
<1>6. ConsoleFromLoop' /\ VectorHeld'
  BY <1>1, <1>3 DEF ConsoleFromLoop, VectorHeld
<1>7. NeverBelowPriority'
  BY <1>1, <1>2, <1>3 DEF NeverBelowPriority
<1>8. QED
  BY <1>4, <1>5, <1>6, <1>7 DEF IInv

\* popirq().
LEMMA PopIrqIInv ==
  ASSUME IInv, ~undefined, PopIrq
  PROVE  IInv'
<1>1. /\ itab' = Popped(itab) /\ vec' = 0 /\ pc' = "step" /\ console = "off"
      /\ UNCHANGED <<priority, clockIE, console, active, undefined>>
  BY DEF PopIrq, Running
<1>2. itab \in Tables(Sources)
  BY DEF IInv, TypeOK, Tables
<1>3. itab' \in Tables(Sources) /\ Compact(itab') /\ Ordered(itab')
  BY <1>1, <1>2, PoppedType, PoppedCompact, PoppedOrdered
     DEF IInv, TableCompact, TableOrdered
<1>4. TypeOK'
  BY <1>1, <1>3 DEF IInv, TypeOK, Tables, PcValues
<1>5. ConsoleFromLoop' /\ VectorHeld' /\ NeverBelowPriority'
  BY <1>1 DEF ConsoleFromLoop, VectorHeld, NeverBelowPriority
<1>6. QED
  BY <1>3, <1>4, <1>5 DEF IInv, TableCompact, TableOrdered

\* Together: the invariant is inductive.
LEMMA NextIInv == IInv /\ [Next]_vars => IInv'
<1> SUFFICES ASSUME IInv, [Next]_vars PROVE IInv'
  OBVIOUS
<1>1. CASE UNCHANGED vars
  BY <1>1 DEF vars, IInv, TypeOK, TableCompact, TableOrdered, Compact, Ordered,
       Occupied, ConsoleFromLoop, VectorHeld, NeverBelowPriority
<1>2. CASE ~undefined /\ (Main \/ Tick \/ Operator)
  BY <1>2, QuietStepIInv, RequestStepIInv, TickIInv, ReadVectorIInv, PopIrqIInv
     DEF Main, Operator
<1>3. QED
  BY <1>1, <1>2 DEF Next, Stopped

\* The inductive invariant is an invariant of the program, for every table
\* size: the scans, the shifts, the two critical sections of the delivery and
\* the timer interrupt between them.
THEOREM Invariance == Spec => []IInv
BY InitIInv, NextIInv, PTL DEF Spec

\* Every variable stays in its range.
THEOREM TypeCorrect == Spec => []TypeOK
BY Invariance, PTL DEF IInv

\* The table never has a hole.
THEOREM CompactTable == Spec => []TableCompact
BY Invariance, PTL DEF IInv

\* Priority and vector order the table, in spite of the two scans.
THEOREM OrderedTable == Spec => []TableOrdered
BY Invariance, PTL DEF IInv

\* No interrupt is delivered at or below a priority the processor masks,
\* although the tick may change the head between test and delivery.
THEOREM DeliveryAbovePriority == Spec => []NeverBelowPriority
BY Invariance, PTL DEF IInv

-----------------------------------------------------------------------------
(***************************************************************************)
(* The head of the table.                                                  *)
(***************************************************************************)

HeadKept == Occupied(itab, 0) /\ pc # "pop" =>
                itab'[0] = itab[0] \/ itab'[0].pri > itab[0].pri

\* Every step but popirq() keeps the head or puts a higher priority there.
LEMMA NextHeadKept == IInv /\ [Next]_vars => [HeadKept]_vars
<1> SUFFICES ASSUME IInv, [Next]_vars PROVE HeadKept
  OBVIOUS
<1>1. CASE UNCHANGED itab
  BY <1>1 DEF HeadKept
<1>2. ASSUME NEW s \in Sources, NEW where \in ConsoleValues, Interrupt(s, where)
      PROVE  HeadKept
  BY <1>2, InterruptStep DEF HeadKept, IInv
<1>3. CASE PopIrq
  BY <1>3 DEF HeadKept, PopIrq, Running
<1>4. CASE \/ StartDevice \/ Rewind \/ Finish \/ PollReceiver \/ PollTransmitter
           \/ Tick \/ DepositCommand
  <2>1. UNCHANGED itab \/ \E s \in Sources, where \in ConsoleValues : Interrupt(s, where)
    BY <1>4 DEF StartDevice, Rewind, Finish, PollReceiver, PollTransmitter, Tick,
         DepositCommand, ConsoleValues, IInv, TypeOK
  <2>2. QED
    BY <2>1, <1>1, <1>2
<1>5. QED
  BY <1>1, <1>3, <1>4 DEF Next, Main, Operator, Stopped, vars, Execute, Trap, Halt,
     Check, ReadVector, EnterHandler, Deposit, BusErrorInConsole, Resume

\* Between two pops the head gives way to a strictly higher priority only.
THEOREM HeadOvertaken == Spec => HeadOnlyOvertakenByHigher
<1>1. IInv /\ [Next]_vars => [HeadKept]_vars
  BY NextHeadKept
<1>2. Spec => [][HeadKept]_vars
  BY <1>1, Invariance, PTL DEF Spec
<1>3. QED
  BY <1>2 DEF HeadKept, HeadOnlyOvertakenByHigher

-----------------------------------------------------------------------------
(***************************************************************************)
(* The refinement: the table implements the pending set.                   *)
(***************************************************************************)

\* The vectors a table holds.
VectorsOf(t) == {t[i].vec : i \in {j \in Slots : Occupied(t, j)}}

\* An insertion adds the vector of the request and adds no other.
LEMMA InsertedVectors ==
  ASSUME NEW S, SourceSet(S), NEW t \in Tables(S), NEW s \in S,
         NEW i \in Slots, InsertsAt(t, s, i)
  PROVE  /\ s.vec \in VectorsOf(Inserted(t, s, i))
         /\ VectorsOf(Inserted(t, s, i)) \subseteq VectorsOf(t) \cup {s.vec}
<1> DEFINE u == Inserted(t, s, i)
<1>1. u[i] = s /\ s.vec # 0
  BY SlotFacts DEF Inserted, SourceSet
<1>2. s.vec \in VectorsOf(u)
  BY <1>1 DEF VectorsOf, Occupied
<1>3. ASSUME NEW v \in VectorsOf(u) PROVE v \in VectorsOf(t) \cup {s.vec}
  <2>1. PICK j \in Slots : Occupied(u, j) /\ v = u[j].vec
    BY <1>3 DEF VectorsOf
  <2>2. u[j] \in {t[j], s, t[i]}
    BY DEF Inserted
  <2>3. QED
    BY <2>1, <2>2 DEF VectorsOf, Occupied
<1>4. QED
  BY <1>2, <1>3

\* A pop removes the vector of the head, unless another entry has it too.
LEMMA PoppedVectors ==
  ASSUME NEW S, SourceSet(S), NEW t \in Tables(S), Compact(t)
  PROVE  VectorsOf(Popped(t)) \in {VectorsOf(t), VectorsOf(t) \ {t[0].vec}}
<1> DEFINE u == Popped(t)
<1>1. ASSUME NEW v \in VectorsOf(u) PROVE v \in VectorsOf(t)
  <2>1. PICK j \in Slots : Occupied(u, j) /\ v = u[j].vec
    BY <1>1 DEF VectorsOf
  <2>2. j # ITABN - 1
    BY <2>1 DEF Popped, Occupied, NoIntr
  <2>3. j + 1 \in Slots /\ u[j] = t[j + 1]
    BY <2>2, ITABNAssumption DEF Popped, Slots
  <2>4. QED
    BY <2>1, <2>3 DEF VectorsOf, Occupied
<1>2. ASSUME NEW v \in VectorsOf(t), v # t[0].vec PROVE v \in VectorsOf(u)
  <2>1. PICK j \in Slots : Occupied(t, j) /\ v = t[j].vec
    BY <1>2 DEF VectorsOf
  <2>2. j - 1 \in Slots /\ u[j - 1] = t[j]
    BY <1>2, <2>1, ITABNAssumption DEF Popped, Slots
  <2>3. QED
    BY <2>1, <2>2 DEF VectorsOf, Occupied
<1>3. QED
  BY <1>1, <1>2

\* Initial states map to initial states.
LEMMA PendingInitRefined == Init => Pending!PendingInit
BY DEF Init, Pending!PendingInit, PendingVectors, Occupied, NoIntr

\* Requests map to requests or, with a full table, to nothing.
LEMMA RequestRefined ==
  ASSUME IInv, NEW s \in Sources, NEW where \in ConsoleValues, Interrupt(s, where),
         UNCHANGED vec
  PROVE  [Pending!PendingNext]_Pending!pvars
<1>1. CASE UNCHANGED itab
  BY <1>1 DEF Pending!pvars, PendingVectors, Occupied
<1>2. CASE \E i \in Slots : InsertsAt(itab, s, i) /\ itab' = Inserted(itab, s, i)
  <2>1. itab \in Tables(Sources)
    BY DEF IInv, TypeOK, Tables
  <2>2. /\ s.vec \in VectorsOf(itab')
        /\ VectorsOf(itab') \subseteq VectorsOf(itab) \cup {s.vec}
    BY <1>2, <2>1, SourcesAreSources, InsertedVectors
  <2>3. VectorsOf(itab) = PendingVectors /\ VectorsOf(itab') = PendingVectors'
    BY DEF VectorsOf, PendingVectors, Occupied
  <2> DEFINE kept == PendingVectors \cap PendingVectors'
  <2>4. kept \in SUBSET PendingVectors /\ PendingVectors' = kept \cup {s.vec}
    BY <2>2, <2>3
  <2>5. Pending!Request(s.vec)
    BY <2>4 DEF Pending!Request
  <2>6. QED
    BY <2>5 DEF Pending!PendingNext
<1>3. QED
  BY <1>1, <1>2 DEF Interrupt

\* Every step maps to a step or to nothing.
LEMMA NextRefined ==
  IInv /\ [Next]_vars => [Pending!PendingNext]_Pending!pvars
<1> SUFFICES ASSUME IInv, [Next]_vars PROVE [Pending!PendingNext]_Pending!pvars
  OBVIOUS
<1>1. CASE UNCHANGED <<itab, vec>>
  BY <1>1 DEF Pending!pvars, PendingVectors, Occupied
<1>2. CASE \/ StartDevice \/ Rewind \/ Finish \/ PollReceiver \/ PollTransmitter
           \/ Tick \/ DepositCommand
  <2>1. /\ UNCHANGED vec
        /\ \/ UNCHANGED itab
           \/ \E s \in Sources, where \in ConsoleValues : Interrupt(s, where)
    BY <1>2 DEF StartDevice, Rewind, Finish, PollReceiver, PollTransmitter, Tick,
         DepositCommand, ConsoleValues, IInv, TypeOK
  <2>2. QED
    BY <2>1, <1>1, RequestRefined
<1>3. CASE ~undefined /\ ReadVector
  <2>1. Occupied(itab, 0) /\ vec = 0
    BY <1>3 DEF ReadVector, Running, IInv, NeverBelowPriority, VectorHeld
  <2>2. vec' \in PendingVectors /\ UNCHANGED PendingVectors
    BY <1>3, <2>1, SlotFacts DEF ReadVector, PendingVectors, Occupied
  <2>3. itab[0] \in Sources /\ vec' = itab[0].vec
    BY <1>3, <2>1, SlotFacts DEF ReadVector, IInv, TypeOK, Occupied, NoIntr
  <2>4. vec' \in {s.vec : s \in Sources} /\ Pending!Deliver(vec')
    BY <2>1, <2>2, <2>3 DEF Pending!Deliver
  <2>5. QED
    BY <2>4 DEF Pending!PendingNext
<1>4. CASE PopIrq
  <2>1. itab \in Tables(Sources) /\ Compact(itab) /\ vec # 0 /\ vec' = 0
    BY <1>4 DEF PopIrq, Running, IInv, TypeOK, Tables, TableCompact, VectorHeld
  <2>2. VectorsOf(itab) = PendingVectors /\ VectorsOf(itab') = PendingVectors'
    BY DEF VectorsOf, PendingVectors, Occupied
  <2>3. PendingVectors' \in {PendingVectors, PendingVectors \ {itab[0].vec}}
    BY <1>4, <2>1, <2>2, SourcesAreSources, PoppedVectors DEF PopIrq
  <2>4. vec \in {s.vec : s \in Sources}
    BY <2>1 DEF IInv, TypeOK
  <2>5. \E gone \in {s.vec : s \in Sources} :
            PendingVectors' \in {PendingVectors, PendingVectors \ {gone}}
    <3>1. CASE Occupied(itab, 0)
      <4>1. itab[0] \in Sources
        BY <2>1, <3>1, SlotFacts DEF Tables, Occupied, NoIntr
      <4>2. QED
        BY <2>3, <4>1
    <3>2. CASE ~Occupied(itab, 0)
      <4>1. itab[0].vec \notin PendingVectors
        BY <3>2 DEF PendingVectors, Occupied
      <4>2. PendingVectors' = PendingVectors
        BY <2>3, <4>1
      <4>3. QED
        BY <2>4, <4>2
    <3>3. QED
      BY <3>1, <3>2
  <2>6. Pending!Retire
    BY <2>1, <2>5 DEF Pending!Retire
  <2>7. QED
    BY <2>6 DEF Pending!PendingNext
<1>5. QED
  BY <1>1, <1>2, <1>3, <1>4 DEF Next, Main, Operator, Stopped, vars, Execute, Trap,
     Halt, Check, EnterHandler, Deposit, BusErrorInConsole, Resume

\* Whatever the scans and shifts do to the other entries, nothing is delivered
\* that was not requested, and an accepted request is pending.
THEOREM Refinement == Spec => PendingRefined
<1>1. Spec => Pending!PendingInit /\ [][Pending!PendingNext]_Pending!pvars
  BY PendingInitRefined, NextRefined, Invariance, PTL DEF Spec
<1>2. QED
  BY <1>1 DEF PendingRefined, Pending!PendingSpec

-----------------------------------------------------------------------------
(***************************************************************************)
(* With sources of one priority the interrupt table implements the bounded *)
(* queue of InterruptQueue, however the timer interrupt falls.             *)
(***************************************************************************)
OnePriority == \A a, b \in Sources : a.pri = b.pri

\* The first n slots of a table and no others are occupied.
Filled(t, n) == n \in 0 .. ITABN /\ \A i \in Slots : Occupied(t, i) <=> i < n

\* Their vectors, in order.
VectorQueue(t, n) == [k \in 1 .. n |-> t[k - 1].vec]

AllVectors == {s.vec : s \in Sources}

-----------------------------------------------------------------------------
\* A table is filled to one number of slots at most.
LEMMA FilledUnique ==
  ASSUME NEW t, NEW m, NEW n, Filled(t, m), Filled(t, n)
  PROVE  m = n
<1>1. ASSUME m < n PROVE FALSE
  <2>1. m \in Slots
    BY <1>1, ITABNAssumption DEF Filled, Slots
  <2>2. Occupied(t, m) /\ ~(m < m)
    BY <1>1, <2>1, ITABNAssumption DEF Filled
  <2>3. QED
    BY <2>1, <2>2 DEF Filled
<1>2. ASSUME n < m PROVE FALSE
  <2>1. n \in Slots
    BY <1>2, ITABNAssumption DEF Filled, Slots
  <2>2. Occupied(t, n) /\ ~(n < n)
    BY <1>2, <2>1, ITABNAssumption DEF Filled
  <2>3. QED
    BY <2>1, <2>2 DEF Filled
<1>3. QED
  BY <1>1, <1>2, ITABNAssumption DEF Filled

\* The mapping's Used is that number.
LEMMA UsedIs ==
  ASSUME NEW n, Filled(itab, n)
  PROVE  Used = n
<1>1. Filled(itab, Used)
  BY DEF Used, Filled
<1>2. QED
  BY <1>1, FilledUnique

\* So is the mapping's Used after a step.
LEMMA UsedIsPrime ==
  ASSUME NEW n, Filled(itab', n)
  PROVE  Used' = n
<1>1. Used' = CHOOSE m \in 0 .. ITABN : \A i \in Slots : Occupied(itab', i) <=> i < m
  BY DEF Used, Occupied
<1>2. Filled(itab', Used')
  BY <1>1 DEF Filled
<1>3. QED
  BY <1>2, FilledUnique

\* The queue of a table is a sequence of vectors.
LEMMA VectorQueueType ==
  ASSUME NEW t \in Tables(Sources), NEW n, Filled(t, n)
  PROVE  VectorQueue(t, n) \in Seq(AllVectors) /\ Len(VectorQueue(t, n)) = n
<1>1. n \in Nat
  BY ITABNAssumption DEF Filled
<1>2. ASSUME NEW k \in 1 .. n PROVE t[k - 1].vec \in AllVectors
  <2>1. k - 1 \in Slots /\ k - 1 < n
    BY <1>1, ITABNAssumption DEF Slots, Filled
  <2>2. Occupied(t, k - 1)
    BY <2>1 DEF Filled
  <2>3. t[k - 1] \in Sources
    BY <2>1, <2>2 DEF Tables, Occupied, NoIntr
  <2>4. QED
    BY <2>3 DEF AllVectors
<1>3. VectorQueue(t, n) \in [1 .. n -> AllVectors]
  BY <1>2 DEF VectorQueue
<1>4. QED
  BY <1>1, <1>3, SeqDef

\* With one priority a request goes to the first empty slot ...
LEMMA InsertsAtEnd ==
  ASSUME OnePriority, NEW t \in Tables(Sources), NEW s \in Sources,
         NEW i \in 0 .. ITABN, InsertsAt(t, s, i), Compact(t)
  PROVE  Filled(t, i)
<1>1. ASSUME i < ITABN PROVE ~Occupied(t, i)
  <2>1. CASE ~Occupied(t, 0)
    BY <2>1, SlotFacts DEF InsertsAt
  <2>2. CASE Occupied(t, 0)
    <3>1. PICK p \in 0 .. ITABN : PriorityScan(t, s, p) /\ VectorScan(t, s, p, i)
      BY <2>2 DEF InsertsAt
    <3>2. p \in Slots /\ p <= i /\ i \in Slots
      BY <1>1, <3>1, ITABNAssumption DEF VectorScan, Slots
    <3>3. ~Occupied(t, p) \/ t[p].pri < s.pri
      BY <3>1, <3>2, ITABNAssumption DEF PriorityScan, Slots
    <3>4. Occupied(t, p) => t[p] \in Sources
      BY <3>2 DEF Tables, Occupied, NoIntr
    <3>5. ~Occupied(t, p)
      BY <3>3, <3>4, SourcesAreSources DEF OnePriority, SourceSet
    <3>6. p = i
      BY <3>1, <3>2, <3>5, SlotFacts DEF VectorScan
    <3>7. QED
      BY <3>5, <3>6
  <2>3. QED
    BY <2>1, <2>2
<1>2. ASSUME NEW j \in Slots, j < i PROVE Occupied(t, j)
  <2>1. CASE i \in Slots
    BY <1>2, <2>1, InsertBehindOccupied
  <2>2. CASE i = ITABN
    <3>1. PICK p \in 0 .. ITABN : PriorityScan(t, s, p) /\ VectorScan(t, s, p, i)
      BY <2>2, ITABNAssumption DEF InsertsAt
    <3>2. QED
      BY <1>2, <3>1, SlotFacts DEF PriorityScan, VectorScan
  <2>3. QED
    BY <2>1, <2>2, ITABNAssumption DEF Slots
<1>3. ASSUME NEW j \in Slots, ~(j < i) PROVE ~Occupied(t, j)
  <2>1. i < ITABN /\ i \in Slots /\ ~Occupied(t, i)
    BY <1>1, <1>3, ITABNAssumption DEF Slots
  <2>2. QED
    BY <1>3, <2>1, SlotFacts DEF Compact
<1>4. QED
  BY <1>2, <1>3 DEF Filled

\* ... and is appended to the queue.
LEMMA InsertAppends ==
  ASSUME OnePriority, NEW t \in Tables(Sources), NEW s \in Sources,
         NEW i \in Slots, InsertsAt(t, s, i), Compact(t)
  PROVE  /\ Filled(t, i)
         /\ Filled(Inserted(t, s, i), i + 1)
         /\ VectorQueue(Inserted(t, s, i), i + 1) = Append(VectorQueue(t, i), s.vec)
<1> DEFINE u == Inserted(t, s, i)
<1>1. i \in 0 .. ITABN /\ i + 1 \in 0 .. ITABN /\ i \in Nat
  BY ITABNAssumption DEF Slots
<1>2. Filled(t, i)
  BY <1>1, InsertsAtEnd
<1>3. /\ \A j \in Slots : j < i => u[j] = t[j]
      /\ u[i] = s
      /\ \A j \in Slots : j > i => u[j] \in {t[j], t[i]}
  BY SlotFacts DEF Inserted
<1>4. Filled(u, i + 1)
  <2>1. ASSUME NEW j \in Slots, j < i + 1 PROVE Occupied(u, j)
    <3>1. s.vec # 0
      BY SourcesAreSources DEF SourceSet
    <3>2. CASE j < i
      BY <1>2, <1>3, <3>2 DEF Filled, Occupied
    <3>3. CASE j = i
      BY <1>3, <3>1, <3>3 DEF Occupied
    <3>4. QED
      BY <1>1, <2>1, <3>2, <3>3, SlotFacts
  <2>2. ASSUME NEW j \in Slots, ~(j < i + 1) PROVE ~Occupied(u, j)
    <3>1. j > i /\ ~(j < i) /\ ~(i < i)
      BY <1>1, <2>2, SlotFacts
    <3>2. ~Occupied(t, j) /\ ~Occupied(t, i)
      BY <1>2, <3>1 DEF Filled
    <3>3. QED
      BY <1>3, <3>1, <3>2 DEF Occupied
  <2>3. QED
    BY <1>1, <2>1, <2>2 DEF Filled
<1>5. VectorQueue(u, i + 1) = Append(VectorQueue(t, i), s.vec)
  <2> DEFINE q == VectorQueue(t, i)
             r == VectorQueue(u, i + 1)
  <2>1. q \in Seq(AllVectors) /\ Len(q) = i /\ s.vec \in AllVectors
    BY <1>2, VectorQueueType DEF AllVectors
  <2>2. u \in Tables(Sources)
    BY InsertedType
  <2>3. r \in Seq(AllVectors) /\ Len(r) = i + 1
    BY <1>4, <2>2, VectorQueueType
  <2>4. /\ Append(q, s.vec) \in Seq(AllVectors) /\ Len(Append(q, s.vec)) = i + 1
        /\ \A k \in 1 .. i : Append(q, s.vec)[k] = q[k]
        /\ Append(q, s.vec)[i + 1] = s.vec
    BY <2>1, AppendProperties
  <2>5. ASSUME NEW k \in 1 .. i + 1 PROVE r[k] = Append(q, s.vec)[k]
    <3>1. r[k] = u[k - 1].vec
      BY DEF VectorQueue
    <3>2. CASE k = i + 1
      <4>1. u[k - 1] = s
        BY <1>1, <1>3, <3>2
      <4>2. QED
        BY <2>4, <3>1, <3>2, <4>1
    <3>3. CASE k \in 1 .. i
      <4>1. k - 1 \in Slots /\ k - 1 < i
        BY <1>1, <3>3, ITABNAssumption DEF Slots
      <4>2. q[k] = t[k - 1].vec
        BY <3>3 DEF VectorQueue
      <4>3. QED
        BY <1>3, <2>4, <3>1, <3>3, <4>1, <4>2
    <3>4. k = i + 1 \/ k \in 1 .. i
      BY <1>1
    <3>5. QED
      BY <3>2, <3>3, <3>4
  <2>6. QED
    BY <2>3, <2>4, <2>5, SeqEqual
<1>6. QED
  BY <1>2, <1>4, <1>5

\* A pop removes the head of the queue.
LEMMA PopTails ==
  ASSUME NEW t \in Tables(Sources), NEW n, Filled(t, n), n > 0
  PROVE  /\ Filled(Popped(t), n - 1)
         /\ VectorQueue(Popped(t), n - 1) = Tail(VectorQueue(t, n))
         /\ Head(VectorQueue(t, n)) = t[0].vec
<1> DEFINE u == Popped(t)
           q == VectorQueue(t, n)
           r == VectorQueue(u, n - 1)
<1>1. n \in Nat /\ n <= ITABN /\ n - 1 \in 0 .. ITABN
  BY ITABNAssumption DEF Filled
<1>2. Filled(u, n - 1)
  <2>1. ASSUME NEW j \in Slots PROVE Occupied(u, j) <=> j < n - 1
    <3>1. CASE j = ITABN - 1
      BY <1>1, <3>1, ITABNAssumption DEF Popped, Occupied, NoIntr, Slots
    <3>2. CASE j # ITABN - 1
      <4>1. j + 1 \in Slots /\ u[j] = t[j + 1]
        BY <3>2, ITABNAssumption DEF Popped, Slots
      <4>2. Occupied(t, j + 1) <=> j + 1 < n
        BY <4>1 DEF Filled
      <4>3. QED
        BY <1>1, <4>1, <4>2, SlotFacts DEF Occupied
    <3>3. QED
      BY <3>1, <3>2
  <2>2. QED
    BY <1>1, <2>1 DEF Filled
<1>3. q \in Seq(AllVectors) /\ Len(q) = n
  BY VectorQueueType
<1>4. r \in Seq(AllVectors) /\ Len(r) = n - 1
  BY <1>2, PoppedType, VectorQueueType
<1>5. q # << >>
  BY <1>1, <1>3
<1>6. /\ Tail(q) \in Seq(AllVectors) /\ Len(Tail(q)) = n - 1
      /\ \A k \in 1 .. n - 1 : Tail(q)[k] = q[k + 1]
  BY <1>3, <1>5, HeadTailProperties
<1>7. ASSUME NEW k \in 1 .. n - 1 PROVE r[k] = Tail(q)[k]
  <2>1. k - 1 \in Slots /\ k - 1 # ITABN - 1 /\ k + 1 \in 1 .. n /\ (k - 1) + 1 = k
    BY <1>1, ITABNAssumption DEF Slots
  <2>2. r[k] = u[k - 1].vec /\ u[k - 1] = t[k]
    BY <2>1 DEF VectorQueue, Popped
  <2>3. q[k + 1] = t[k].vec
    BY <1>1, <2>1 DEF VectorQueue
  <2>4. QED
    BY <1>6, <2>2, <2>3
<1>8. r = Tail(q)
  BY <1>4, <1>6, <1>7, SeqEqual
<1>9. Head(q) = t[0].vec
  <2>1. Head(q) = q[1]
    BY <1>3, <1>5
  <2>2. QED
    BY <1>1, <2>1 DEF VectorQueue
<1>10. QED
  BY <1>2, <1>8, <1>9

-----------------------------------------------------------------------------
(***************************************************************************)
(* The invariant the refinement needs: while handleinterrupt() delivers,   *)
(* the entry it delivers is still the head.  It is the fact that fails as  *)
(* soon as a source of higher priority can come in between.                *)
(***************************************************************************)

HeadIsDelivered == pc \in {"vector", "pop"} => Occupied(itab, 0) /\ itab[0].vec = vec

\* The table is a full prefix; with the sources' one priority no entry is ever
\* copied over another.
TableFilled == \E n \in 0 .. ITABN : Filled(itab, n)

QInv == IInv /\ HeadIsDelivered /\ TableFilled

\* What cpu::interrupt() does to the queue.
LEMMA InterruptQueued ==
  ASSUME OnePriority, IInv, NEW s \in Sources, NEW where, Interrupt(s, where)
  PROVE  \/ UNCHANGED itab
         \/ \E n \in Slots :
                /\ Filled(itab, n)
                /\ Filled(itab', n + 1)
                /\ VectorQueue(itab', n + 1) = Append(VectorQueue(itab, n), s.vec)
                /\ n > 0 => itab'[0] = itab[0]
<1>1. itab \in Tables(Sources) /\ Compact(itab)
  BY DEF IInv, TypeOK, Tables, TableCompact
<1>2. CASE \E i \in Slots : InsertsAt(itab, s, i) /\ itab' = Inserted(itab, s, i)
  <2>1. PICK i \in Slots : InsertsAt(itab, s, i) /\ itab' = Inserted(itab, s, i)
    BY <1>2
  <2>2. i > 0 => itab'[0] = itab[0]
    BY <2>1, SlotFacts DEF Inserted
  <2>3. QED
    BY <1>1, <2>1, <2>2, InsertAppends
<1>3. CASE UNCHANGED itab
  BY <1>3
<1>4. QED
  BY <1>2, <1>3 DEF Interrupt

\* Every step keeps the entry being delivered at the head of the table.
LEMMA NextHeadIsDelivered ==
  ASSUME OnePriority, QInv, [Next]_vars
  PROVE  HeadIsDelivered'
<1> USE DEF QInv
<1>1. CASE UNCHANGED <<itab, vec>> /\ (pc' \in {"vector", "pop"} => pc \in {"vector", "pop"})
  BY <1>1 DEF HeadIsDelivered, Occupied
<1>2. CASE Tick \/ DepositCommand
  <2>1. UNCHANGED <<pc, vec>>
    BY <1>2 DEF Tick, DepositCommand
  <2>2. PICK s \in Sources, where \in ConsoleValues : Interrupt(s, where)
    BY <1>2 DEF Tick, DepositCommand, ConsoleValues, IInv, TypeOK
  <2>3. CASE UNCHANGED itab
    BY <1>1, <2>1, <2>3
  <2>4. CASE pc \in {"vector", "pop"} /\ itab' # itab
    <3>1. PICK n \in Slots : Filled(itab, n) /\ (n > 0 => itab'[0] = itab[0])
      BY <2>2, <2>4, InterruptQueued
    <3>2. n > 0
      BY <2>4, <3>1, SlotFacts DEF HeadIsDelivered, Filled
    <3>3. QED
      BY <2>1, <3>1, <3>2 DEF HeadIsDelivered, Occupied
  <2>5. CASE pc \notin {"vector", "pop"}
    BY <2>1, <2>5 DEF HeadIsDelivered
  <2>6. QED
    BY <2>3, <2>4, <2>5
<1>3. CASE ~undefined /\ ReadVector
  BY <1>3 DEF ReadVector, Running, IInv, NeverBelowPriority, HeadIsDelivered, Occupied
<1>4. CASE PopIrq \/ StartDevice \/ Rewind \/ Finish \/ PollReceiver \/ PollTransmitter
  BY <1>4 DEF PopIrq, StartDevice, Rewind, Finish, PollReceiver, PollTransmitter,
     HeadIsDelivered
<1>5. CASE \/ Execute \/ Trap \/ Halt \/ Check \/ EnterHandler \/ Deposit
           \/ BusErrorInConsole \/ Resume \/ UNCHANGED vars
  <2>1. UNCHANGED <<itab, vec>> /\ (pc' \in {"vector", "pop"} => pc \in {"vector", "pop"})
    BY <1>5 DEF Execute, Trap, Halt, Check, EnterHandler, Deposit, BusErrorInConsole,
         Resume, Running, vars
  <2>2. QED
    BY <1>1, <2>1
<1>6. QED
  BY <1>2, <1>3, <1>4, <1>5 DEF Next, Main, Operator, Stopped

\* The table stays filled.
LEMMA NextTableFilled ==
  ASSUME OnePriority, QInv, [Next]_vars
  PROVE  TableFilled'
<1>1. CASE UNCHANGED itab
  BY <1>1 DEF QInv, TableFilled, Filled, Occupied
<1>2. ASSUME NEW s \in Sources, NEW where, Interrupt(s, where), itab' # itab
      PROVE  TableFilled'
  <2>1. PICK n \in Slots : Filled(itab', n + 1)
    BY <1>2, InterruptQueued DEF QInv
  <2>2. n + 1 \in 0 .. ITABN
    BY ITABNAssumption DEF Slots
  <2>3. QED
    BY <2>1, <2>2 DEF TableFilled, Filled, Occupied
<1>3. CASE PopIrq
  <2>1. PICK n \in 0 .. ITABN : Filled(itab, n)
    BY DEF QInv, TableFilled
  <2>2. n > 0
    BY <1>3, <2>1, SlotFacts DEF QInv, HeadIsDelivered, PopIrq, Running, Filled
  <2>3. itab \in Tables(Sources) /\ itab' = Popped(itab)
    BY <1>3 DEF QInv, IInv, TypeOK, Tables, PopIrq
  <2>4. Filled(itab', n - 1) /\ n - 1 \in 0 .. ITABN
    BY <2>1, <2>2, <2>3, ITABNAssumption, PopTails
  <2>5. QED
    BY <2>4 DEF TableFilled, Filled, Occupied
<1>4. CASE \/ StartDevice \/ Rewind \/ Finish \/ PollReceiver \/ PollTransmitter
           \/ Tick \/ DepositCommand
  <2>1. UNCHANGED itab \/ \E s \in Sources, where \in ConsoleValues : Interrupt(s, where)
    BY <1>4 DEF StartDevice, Rewind, Finish, PollReceiver, PollTransmitter, Tick,
         DepositCommand, ConsoleValues, QInv, IInv, TypeOK
  <2>2. QED
    BY <2>1, <1>1, <1>2
<1>5. QED
  BY <1>1, <1>3, <1>4 DEF Next, Main, Operator, Stopped, vars, Execute, Trap, Halt,
     Check, ReadVector, EnterHandler, Deposit, BusErrorInConsole, Resume

\* Under one priority the strengthened invariant holds.
LEMMA QueueInvariance ==
  ASSUME OnePriority
  PROVE  Spec => []QInv
<1>1. Init => QInv
  <2>1. Init => Filled(itab, 0)
    BY ITABNAssumption DEF Init, Filled, Occupied, NoIntr, Slots
  <2>2. Init => HeadIsDelivered
    BY DEF Init, HeadIsDelivered
  <2>3. QED
    BY <2>1, <2>2, InitIInv, ITABNAssumption DEF QInv, TableFilled
<1>2. QInv /\ [Next]_vars => QInv'
  BY NextIInv, NextHeadIsDelivered, NextTableFilled DEF QInv
<1>3. QED
  BY <1>1, <1>2, PTL DEF Spec

-----------------------------------------------------------------------------
(***************************************************************************)
(* The refinement.                                                         *)
(***************************************************************************)

\* The mapped queue, in terms of the slots in use.
MappedQueue == [k \in 1 .. Used |-> itab[k - 1].vec]

\* With n slots in use it is the queue of their vectors,
LEMMA MappedIs ==
  ASSUME NEW n, Filled(itab, n)
  PROVE  MappedQueue = VectorQueue(itab, n)
BY UsedIs DEF MappedQueue, VectorQueue

\* and so it is after a step.
LEMMA MappedIsPrime ==
  ASSUME NEW n, Filled(itab', n)
  PROVE  MappedQueue' = VectorQueue(itab', n)
BY UsedIsPrime DEF MappedQueue, VectorQueue

\* Requests append or, with a full table, do nothing.
LEMMA RequestQueued ==
  ASSUME OnePriority, QInv, NEW s \in Sources, NEW where \in ConsoleValues,
         Interrupt(s, where), UNCHANGED vec
  PROVE  [Queue!QueueNext]_Queue!qvars
<1>1. CASE UNCHANGED itab
  <2>1. UNCHANGED Used
    BY <1>1 DEF Used, Occupied
  <2>2. QED
    BY <1>1, <2>1 DEF Queue!qvars
<1>2. CASE itab' # itab
  <2>1. PICK n \in Slots :
                /\ Filled(itab, n)
                /\ Filled(itab', n + 1)
                /\ VectorQueue(itab', n + 1) = Append(VectorQueue(itab, n), s.vec)
    BY <1>2, InterruptQueued DEF QInv
  <2>2. MappedQueue' = Append(MappedQueue, s.vec)
    BY <2>1, MappedIs, MappedIsPrime
  <2>3. Len(MappedQueue) = n /\ n < ITABN
    <3>1. itab \in Tables(Sources)
      BY DEF QInv, IInv, TypeOK, Tables
    <3>2. QED
      BY <2>1, <3>1, MappedIs, VectorQueueType, ITABNAssumption DEF Slots
  <2>4. Queue!Request(s.vec)
    BY <2>2, <2>3 DEF Queue!Request, MappedQueue
  <2>5. QED
    BY <2>4 DEF Queue!QueueNext
<1>3. QED
  BY <1>1, <1>2

\* Every step of the program is a step of the queue, or none.
LEMMA NextQueued ==
  ASSUME OnePriority, QInv, [Next]_vars
  PROVE  [Queue!QueueNext]_Queue!qvars
<1>1. CASE UNCHANGED <<itab, vec>>
  <2>1. UNCHANGED Used
    BY <1>1 DEF Used, Occupied
  <2>2. QED
    BY <1>1, <2>1 DEF Queue!qvars
<1>2. CASE \/ StartDevice \/ Rewind \/ Finish \/ PollReceiver \/ PollTransmitter
           \/ Tick \/ DepositCommand
  <2>1. /\ UNCHANGED vec
        /\ \/ UNCHANGED itab
           \/ \E s \in Sources, where \in ConsoleValues : Interrupt(s, where)
    BY <1>2 DEF StartDevice, Rewind, Finish, PollReceiver, PollTransmitter, Tick,
         DepositCommand, ConsoleValues, QInv, IInv, TypeOK
  <2>2. QED
    BY <2>1, <1>1, RequestQueued
<1>3. itab \in Tables(Sources) /\ \E n \in 0 .. ITABN : Filled(itab, n)
  BY DEF QInv, IInv, TypeOK, Tables, TableFilled
<1>4. PICK n \in 0 .. ITABN : Filled(itab, n)
  BY <1>3
<1>5. CASE ~undefined /\ ReadVector
  <2>1. Occupied(itab, 0) /\ vec = 0 /\ vec' = itab[0].vec /\ UNCHANGED itab
    BY <1>5 DEF ReadVector, Running, QInv, IInv, NeverBelowPriority, VectorHeld
  <2>2. n > 0
    BY <1>4, <2>1, SlotFacts DEF Filled
  <2>3. Head(MappedQueue) = vec' /\ MappedQueue # << >>
    <3>1. MappedQueue = VectorQueue(itab, n) /\ Len(MappedQueue) = n
      BY <1>3, <1>4, MappedIs, VectorQueueType
    <3>2. QED
      BY <1>3, <1>4, <2>1, <2>2, <3>1, PopTails
  <2>4. UNCHANGED MappedQueue
    BY <2>1 DEF MappedQueue, Used, Occupied
  <2>5. Queue!Deliver
    BY <2>1, <2>3, <2>4 DEF Queue!Deliver, MappedQueue
  <2>6. QED
    BY <2>5 DEF Queue!QueueNext
<1>6. CASE PopIrq
  <2>1. /\ itab' = Popped(itab) /\ vec # 0 /\ vec' = 0
        /\ Occupied(itab, 0) /\ itab[0].vec = vec
    BY <1>6 DEF PopIrq, Running, QInv, IInv, VectorHeld, HeadIsDelivered
  <2>2. n > 0
    BY <1>4, <2>1, SlotFacts DEF Filled
  <2>3. /\ Filled(itab', n - 1)
        /\ VectorQueue(itab', n - 1) = Tail(VectorQueue(itab, n))
        /\ Head(VectorQueue(itab, n)) = itab[0].vec
    BY <1>3, <1>4, <2>1, <2>2, PopTails
  <2>4. MappedQueue' = Tail(MappedQueue) /\ Head(MappedQueue) = vec
    BY <1>4, <2>1, <2>3, MappedIs, MappedIsPrime
  <2>5. Queue!Retire
    BY <2>1, <2>4 DEF Queue!Retire, MappedQueue
  <2>6. QED
    BY <2>5 DEF Queue!QueueNext
<1>7. QED
  BY <1>1, <1>2, <1>5, <1>6 DEF Next, Main, Operator, Stopped, vars, Execute, Trap,
     Halt, Check, EnterHandler, Deposit, BusErrorInConsole, Resume

\* The program starts with an empty queue.
LEMMA InitQueued ==
  ASSUME Init
  PROVE  Queue!QueueInit
<1>1. Filled(itab, 0)
  BY ITABNAssumption DEF Init, Filled, Occupied, NoIntr, Slots
<1>2. MappedQueue = << >>
  <2>1. itab \in Tables(Sources)
    BY DEF Init, Tables
  <2>2. MappedQueue \in Seq(AllVectors) /\ Len(MappedQueue) = 0
    BY <1>1, <2>1, MappedIs, VectorQueueType
  <2>3. QED
    BY <2>2, EmptySeq
<1>3. QED
  BY <1>2 DEF Init, Queue!QueueInit, MappedQueue

\* Sources of one priority: each accepted request is delivered exactly once
\* and in order, and only a table with ITABN requests refuses one.
THEOREM QueueImplemented ==
  ASSUME OnePriority
  PROVE  Spec => QueueRefined
<1>1. Init => Queue!QueueInit
  BY InitQueued
<1>2. QInv /\ [Next]_vars => [Queue!QueueNext]_Queue!qvars
  BY NextQueued
<1>3. Spec => Queue!QueueInit /\ [][Queue!QueueNext]_Queue!qvars
  BY <1>1, <1>2, QueueInvariance, PTL DEF Spec
<1>4. QED
  BY <1>3 DEF QueueRefined, Queue!QueueSpec

-----------------------------------------------------------------------------
(***************************************************************************)
(* The console line: an instance of InterruptDelivery whose table is a     *)
(* queue, and what it carries is accounted for in both directions.         *)
(***************************************************************************)

Bases == {"boot", "open", "user"}
Routines == {"start", "store", "read"}

\* The guest has one routine at most on top of what it interrupted: all of them
\* run at a priority that keeps the line out.
CodeOK == \E b \in Bases : code = <<b>> \/ \E r \in Routines : code = <<b, r>>

Characters == {Nul, Letter} \cup Keys

\* The transmitter waits Pace polls, and a driver about to store has found it
\* ready and something in its queue.
DriverOK ==
    /\ written \in Seq(Characters) /\ printed \in Seq(Characters)
    /\ queue \in Seq(Characters)
    /\ xcsr.ready \/ count <= Pace
    /\ Last(code) = "store" => xcsr.ready /\ queue # << >>

\* Until the driver opens the line it requests nothing.
BootQuiet ==
    code[1] = "boot" =>
        /\ code = <<"boot">> /\ queue = << >>
        /\ ~rcsr.ie /\ ~xcsr.ie
        /\ ~Occupied(itab, 0) /\ pc \notin {"handle", "vector", "pop"}

\* The n-th key is n or a control key.
TypedOK == \A n \in 1 .. Len(typed) : typed[n] \in {n, CtrlP, CtrlT}

\* Each accepted character has been read or has a read to come.
InputCounted == Len(accepted) = Len(received) + Owed

\* What is in RBUF is newer than what has been read, and newer than every
\* character whose read has been made.
InputFresh ==
    /\ \A i \in 1 .. Len(accepted) : accepted[i] <= polled
    /\ \A i \in 1 .. Len(received) : /\ received[i] <= polled
                                     /\ received[i] = Nul \/ received[i] >= accepted[i]
    /\ \A i, j \in 1 .. Len(received) :
           i < j /\ Nul \notin {received[i], received[j]} => received[i] < received[j]
    /\ rcsr.done =>
           /\ rbuf <= polled
           /\ \A i \in 1 .. Len(accepted) : accepted[i] <= rbuf
           /\ \A i \in 1 .. Len(received) : accepted[i] < rbuf /\ received[i] < rbuf

InputOK == InputCounted /\ InputFresh

LineIInv ==
    /\ QInv
    /\ LineTypeOK /\ CodeOK /\ DriverOK /\ BootQuiet /\ TypedOK
    /\ accepted \in Seq(Keys) /\ received \in Seq(Keys \cup {Nul})
    /\ OutputInOrder
    /\ ~undefined /\ console # "full" => InputOK

-----------------------------------------------------------------------------
(***************************************************************************)
(* The line is an instance of the interrupt delivery.                      *)
(***************************************************************************)
LEMMA OneLinePriority == OnePriority
BY DriverAssumption DEF OnePriority, TtyIn, TtyOut

LEMMA LevelIsLevel == \A activity : Level(activity) \in Levels
BY DriverAssumption DEF Level

LEMMA GuestIsDelivery ==
    ASSUME TypeOK, Guest
    PROVE  Execute \/ Trap
<1>1. Running("step") /\ UNCHANGED <<itab, clockIE, vec, console, active, undefined>>
  BY DEF Guest, BootPrints, BootResets, OpensTransmitter, OpensReceiver, Writes, Starts,
     Stores, Reads, Computes, Instruction
<1>2. priority' \in Levels
  BY LevelIsLevel DEF Guest, BootPrints, BootResets, OpensTransmitter, OpensReceiver, Writes,
     Starts, Stores, Reads, Computes, Becomes, Now, TypeOK
<1>3. pc' \in {"check", "step"}
  BY DEF Guest, BootPrints, BootResets, OpensTransmitter, OpensReceiver, Writes, Starts,
     Stores, Reads, Computes, Instruction
<1> QED BY <1>1, <1>2, <1>3 DEF Execute, Trap

LEMMA LineIsDelivery ==
    ASSUME TypeOK, [LineNext]_<<vars, lineVars>>
    PROVE  [Next]_vars
<1>1. CASE UNCHANGED <<vars, lineVars>> \/ Types
  BY <1>1 DEF Types
<1>2. CASE ~undefined /\ Guest
  BY <1>2, GuestIsDelivery DEF Next, Main
<1>3. CASE ~undefined /\ LineEnterHandler
  <2>1. priority' \in Levels
    BY <1>3, LevelIsLevel DEF LineEnterHandler, Now
  <2> QED BY <1>3, <2>1 DEF LineEnterHandler, EnterHandler, Next, Main
<1>4. CASE ~undefined /\ LinePollReceiver
  <2>1. TtyIn \in Sources
    BY DriverAssumption
  <2>2. PollReceiver
    BY <1>4, <2>1 DEF LinePollReceiver, PollReceiver, AddChar, Requests
  <2> QED BY <1>4, <2>2 DEF Next, Main
<1>5. CASE ~undefined /\ LinePollTransmitter
  <2>1. TtyOut \in Sources
    BY DriverAssumption
  <2>2. PollTransmitter
    BY <1>5, <2>1 DEF LinePollTransmitter, PollTransmitter, Send, Requests
  <2> QED BY <1>5, <2>2 DEF Next, Main
<1>6. CASE ~undefined /\ (Check \/ ReadVector \/ PopIrq \/ LineResume)
  BY <1>6 DEF LineResume, Next, Main, Operator
<1>7. CASE Stopped
  BY <1>7 DEF Next
<1> QED BY <1>1, <1>2, <1>3, <1>4, <1>5, <1>6, <1>7 DEF LineNext, LineMain

-----------------------------------------------------------------------------
(***************************************************************************)
(* The guest's code.                                                       *)
(***************************************************************************)
LEMMA CodeFacts ==
    ASSUME NEW b, NEW r
    PROVE  /\ Last(<<b>>) = b /\ Front(<<b>>) = << >>
           /\ Last(<<b, r>>) = r /\ Front(<<b, r>>) = <<b>>
           /\ Append(<< >>, b) = <<b>> /\ Append(<<b>>, r) = <<b, r>>
<1>1. Len(<<b>>) = 1 /\ Len(<<b, r>>) = 2 /\ Last(<<b>>) = b /\ Last(<<b, r>>) = r
  BY DEF Last
<1>2. Front(<<b>>) = << >>
  BY <1>1, SubSeqEmpty DEF Front
<1>3. Front(<<b, r>>) = <<b>>
  <2>1. PICK f : f = SubSeq(<<b, r>>, 1, 1)
    OBVIOUS
  <2>2. <<b>> \in Seq({b, r}) /\ \A i \in 1 .. 1 : <<b, r>>[i] \in {b, r} /\ <<b, r>>[1] = b
    OBVIOUS
  <2>3. f \in Seq({b, r}) /\ Len(f) = 1 /\ f[1] = <<b, r>>[1]
    BY <2>1, <2>2, SubSeqProperties
  <2>4. f = <<b>>
    BY <2>2, <2>3, SeqEqual
  <2>5. Len(<<b, r>>) - 1 = 1
    BY <1>1
  <2>6. Front(<<b, r>>) = SubSeq(<<b, r>>, 1, 1)
    BY <2>5 DEF Front
  <2> QED BY <2>1, <2>4, <2>6
<1>4. Append(<< >>, b) = <<b>>
  <2>1. << >> \in Seq({b}) /\ <<b>> \in Seq({b}) /\ b \in {b}
    OBVIOUS
  <2> QED BY <2>1, AppendIsConcat, ConcatEmptySeq
<1>5. Append(<<b>>, r) = <<b, r>>
  <2>1. <<b>> \in Seq({b, r}) /\ <<b, r>> \in Seq({b, r}) /\ Len(<<b>>) = 1 /\ r \in {b, r}
    OBVIOUS
  <2>2. PICK a : a = Append(<<b>>, r)
    OBVIOUS
  <2>3. a \in Seq({b, r}) /\ Len(a) = 2 /\ a[1] = b /\ a[2] = r
    BY <2>1, <2>2, AppendProperties
  <2>4. Len(a) = Len(<<b, r>>) /\ \A i \in 1 .. Len(a) : a[i] = <<b, r>>[i]
    BY <1>1, <2>3
  <2> QED BY <2>1, <2>2, <2>3, <2>4, SeqEqual
<1> QED BY <1>1, <1>2, <1>3, <1>4, <1>5

\* What the guest runs is a base, or a routine on a base.
LEMMA CodeIs ==
    ASSUME CodeOK
    PROVE  /\ Last(code) \in Bases \cup Routines
           /\ Last(code) \in Bases => code = <<Last(code)>>
           /\ Last(code) \in Routines => \E b \in Bases : code = <<b, Last(code)>>
<1>1. ASSUME NEW b \in Bases, code = <<b>> PROVE Last(code) = b
  BY <1>1, CodeFacts
<1>2. ASSUME NEW b \in Bases, NEW r \in Routines, code = <<b, r>> PROVE Last(code) = r
  BY <1>2, CodeFacts
<1> QED BY <1>1, <1>2 DEF CodeOK, Bases, Routines

LEMMA LastPrime == Last(code)' = Last(code')
BY DEF Last

\* A base gives way to another, a routine to the next or to the base below it.
LEMMA BaseBecomes ==
    ASSUME CodeOK, Last(code) \in Bases, NEW b \in Bases, Becomes(b)
    PROVE  code' = <<b>> /\ CodeOK' /\ Last(code') = b /\ priority' = Level(b)
<1>1. PICK a : code = <<a>>
  BY CodeIs
<1>2. code' = <<b>> /\ priority' = Level(b)
  BY <1>1, CodeFacts DEF Becomes, Now
<1> QED BY <1>2, CodeFacts DEF CodeOK

LEMMA RoutineBecomes ==
    ASSUME CodeOK, Last(code) \in Routines, NEW r \in Routines, Becomes(r)
    PROVE  code'[1] = code[1] /\ CodeOK' /\ Last(code') = r /\ priority' = Level(r)
<1>1. PICK b \in Bases, q \in Routines : code = <<b, q>>
  BY CodeIs
<1>2. Front(code) = <<b>> /\ Append(<<b>>, r) = <<b, r>> /\ Last(<<b, r>>) = r
  BY <1>1, CodeFacts
<1>3. code' = <<b, r>> /\ priority' = Level(r)
  BY <1>2 DEF Becomes, Now
<1> QED BY <1>1, <1>2, <1>3 DEF CodeOK

LEMMA RoutineEnds ==
    ASSUME CodeOK, Last(code) \in Routines, Now(Front(code))
    PROVE  code'[1] = code[1] /\ CodeOK' /\ Last(code') \in Bases
           /\ priority' = Level(Last(code'))
<1>1. PICK b \in Bases, q \in Routines : code = <<b, q>>
  BY CodeIs
<1>2. code' = <<b>> /\ priority' = Level(Last(<<b>>))
  BY <1>1, CodeFacts DEF Now
<1> QED BY <1>1, <1>2, CodeFacts DEF CodeOK

LEMMA RoutineStarts ==
    ASSUME CodeOK, Last(code) \in Bases, NEW r \in Routines, Now(Append(code, r))
    PROVE  code'[1] = code[1] /\ CodeOK' /\ Last(code') = r /\ priority' = Level(r)
<1>1. PICK b \in Bases : code = <<b>>
  BY CodeIs
<1>2. code' = <<b, r>> /\ priority' = Level(Last(<<b, r>>))
  BY <1>1, CodeFacts DEF Now
<1> QED BY <1>1, <1>2, CodeFacts DEF CodeOK

\* A handler is entered from a base only: a routine's priority masks the line.
LEMMA EntersFromBase ==
    ASSUME LineIInv, Running("vector"), ~undefined
    PROVE  Last(code) \in Bases /\ vec \in {TtyIn.vec, TtyOut.vec}
<1>1. PICK s \in {TtyIn, TtyOut} : s.vec = vec /\ s.pri >= priority
  BY DriverAssumption DEF LineIInv, QInv, IInv, NeverBelowPriority, Running
<1>2. priority = Level(Last(code)) /\ CodeOK
  BY DEF LineIInv, LineTypeOK
<1>3. Last(code) \notin Routines
  BY <1>1, <1>2, DriverAssumption DEF Level, Routines, TtyIn, TtyOut
<1> QED BY <1>1, <1>2, <1>3, CodeIs

\* While the bootstrap runs there is nothing but the bootstrap.
LEMMA InBoot ==
    ASSUME LineIInv, code[1] = "boot"
    PROVE  /\ code = <<"boot">> /\ Last(code) = "boot" /\ queue = << >>
           /\ ~rcsr.ie /\ ~xcsr.ie /\ ~Occupied(itab, 0)
           /\ pc \notin {"handle", "vector", "pop"}
<1>1. code = <<"boot">>
  BY DEF LineIInv, BootQuiet
<1> QED BY <1>1, CodeFacts DEF LineIInv, BootQuiet

LEMMA NextCode ==
    ASSUME LineIInv, [LineNext]_<<vars, lineVars>>
    PROVE  /\ CodeOK' /\ priority' = Level(Last(code'))
           /\ code'[1] = "boot" => code' = code
<1> USE DEF Bases, Routines
<1>1. CodeOK /\ priority = Level(Last(code))
  BY DEF LineIInv, LineTypeOK
<1>2. CASE UNCHANGED <<code, priority>>
  BY <1>1, <1>2 DEF CodeOK
<1>3. CASE Types \/ LineResume \/ Stopped \/ UNCHANGED <<vars, lineVars>>
  <2>1. UNCHANGED <<code, priority>>
    BY <1>3 DEF Types, LineResume, Resume, Stopped, vars, lineVars, driver, LineNext
  <2> QED BY <1>2, <2>1
<1>4. CASE OpensTransmitter
  BY <1>1, <1>4, BaseBecomes DEF OpensTransmitter, Instruction
<1>5. CASE OpensReceiver
  BY <1>1, <1>5, BaseBecomes DEF OpensReceiver, Instruction
<1>6. ASSUME code'[1] = code[1], Last(code) # "boot" PROVE code'[1] # "boot"
  BY <1>6, InBoot
<1>7. CASE Writes
  BY <1>1, <1>6, <1>7, RoutineStarts DEF Writes, Instruction
<1>8. CASE Starts
  BY <1>1, <1>6, <1>8, RoutineBecomes, RoutineEnds DEF Starts, Instruction
<1>9. CASE Stores
  BY <1>1, <1>6, <1>9, RoutineEnds DEF Stores, Instruction
<1>10. CASE Reads
  BY <1>1, <1>6, <1>10, RoutineBecomes DEF Reads, Instruction
<1>11. CASE ~undefined /\ LineEnterHandler
  <2>1. Last(code) \in Bases /\ Last(code) # "boot"
    <3>1. Running("vector")
      BY <1>11 DEF LineEnterHandler
    <3>2. Last(code) = "boot" => code[1] = "boot"
      BY <1>1, CodeIs
    <3> QED BY <1>11, <3>1, <3>2, EntersFromBase, InBoot DEF Running
  <2>2. PICK r \in Routines : Now(Append(code, r))
    BY <1>11 DEF LineEnterHandler
  <2> QED BY <1>1, <1>6, <2>1, <2>2, RoutineStarts
<1>12. CASE \/ BootPrints \/ BootResets \/ Computes \/ LinePollReceiver \/ LinePollTransmitter
            \/ (Check \/ ReadVector \/ PopIrq) /\ UNCHANGED lineVars
  <2>1. UNCHANGED <<code, priority>>
    BY <1>12 DEF BootPrints, BootResets, Computes, LinePollReceiver, LinePollTransmitter,
       Check, ReadVector, PopIrq, lineVars, driver
  <2> QED BY <1>2, <2>1
<1> QED BY <1>3, <1>4, <1>5, <1>7, <1>8, <1>9, <1>10, <1>11, <1>12
        DEF LineNext, LineMain, Guest

-----------------------------------------------------------------------------
(***************************************************************************)
(* Characters and sequences of them.                                       *)
(***************************************************************************)

\* The parity bit goes out and comes off again.
LEMMA CharacterFacts ==
    ASSUME NEW c \in Characters
    PROVE  /\ c \in 0 .. 127
           /\ WithParity(c) % 256 \in OutputBytes
           /\ (WithParity(c) % 256) % 128 = c
<1>1. c \in 0 .. 127
  BY LineAssumption DEF Characters, Keys, Nul, Letter
<1>2. WithParity(c) \in OutputBytes
  BY DEF OutputBytes, Characters
<1>3. WithParity(c) \in {c, c + 128}
  BY DEF WithParity
<1>4. WithParity(c) % 256 = WithParity(c) /\ WithParity(c) % 128 = c
  BY <1>1, <1>3
<1> QED BY <1>1, <1>2, <1>4

\* p, x and q are what is printed, in the transmitter and in the queue.
LEMMA QueueGrows ==
    \A p, x, q \in Seq(Characters), c \in Characters :
        Append(p \o x \o q, c) = p \o x \o Append(q, c)
<1> SUFFICES ASSUME NEW p \in Seq(Characters), NEW x \in Seq(Characters),
                    NEW q \in Seq(Characters), NEW c \in Characters
             PROVE  Append(p \o x \o q, c) = p \o x \o Append(q, c)
  OBVIOUS
<1>1. PICK px \in Seq(Characters) : px = p \o x
  BY ConcatProperties
<1>2. PICK r \in Seq(Characters) : r = <<c>>
  <2>1. <<c>> \in Seq(Characters)
    OBVIOUS
  <2> QED BY <2>1
<1>3. px \o q \in Seq(Characters)
  BY <1>1, ConcatProperties
<1>4. Append(px \o q, c) = (px \o q) \o r /\ Append(q, c) = q \o r
  BY <1>2, <1>3, AppendIsConcat
<1>5. (px \o q) \o r = px \o (q \o r)
  BY <1>1, <1>2, ConcatAssociative, SMTT(60)
<1> QED BY <1>1, <1>4, <1>5

LEMMA HeadToTransmitter ==
    ASSUME NEW S, NEW p \in Seq(S), NEW q \in Seq(S), q # << >>
    PROVE  p \o << >> \o q = p \o <<Head(q)>> \o Tail(q)
<1>1. Head(q) \in S /\ Tail(q) \in Seq(S) /\ <<Head(q)>> \in Seq(S)
  BY HeadTailProperties
<1>2. q = <<Head(q)>> \o Tail(q)
  <2>1. Len(q) \in Nat \ {0} /\ Head(q) = q[1]
    BY EmptySeq
  <2>2. SubSeq(q, 1, Len(q)) = <<q[1]>> \o SubSeq(q, 2, Len(q))
    BY <2>1, SubSeqRecursiveFirst
  <2> QED BY <2>1, <2>2, SubSeqFull, TailIsSubSeq
<1>3. p \o q = (p \o <<Head(q)>>) \o Tail(q)
  BY <1>1, <1>2, ConcatAssociative
<1> QED BY <1>3, ConcatEmptySeq

LEMMA TransmitterToPrinted ==
    ASSUME NEW S, NEW p \in Seq(S), NEW q \in Seq(S), NEW c \in S
    PROVE  p \o <<c>> \o q = Append(p, c) \o << >> \o q
<1>1. Append(p, c) \in Seq(S) /\ Append(p, c) = p \o <<c>>
  BY AppendIsConcat, AppendProperties
<1> QED BY <1>1, ConcatEmptySeq

-----------------------------------------------------------------------------
(***************************************************************************)
(* Output.                                                                 *)
(***************************************************************************)

\* What a store into XBUF leaves.
LEMMA XbufStored ==
    ASSUME LineIInv, NEW c \in Characters, WriteXbuf(WithParity(c))
    PROVE  /\ xbuf' \in OutputBytes /\ xbuf' % 128 = c /\ count' = 0
           /\ xcsr' = [ready |-> FALSE, ie |-> xcsr.ie]
           /\ UNCHANGED <<rcsr, rbuf>>
<1>1. xcsr \in [ready : BOOLEAN, ie : BOOLEAN]
  BY DEF LineIInv, LineTypeOK
<1>2. xbuf' = WithParity(c) % 256 /\ xcsr' = [xcsr EXCEPT !.ready = FALSE] /\ count' = 0
      /\ UNCHANGED <<rcsr, rbuf>>
  BY DEF WriteXbuf
<1>3. xcsr' = [ready |-> FALSE, ie |-> xcsr.ie]
  BY <1>1, <1>2
<1>4. xbuf' \in OutputBytes /\ xbuf' % 128 = c
  BY <1>2, CharacterFacts
<1> QED BY <1>2, <1>3, <1>4

\* A byte in a busy transmitter is a character: it is one that has been stored.
LEMMA TransmitterFacts ==
    ASSUME LineIInv
    PROVE  xbuf % 128 \in Characters
<1>1. PICK c \in Characters : xbuf = WithParity(c)
  BY DEF LineIInv, LineTypeOK, OutputBytes, Characters
<1>2. c \in 0 .. 127 /\ WithParity(c) \in {c, c + 128}
  BY LineAssumption DEF Characters, Keys, Nul, Letter, WithParity
<1> QED BY <1>1, <1>2

\* Output that a step leaves alone.
LEMMA SameOutput ==
    ASSUME LineIInv, UNCHANGED <<xbuf, count, printed, queue, written>>,
           xcsr'.ready = xcsr.ready,
           Last(code') = "store" => code' = code \/ (xcsr.ready /\ queue # << >>)
    PROVE  DriverOK' /\ OutputInOrder'
BY DEF LineIInv, DriverOK, OutputInOrder, Last

\* A character is given to the driver.
LEMMA DriverTakes ==
    ASSUME LineIInv, NEW c \in Characters, queue' = Append(queue, c),
           written' = Append(written, c), UNCHANGED <<xcsr, xbuf, count, printed>>,
           Last(code') # "store"
    PROVE  DriverOK' /\ OutputInOrder'
<1>1. /\ written \in Seq(Characters) /\ printed \in Seq(Characters)
      /\ queue \in Seq(Characters)
  BY DEF LineIInv, DriverOK
<1>2. PICK x \in Seq(Characters) : x = IF xcsr.ready THEN << >> ELSE <<xbuf % 128>>
  <2>1. PICK d \in Characters : d = xbuf % 128
    BY TransmitterFacts
  <2>2. << >> \in Seq(Characters) /\ <<d>> \in Seq(Characters)
    OBVIOUS
  <2> QED BY <2>1, <2>2
<1>3. written = printed \o x \o queue
  BY <1>2 DEF LineIInv, OutputInOrder
<1>4. written' = printed \o x \o queue'
  <2>1. PICK p \in Seq(Characters), q \in Seq(Characters) : p = printed /\ q = queue
    BY <1>1
  <2>2. /\ p \in Seq(Characters) /\ x \in Seq(Characters)
        /\ q \in Seq(Characters) /\ c \in Characters
    BY <1>2, <2>1
  <2>3. Append(p \o x \o q, c) = p \o x \o Append(q, c)
    BY ONLY <2>2, QueueGrows, ZenonT(60)
  <2> QED BY <1>3, <2>1, <2>3
<1>5. OutputInOrder'
  BY <1>2, <1>4 DEF OutputInOrder
<1>6. queue' \in Seq(Characters) /\ written' \in Seq(Characters)
  BY <1>1, AppendProperties
<1> QED BY <1>1, <1>5, <1>6 DEF LineIInv, DriverOK, Last

LEMMA BootPrintsOutput ==
    ASSUME LineIInv, BootPrints
    PROVE  DriverOK' /\ OutputInOrder'
<1>1. /\ written \in Seq(Characters) /\ printed \in Seq(Characters)
      /\ Letter \in Characters /\ Last(code) = "boot" /\ xcsr.ready
      /\ WriteXbuf(WithParity(Letter)) /\ written' = Append(written, Letter)
      /\ UNCHANGED <<code, queue, printed>>
  BY DEF LineIInv, DriverOK, BootPrints, Instruction, Characters
<1>2. queue = << >>
  <2>1. code[1] = "boot"
    BY <1>1, CodeIs DEF LineIInv, Bases
  <2> QED BY <2>1, InBoot
<1>3. xbuf' % 128 = Letter /\ count' = 0 /\ ~xcsr'.ready
  BY <1>1, XbufStored
<1>4. written = printed
  BY <1>1, <1>2, ConcatEmptySeq DEF LineIInv, OutputInOrder
<1>5. PICK w \in Seq(Characters) : w = Append(printed, Letter)
  BY <1>1, AppendProperties
<1>6. w = printed \o <<Letter>>
  BY <1>1, <1>5, AppendIsConcat
<1>7. w \o << >> = w
  BY ConcatEmptySeq
<1>8. OutputInOrder'
  BY <1>1, <1>2, <1>3, <1>4, <1>5, <1>6, <1>7 DEF OutputInOrder
<1> QED BY <1>1, <1>2, <1>3, <1>4, <1>5, <1>8, LineAssumption DEF LineIInv, DriverOK, Last

LEMMA BootResetsOutput ==
    ASSUME LineIInv, BootResets
    PROVE  DriverOK' /\ OutputInOrder'
<1>1. /\ printed \in Seq(Characters) /\ Last(code) = "boot" /\ written' = printed
      /\ xcsr'.ready /\ UNCHANGED <<code, queue, printed>>
  BY DEF LineIInv, DriverOK, BootResets, ResetRegisters, Instruction
<1>2. queue = << >>
  <2>1. code[1] = "boot"
    BY <1>1, CodeIs DEF LineIInv, Bases
  <2> QED BY <2>1, InBoot
<1>3. OutputInOrder'
  BY <1>1, <1>2, ConcatEmptySeq DEF OutputInOrder
<1> QED BY <1>1, <1>2, <1>3 DEF LineIInv, DriverOK, Last

LEMMA StoresOutput ==
    ASSUME LineIInv, Stores, Last(code') # "store"
    PROVE  DriverOK' /\ OutputInOrder'
<1>1. /\ written \in Seq(Characters) /\ printed \in Seq(Characters)
      /\ queue \in Seq(Characters) /\ xcsr.ready /\ queue # << >>
      /\ WriteXbuf(WithParity(Head(queue))) /\ queue' = Tail(queue)
      /\ UNCHANGED <<written, printed>>
  BY DEF LineIInv, DriverOK, Stores, Instruction
<1>2. Head(queue) \in Characters /\ Tail(queue) \in Seq(Characters)
  BY <1>1, HeadTailProperties
<1>3. xbuf' % 128 = Head(queue) /\ count' = 0 /\ ~xcsr'.ready
  BY <1>1, <1>2, XbufStored
<1>4. printed \o << >> \o queue = printed \o <<Head(queue)>> \o Tail(queue)
  BY <1>1, HeadToTransmitter
<1>5. OutputInOrder'
  BY <1>1, <1>3, <1>4 DEF LineIInv, OutputInOrder
<1> QED BY <1>1, <1>2, <1>3, <1>5, LineAssumption DEF DriverOK, Last

LEMMA PollOutput ==
    ASSUME LineIInv, LinePollTransmitter
    PROVE  DriverOK' /\ OutputInOrder'
<1>1. /\ written \in Seq(Characters) /\ printed \in Seq(Characters)
      /\ queue \in Seq(Characters) /\ UNCHANGED <<xbuf, code, queue, written>>
      /\ count' = (IF xcsr.ready THEN count ELSE count + 1)
      /\ xcsr \in [ready : BOOLEAN, ie : BOOLEAN] /\ count \in 0 .. Pace + 1
  BY DEF LineIInv, DriverOK, LinePollTransmitter, driver, LineTypeOK
<1>2. CASE ~xcsr.ready /\ count' > Pace
  <2>1. printed' = Append(printed, xbuf % 128) /\ xcsr'.ready
    BY <1>1, <1>2 DEF LinePollTransmitter, Send
  <2>2. printed' \in Seq(Characters)
    BY <1>1, <2>1, TransmitterFacts, AppendProperties
  <2>3. written = printed \o <<xbuf % 128>> \o queue
    BY <1>2 DEF LineIInv, OutputInOrder
  <2>4. PICK c \in Characters : c = xbuf % 128
    BY TransmitterFacts
  <2>5. printed \o <<c>> \o queue = Append(printed, c) \o << >> \o queue
    BY <1>1, TransmitterToPrinted
  <2>6. OutputInOrder'
    BY <1>1, <2>1, <2>3, <2>4, <2>5 DEF OutputInOrder
  <2> QED BY <1>1, <1>2, <2>1, <2>2, <2>6 DEF LineIInv, DriverOK, Last
<1>3. CASE xcsr.ready \/ ~(count' > Pace)
  <2>1. UNCHANGED <<printed, xcsr>>
    BY <1>3 DEF LinePollTransmitter
  <2>2. OutputInOrder'
    BY <1>1, <2>1 DEF LineIInv, OutputInOrder
  <2>3. xcsr.ready \/ count' <= Pace
    BY <1>1, <1>3, LineAssumption
  <2> QED BY <1>1, <2>1, <2>2, <2>3 DEF LineIInv, DriverOK, Last
<1> QED BY <1>2, <1>3

LEMMA NextOutput ==
    ASSUME LineIInv, [LineNext]_<<vars, lineVars>>
    PROVE  DriverOK' /\ OutputInOrder'
<1> USE DEF Routines
<1>1. CodeOK
  BY DEF LineIInv
<1>2. CASE \/ UNCHANGED <<vars, lineVars>> \/ Types \/ LineResume
           \/ Stopped /\ UNCHANGED lineVars
           \/ (Check \/ ReadVector \/ PopIrq) /\ UNCHANGED lineVars
           \/ Computes \/ LinePollReceiver
  <2>1. UNCHANGED <<xcsr, xbuf, count, printed, queue, written, code>>
    BY <1>2 DEF lineVars, registers, driver, Types, LineResume, Computes, LinePollReceiver
  <2> QED BY <2>1, SameOutput
<1>3. CASE OpensTransmitter \/ OpensReceiver
  <2>1. Last(code') # "store"
    BY <1>1, <1>3, BaseBecomes DEF OpensTransmitter, OpensReceiver, Instruction, Bases
  <2>2. UNCHANGED <<xbuf, count, printed, queue, written>>
        /\ xcsr' \in {xcsr, [xcsr EXCEPT !.ie = TRUE]}
    BY <1>3 DEF OpensTransmitter, OpensReceiver, WriteXcsr, WriteRcsr, Instruction
  <2>3. xcsr'.ready = xcsr.ready
    BY <2>2 DEF LineIInv, LineTypeOK
  <2> QED BY <2>1, <2>2, <2>3, SameOutput
<1>4. CASE Starts
  <2>1. Last(code') = "store" => xcsr.ready /\ queue # << >>
    BY <1>1, <1>4, RoutineEnds DEF Starts, Instruction, Bases
  <2>2. UNCHANGED <<xcsr, xbuf, count, printed, queue, written>>
    BY <1>4 DEF Starts, Instruction, registers
  <2> QED BY <2>1, <2>2, SameOutput
<1>5. CASE ~undefined /\ LineEnterHandler
  <2>1. Last(code') # "store"
    <3>1. Last(code) \in Bases
      BY <1>5, EntersFromBase DEF LineEnterHandler
    <3> QED BY <1>1, <1>5, <3>1, RoutineStarts DEF LineEnterHandler
  <2>2. UNCHANGED <<xcsr, xbuf, count, printed, queue, written>>
    BY <1>5 DEF LineEnterHandler, registers
  <2> QED BY <2>1, <2>2, SameOutput
<1>6. CASE Writes
  <2>1. Last(code') # "store"
    BY <1>1, <1>6, RoutineStarts DEF Writes, Instruction, Bases
  <2>2. /\ queue' = Append(queue, Letter) /\ written' = Append(written, Letter)
        /\ UNCHANGED <<xcsr, xbuf, count, printed>> /\ Letter \in Characters
    BY <1>6 DEF Writes, Instruction, registers, Characters
  <2> QED BY <2>1, <2>2, DriverTakes
<1>7. CASE Reads
  <2>1. Last(code') # "store"
    BY <1>1, <1>7, RoutineBecomes DEF Reads, Instruction
  <2>2. /\ queue' = Append(queue, RbufRead) /\ written' = Append(written, RbufRead)
        /\ UNCHANGED <<xcsr, xbuf, count, printed>>
    BY <1>7 DEF Reads, Instruction, ReadRbuf
  <2>3. RbufRead \in Characters
    BY DEF RbufRead, Characters, LineIInv, LineTypeOK
  <2> QED BY <2>1, <2>2, <2>3, DriverTakes
<1>8. CASE Stores
  <2>1. Last(code') # "store"
    BY <1>1, <1>8, RoutineEnds DEF Stores, Instruction, Bases
  <2> QED BY <1>8, <2>1, StoresOutput
<1> QED BY <1>2, <1>3, <1>4, <1>5, <1>6, <1>7, <1>8, BootPrintsOutput, BootResetsOutput, PollOutput
        DEF LineNext, LineMain, Guest

-----------------------------------------------------------------------------
(***************************************************************************)
(* Types.                                                                  *)
(***************************************************************************)

\* What poll() takes from Serial is the next key, or a control key.
LEMMA NextKey ==
    ASSUME LineIInv, polled # Len(typed)
    PROVE  /\ polled \in Nat /\ polled + 1 \in 1 .. Len(typed)
           /\ \/ typed[polled + 1] \in {CtrlP, CtrlT}
              \/ typed[polled + 1] = polled + 1 /\ polled + 1 \in Keys
<1>1. typed \in Seq(Keys \cup {CtrlP, CtrlT}) /\ polled \in 0 .. Len(typed)
  BY DEF LineIInv, LineTypeOK
<1>2. Len(typed) \in Nat
  BY <1>1, LenProperties
<1>3. polled \in Nat /\ polled + 1 \in 1 .. Len(typed)
  BY <1>1, <1>2
<1>4. typed[polled + 1] \in Keys \cup {CtrlP, CtrlT}
  BY <1>1, <1>3, ElementOfSeq
<1>5. typed[polled + 1] \in {polled + 1, CtrlP, CtrlT}
  BY <1>3 DEF LineIInv, TypedOK
<1> QED BY <1>3, <1>4, <1>5

\* The receiver's half of poll(): nothing, a control key, or the next key.
LEMMA ReceiverPolled ==
    ASSUME LineIInv, LinePollReceiver
    PROVE  \/ /\ UNCHANGED <<itab, rcsr, rbuf, accepted, typed>>
              /\ polled' \in {polled, polled + 1} /\ polled' \in 0 .. Len(typed)
           \/ /\ polled' = polled + 1 /\ polled' \in 0 .. Len(typed)
              /\ polled + 1 \in Keys /\ UNCHANGED typed
              /\ AddChar(polled + 1)
<1>1. CASE polled = Len(typed)
  BY <1>1 DEF LinePollReceiver, LineIInv, LineTypeOK
<1>2. CASE polled # Len(typed)
  <2>1. polled + 1 \in 0 .. Len(typed)
    BY <1>2, NextKey
  <2>2. PICK c : c = typed[polled + 1]
    OBVIOUS
  <2>3. /\ polled' = polled + 1 /\ UNCHANGED typed
        /\ \/ c \in {CtrlP, CtrlT} /\ UNCHANGED <<itab, rcsr, rbuf, accepted>>
           \/ c \notin {CtrlP, CtrlT} /\ AddChar(c)
    BY <1>2, <2>2 DEF LinePollReceiver
  <2> QED BY <1>2, <2>1, <2>2, <2>3, NextKey
<1> QED BY <1>1, <1>2

LEMMA NextRegisters ==
    ASSUME LineIInv, [LineNext]_<<vars, lineVars>>
    PROVE  /\ rcsr' \in [done : BOOLEAN, ie : BOOLEAN] /\ rbuf' \in Keys \cup {Nul}
           /\ xcsr' \in [ready : BOOLEAN, ie : BOOLEAN] /\ xbuf' \in OutputBytes
           /\ count' \in 0 .. Pace + 1
<1>1. /\ rcsr \in [done : BOOLEAN, ie : BOOLEAN] /\ rbuf \in Keys \cup {Nul}
      /\ xcsr \in [ready : BOOLEAN, ie : BOOLEAN] /\ xbuf \in OutputBytes
      /\ count \in 0 .. Pace + 1
  BY DEF LineIInv, LineTypeOK
<1>2. CASE UNCHANGED registers
  BY <1>1, <1>2 DEF registers
<1>3. CASE \/ UNCHANGED <<vars, lineVars>> \/ Types \/ LineResume
           \/ Stopped /\ UNCHANGED lineVars
           \/ (Check \/ ReadVector \/ PopIrq) /\ UNCHANGED lineVars
           \/ Computes \/ LineEnterHandler \/ Writes \/ Starts
  <2>1. UNCHANGED registers
    BY <1>3 DEF lineVars, Types, LineResume, Computes, LineEnterHandler, Writes, Starts
  <2> QED BY <1>2, <2>1
<1>4. CASE OpensTransmitter
  BY <1>1, <1>4 DEF OpensTransmitter, WriteXcsr
<1>5. CASE OpensReceiver
  BY <1>1, <1>5 DEF OpensReceiver, WriteRcsr
<1>6. CASE Reads
  BY <1>1, <1>6 DEF Reads, ReadRbuf
<1>7. CASE BootResets
  <2>1. WithParity(Nul) = 0 /\ Nul = 0
    BY DEF WithParity, Nul
  <2>2. 0 \in OutputBytes
    BY <2>1 DEF OutputBytes
  <2> QED BY <1>1, <1>7, <2>1, <2>2 DEF BootResets, ResetRegisters
<1>8. ASSUME NEW c \in Characters, WriteXbuf(WithParity(c))
      PROVE  /\ rcsr' \in [done : BOOLEAN, ie : BOOLEAN] /\ rbuf' \in Keys \cup {Nul}
             /\ xcsr' \in [ready : BOOLEAN, ie : BOOLEAN] /\ xbuf' \in OutputBytes
             /\ count' \in 0 .. Pace + 1
  <2>1. /\ xbuf' \in OutputBytes /\ count' = 0 /\ UNCHANGED <<rcsr, rbuf>>
        /\ xcsr' = [ready |-> FALSE, ie |-> xcsr.ie]
    BY <1>8, XbufStored
  <2>2. 0 \in 0 .. Pace + 1
    BY LineAssumption
  <2> QED BY <1>1, <2>1, <2>2
<1>9. CASE BootPrints
  BY <1>8, <1>9 DEF BootPrints, Characters
<1>10. CASE Stores
  <2>1. queue \in Seq(Characters) /\ queue # << >> /\ WriteXbuf(WithParity(Head(queue)))
    BY <1>10 DEF LineIInv, DriverOK, Stores, Instruction
  <2>2. Head(queue) \in Characters
    BY <2>1, HeadTailProperties
  <2> QED BY <1>8, <2>1, <2>2
<1>11. CASE LinePollReceiver
  <2>1. UNCHANGED <<xcsr, xbuf, count>>
    BY <1>11 DEF LinePollReceiver
  <2> QED BY <1>1, <1>11, <2>1, ReceiverPolled DEF AddChar
<1>12. CASE LinePollTransmitter
  <2>1. UNCHANGED <<rcsr, rbuf, xbuf>> /\ xcsr' \in {xcsr, [xcsr EXCEPT !.ready = TRUE]}
        /\ count' = (IF xcsr.ready THEN count ELSE count + 1)
    BY <1>12 DEF LinePollTransmitter, Send
  <2>2. xcsr.ready \/ count <= Pace
    BY DEF LineIInv, DriverOK
  <2>3. count' \in 0 .. Pace + 1
    BY <1>1, <2>1, <2>2, LineAssumption
  <2> QED BY <1>1, <2>1, <2>3
<1> QED BY <1>3, <1>4, <1>5, <1>6, <1>7, <1>9, <1>10, <1>11, <1>12 DEF LineNext, LineMain, Guest

LEMMA NextTypes ==
    ASSUME LineIInv, [LineNext]_<<vars, lineVars>>, TypeOK'
    PROVE  /\ LineTypeOK' /\ TypedOK'
           /\ accepted' \in Seq(Keys) /\ received' \in Seq(Keys \cup {Nul})
<1>1. /\ typed \in Seq(Keys \cup {CtrlP, CtrlT}) /\ polled \in 0 .. Len(typed)
      /\ accepted \in Seq(Keys) /\ received \in Seq(Keys \cup {Nul}) /\ TypedOK
      /\ rbuf \in Keys \cup {Nul}
  BY DEF LineIInv, LineTypeOK
<1>2. code' \in Seq(Activities) /\ code' # << >> /\ priority' = Level(Last(code)')
  <2>1. \E b \in Bases : code' = <<b>> \/ \E r \in Routines : code' = <<b, r>>
    BY NextCode DEF CodeOK
  <2>2. \A b \in Bases, r \in Routines :
            <<b>> \in Seq(Activities) /\ <<b, r>> \in Seq(Activities)
    BY DEF Bases, Routines, Activities
  <2>3. \A b, r : <<b>> # << >> /\ <<b, r>> # << >>
    OBVIOUS
  <2>4. PICK c : c = code'
    OBVIOUS
  <2>5. c \in Seq(Activities) /\ c # << >>
    <3>1. CASE \E b \in Bases : c = <<b>>
      BY <2>2, <2>3, <3>1 DEF Routines
    <3>2. CASE \E b \in Bases, r \in Routines : c = <<b, r>>
      BY <2>2, <2>3, <3>2
    <3> QED BY <2>1, <2>4, <3>1, <3>2
  <2> QED BY <2>4, <2>5, NextCode, LastPrime
<1>3. /\ typed' \in Seq(Keys \cup {CtrlP, CtrlT}) /\ polled' \in 0 .. Len(typed')
      /\ TypedOK'
  <2>1. CASE UNCHANGED <<typed, polled>>
    BY <1>1, <2>1 DEF TypedOK
  <2>2. CASE Types
    <3>1. PICK c \in {Len(typed) + 1, CtrlP, CtrlT} : typed' = Append(typed, c)
      BY <2>2 DEF Types
    <3>2. Len(typed) \in Nat /\ Len(typed) < MaxTyped /\ UNCHANGED polled
      BY <1>1, <2>2, LenProperties DEF Types
    <3>3. c \in Keys \cup {CtrlP, CtrlT}
      BY <3>1, <3>2, LineAssumption DEF Keys
    <3>4. /\ typed' \in Seq(Keys \cup {CtrlP, CtrlT}) /\ Len(typed') = Len(typed) + 1
          /\ \A n \in 1 .. Len(typed) : typed'[n] = typed[n]
          /\ typed'[Len(typed) + 1] = c
      BY <1>1, <3>1, <3>3, AppendProperties
    <3>5. ASSUME NEW n \in 1 .. Len(typed') PROVE typed'[n] \in {n, CtrlP, CtrlT}
      <4>1. CASE n = Len(typed) + 1
        BY <3>1, <3>4, <4>1
      <4>2. CASE n \in 1 .. Len(typed)
        BY <1>1, <3>4, <4>2 DEF TypedOK
      <4> QED BY <3>2, <3>4, <4>1, <4>2
    <3> QED BY <1>1, <3>2, <3>4, <3>5 DEF TypedOK
  <2>3. CASE LinePollReceiver
    BY <1>1, <2>3, ReceiverPolled DEF TypedOK
  <2>4. CASE Guest
    BY <2>1, <2>4 DEF Guest, BootPrints, BootResets, OpensTransmitter, OpensReceiver, Writes,
       Starts, Stores, Reads, Computes, Instruction, lineVars
  <2>5. CASE \/ UNCHANGED <<vars, lineVars>> \/ LineEnterHandler \/ LinePollTransmitter
             \/ (Check \/ ReadVector \/ PopIrq) /\ UNCHANGED lineVars
             \/ LineResume \/ (Stopped /\ UNCHANGED lineVars)
    BY <2>1, <2>5 DEF LineEnterHandler, LinePollTransmitter, lineVars, LineResume
  <2> QED BY <2>2, <2>3, <2>4, <2>5 DEF LineNext, LineMain
<1>4. accepted' \in Seq(Keys) /\ received' \in Seq(Keys \cup {Nul})
  <2>1. CASE UNCHANGED <<accepted, received>>
    BY <1>1, <2>1
  <2>2. CASE LinePollReceiver
    <3>1. UNCHANGED received
      BY <2>2 DEF LinePollReceiver, driver
    <3>2. \/ UNCHANGED accepted
          \/ polled + 1 \in Keys /\ accepted' = Append(accepted, polled + 1)
      BY <2>2, ReceiverPolled DEF AddChar
    <3> QED BY <1>1, <3>1, <3>2, AppendProperties
  <2>3. CASE Reads
    <3>1. UNCHANGED accepted /\ received' = Append(received, RbufRead)
      BY <2>3 DEF Reads, Instruction
    <3>2. RbufRead \in Keys \cup {Nul}
      BY <1>1 DEF RbufRead
    <3> QED BY <1>1, <3>1, <3>2, AppendProperties
  <2>4. CASE \/ BootPrints \/ BootResets \/ OpensTransmitter \/ OpensReceiver
             \/ Writes \/ Starts \/ Stores \/ Computes
    BY <2>1, <2>4 DEF BootPrints, BootResets, OpensTransmitter, OpensReceiver, Writes,
       Starts, Stores, Computes, Instruction, lineVars, driver
  <2>5. CASE \/ UNCHANGED <<vars, lineVars>> \/ LineEnterHandler \/ LinePollTransmitter
             \/ (Check \/ ReadVector \/ PopIrq) /\ UNCHANGED lineVars
             \/ Types \/ LineResume \/ (Stopped /\ UNCHANGED lineVars)
    BY <2>1, <2>5 DEF LineEnterHandler, LinePollTransmitter, lineVars, driver, LineResume, Types
  <2> QED BY <2>2, <2>3, <2>4, <2>5 DEF LineNext, LineMain, Guest
<1>5. TypedOK'
  BY <1>3
<1> QED BY <1>2, <1>3, <1>4, NextRegisters DEF LineTypeOK

\* The table and the loop, as in every delivery.
LEMMA NextDelivery ==
    ASSUME LineIInv, [LineNext]_<<vars, lineVars>>
    PROVE  QInv'
<1>1. QInv /\ TypeOK
  BY DEF LineIInv, QInv, IInv
<1>2. [Next]_vars
  BY <1>1, LineIsDelivery
<1> QED BY <1>1, <1>2, OneLinePriority, NextIInv, NextHeadIsDelivered, NextTableFilled DEF QInv

\* Before the line is opened poll() may print and take keys, but requests nothing.
LEMMA NextBoot ==
    ASSUME LineIInv, [LineNext]_<<vars, lineVars>>
    PROVE  BootQuiet'
<1> SUFFICES ASSUME code'[1] = "boot"
             PROVE  /\ code' = <<"boot">> /\ queue' = << >>
                    /\ ~rcsr'.ie /\ ~xcsr'.ie
                    /\ ~Occupied(itab', 0) /\ pc' \notin {"handle", "vector", "pop"}
  BY DEF BootQuiet, Occupied
<1>1. code' = code
  BY NextCode
<1>2. /\ code = <<"boot">> /\ Last(code) = "boot" /\ queue = << >>
      /\ ~rcsr.ie /\ ~xcsr.ie /\ ~Occupied(itab, 0)
      /\ pc \notin {"handle", "vector", "pop"}
  BY <1>1, InBoot
<1>3. /\ rcsr \in [done : BOOLEAN, ie : BOOLEAN] /\ xcsr \in [ready : BOOLEAN, ie : BOOLEAN]
  BY DEF LineIInv, LineTypeOK
<1>4. CASE UNCHANGED <<itab, rcsr, xcsr, queue>> /\ pc' \notin {"handle", "vector", "pop"}
  BY <1>1, <1>2, <1>4
<1>5. CASE \/ UNCHANGED <<vars, lineVars>> \/ Types \/ LineResume
           \/ (Stopped /\ UNCHANGED lineVars)
  <2>1. UNCHANGED <<itab, pc, rcsr, xcsr, queue>>
    BY <1>5 DEF Types, LineResume, Resume, Stopped, vars, lineVars, registers, driver
  <2> QED BY <1>2, <1>4, <2>1
<1>6. CASE BootPrints
  <2>1. xcsr' = [xcsr EXCEPT !.ready = FALSE] /\ UNCHANGED <<itab, rcsr, queue>>
        /\ pc' = "check"
    BY <1>6 DEF BootPrints, Instruction, WriteXbuf
  <2> QED BY <1>1, <1>2, <1>3, <2>1 DEF Occupied
<1>7. CASE BootResets
  BY <1>1, <1>2, <1>7 DEF BootResets, Instruction, ResetRegisters, Occupied
<1>8. CASE OpensTransmitter
  <2>1. Last(code') = "open"
    BY <1>8, BaseBecomes DEF OpensTransmitter, Instruction, LineIInv, Bases
  <2> QED BY <1>1, <1>2, <2>1
<1>9. CASE \/ OpensReceiver \/ Writes \/ Starts \/ Stores \/ Reads \/ Computes
           \/ LineEnterHandler \/ ReadVector \/ PopIrq
  BY <1>2, <1>9 DEF OpensReceiver, Writes, Starts, Stores, Reads, Computes, Instruction,
     LineEnterHandler, ReadVector, PopIrq, Running
<1>10. CASE Check /\ UNCHANGED lineVars
  <2>1. pc' = "poll" /\ UNCHANGED <<itab, rcsr, xcsr, queue>>
    BY <1>2, <1>10 DEF Check, lineVars, registers, driver
  <2> QED BY <1>4, <2>1
<1>11. CASE LinePollReceiver
  <2>1. pc' = "xmit" /\ UNCHANGED <<xcsr, queue>>
    BY <1>11 DEF LinePollReceiver, driver
  <2>2. UNCHANGED itab /\ rcsr' \in {rcsr, [rcsr EXCEPT !.done = TRUE]}
    BY <1>2, <1>11, ReceiverPolled DEF AddChar, Requests
  <2> QED BY <1>1, <1>2, <1>3, <2>1, <2>2 DEF Occupied
<1>12. CASE LinePollTransmitter
  <2>1. pc' = "step" /\ UNCHANGED <<rcsr, queue>>
    BY <1>12 DEF LinePollTransmitter, driver
  <2>2. UNCHANGED itab /\ xcsr' \in {xcsr, [xcsr EXCEPT !.ready = TRUE]}
    BY <1>2, <1>12 DEF LinePollTransmitter, Send, Requests
  <2> QED BY <1>1, <1>2, <1>3, <2>1, <2>2 DEF Occupied
<1> QED BY <1>5, <1>6, <1>7, <1>8, <1>9, <1>10, <1>11, <1>12 DEF LineNext, LineMain, Guest

-----------------------------------------------------------------------------
(***************************************************************************)
(* Counting the reads that are owed.                                       *)
(***************************************************************************)
TtyIns(t) == {i \in Slots : t[i] = TtyIn}

LEMMA TtyInsFinite ==
    ASSUME NEW t
    PROVE  IsFiniteSet(TtyIns(t)) /\ Cardinality(TtyIns(t)) \in Nat
<1>1. IsFiniteSet(Slots)
  <2>1. 0 \in Int /\ ITABN - 1 \in Int
    BY ITABNAssumption
  <2> QED BY <2>1, FS_Interval DEF Slots
<1>2. TtyIns(t) \in SUBSET Slots
  BY DEF TtyIns
<1> QED BY <1>1, <1>2, FS_Subset, FS_CardinalityType

\* A request is one more of its own kind, and takes none away.
LEMMA InsertedCount ==
    ASSUME NEW t \in Tables(Sources), NEW s \in Sources, NEW i \in Slots,
           InsertsAt(t, s, i), Compact(t)
    PROVE  Cardinality(TtyIns(Inserted(t, s, i)))
               = Cardinality(TtyIns(t)) + (IF s = TtyIn THEN 1 ELSE 0)
<1>1. PICK u : u = Inserted(t, s, i)
  OBVIOUS
<1>2. Filled(t, i)
  BY OneLinePriority, InsertAppends
<1>3. /\ \A j \in Slots : j < i => u[j] = t[j]
      /\ u[i] = s
      /\ \A j \in Slots : j > i => u[j] \in {t[j], t[i]}
  BY <1>1, SlotFacts DEF Inserted
<1>4. \A j \in Slots : ~(j < i) => t[j] # TtyIn
  BY <1>2 DEF Filled, Occupied, TtyIn
<1>5. \A j \in Slots : j > i => u[j] # TtyIn
  BY <1>3, <1>4, SlotFacts
<1>6. \A j \in Slots : j # i => (u[j] = TtyIn <=> t[j] = TtyIn)
  BY <1>3, <1>4, <1>5, SlotFacts
<1>7. t[i] # TtyIn
  BY <1>4, SlotFacts
<1>8. CASE s = TtyIn
  <2>1. TtyIns(u) = TtyIns(t) \cup {i} /\ i \notin TtyIns(t)
    BY <1>3, <1>6, <1>7, <1>8 DEF TtyIns
  <2> QED BY <1>1, <1>8, <2>1, TtyInsFinite, FS_AddElement
<1>9. CASE s # TtyIn
  <2>1. TtyIns(u) = TtyIns(t)
    BY <1>3, <1>6, <1>7, <1>9 DEF TtyIns
  <2> QED BY <1>1, <1>9, <2>1, TtyInsFinite
<1> QED BY <1>8, <1>9

\* popirq() takes the head away and nothing else.
LEMMA PoppedCount ==
    ASSUME NEW t
    PROVE  Cardinality(TtyIns(Popped(t)))
               = Cardinality(TtyIns(t)) - (IF t[0] = TtyIn THEN 1 ELSE 0)
<1>1. PICK A : A = TtyIns(Popped(t))
  OBVIOUS
<1>2. PICK B : B = TtyIns(t) \ {0}
  OBVIOUS
<1>3. ASSUME NEW j \in Slots PROVE j \in A <=> j + 1 \in B
  <2>1. CASE j = ITABN - 1
    <3>1. Popped(t)[j] = NoIntr /\ j + 1 \notin Slots
      BY <2>1, ITABNAssumption DEF Popped, Slots
    <3>2. NoIntr # TtyIn
      <4>1. NoIntr.vec = 0 /\ TtyIn.vec = 48
        BY DEF NoIntr, TtyIn
      <4> QED BY <4>1
    <3> QED BY <1>1, <1>2, <3>1, <3>2 DEF TtyIns
  <2>2. CASE j # ITABN - 1
    <3>1. Popped(t)[j] = t[j + 1] /\ j + 1 \in Slots /\ j + 1 # 0
      BY <2>2, ITABNAssumption DEF Popped, Slots
    <3> QED BY <1>1, <1>2, <3>1 DEF TtyIns
  <2> QED BY <2>1, <2>2
<1>4. A \subseteq Slots /\ B \subseteq Slots \ {0}
  BY <1>1, <1>2 DEF TtyIns
<1>5. PICK f : f = [j \in A |-> j + 1]
  OBVIOUS
<1>6. f \in [A -> B]
  BY <1>3, <1>4, <1>5
<1>7. \A j, k \in A : f[j] = f[k] => j = k
  BY <1>4, <1>5, SlotFacts
<1>8. ASSUME NEW k \in B PROVE \E j \in A : f[j] = k
  <2>1. k - 1 \in Slots /\ (k - 1) + 1 = k
    BY <1>4, ITABNAssumption DEF Slots
  <2>2. k - 1 \in A
    BY <1>3, <2>1
  <2> QED BY <1>5, <2>1, <2>2
<1>9. ExistsBijection(A, B)
  BY <1>6, <1>7, <1>8 DEF ExistsBijection, Bijection, Injection, Surjection, IsInjective
<1>10. IsFiniteSet(A) /\ IsFiniteSet(TtyIns(t))
  BY <1>1, TtyInsFinite
<1>11. Cardinality(B) = Cardinality(A)
  BY <1>9, <1>10, FS_Bijection
<1>12. Cardinality(B) = Cardinality(TtyIns(t)) - (IF t[0] = TtyIn THEN 1 ELSE 0)
  <2>1. 0 \in TtyIns(t) <=> t[0] = TtyIn
    BY SlotFacts DEF TtyIns
  <2>2. Cardinality(B) = IF 0 \in TtyIns(t) THEN Cardinality(TtyIns(t)) - 1
                         ELSE Cardinality(TtyIns(t))
    BY <1>2, <1>10, FS_RemoveElement
  <2> QED BY <2>1, <2>2, TtyInsFinite
<1> QED BY <1>1, <1>11, <1>12

LEMMA ReadingCount ==
    ASSUME NEW cd, \E b \in Bases : cd = <<b>> \/ \E r \in Routines : cd = <<b, r>>
    PROVE  Cardinality({k \in 1 .. Len(cd) : cd[k] = "read"})
               = (IF Last(cd) = "read" THEN 1 ELSE 0)
<1>1. PICK b \in Bases : cd = <<b>> \/ \E r \in Routines : cd = <<b, r>>
  OBVIOUS
<1>2. b # "read"
  BY DEF Bases
<1>3. CASE cd = <<b>>
  <2>1. Len(cd) = 1 /\ cd[1] = b /\ Last(cd) = b
    BY <1>3, CodeFacts
  <2>2. {k \in 1 .. Len(cd) : cd[k] = "read"} = {}
    BY <1>2, <2>1
  <2> QED BY <1>2, <2>1, <2>2, FS_EmptySet
<1>4. ASSUME NEW r \in Routines, cd = <<b, r>>
      PROVE Cardinality({k \in 1 .. Len(cd) : cd[k] = "read"})
                = (IF Last(cd) = "read" THEN 1 ELSE 0)
  <2>1. Len(cd) = 2 /\ cd[1] = b /\ cd[2] = r /\ Last(cd) = r
    BY <1>4, CodeFacts
  <2>2. {k \in 1 .. Len(cd) : cd[k] = "read"} = IF r = "read" THEN {2} ELSE {}
    BY <1>2, <2>1
  <2> QED BY <2>1, <2>2, FS_EmptySet, FS_Singleton
<1> QED BY <1>1, <1>3, <1>4

\* What is owed, in the three places a read can be.
LEMMA OwedIs ==
    ASSUME CodeOK
    PROVE  Owed = Cardinality(TtyIns(itab))
                  - (IF pc = "pop" /\ vec = TtyIn.vec THEN 1 ELSE 0)
                  + (IF Last(code) = "read" THEN 1 ELSE 0)
BY ReadingCount DEF Owed, CodeOK, TtyIns

LEMMA OwedIsPrime ==
    ASSUME CodeOK'
    PROVE  Owed' = Cardinality(TtyIns(itab'))
                   - (IF pc' = "pop" /\ vec' = TtyIn.vec THEN 1 ELSE 0)
                   + (IF Last(code') = "read" THEN 1 ELSE 0)
<1>1. Owed' = Cardinality(TtyIns(itab'))
              - (IF pc' = "pop" /\ vec' = TtyIn.vec THEN 1 ELSE 0)
              + Cardinality({k \in 1 .. Len(code') : code'[k] = "read"})
  BY DEF Owed, TtyIns
<1> QED BY <1>1, ReadingCount DEF CodeOK

\* The two request lines have vectors of their own.
LEMMA VectorIsTtyIn ==
    ASSUME NEW e \in Sources \cup {NoIntr}
    PROVE  e.vec = TtyIn.vec <=> e = TtyIn
<1>1. e \in {TtyIn, TtyOut, NoIntr}
  BY DriverAssumption
<1>2. TtyIn.vec = 48 /\ TtyOut.vec = 52 /\ NoIntr.vec = 0
  BY DEF TtyIn, TtyOut, NoIntr
<1> QED BY <1>1, <1>2

\* Where popirq() runs it removes what has been delivered.
LEMMA HeadAtPop ==
    ASSUME LineIInv, pc = "pop"
    PROVE  vec = TtyIn.vec <=> itab[0] = TtyIn
<1>1. itab[0] \in Sources \cup {NoIntr} /\ itab[0].vec = vec
  BY SlotFacts DEF LineIInv, QInv, HeadIsDelivered, IInv, TypeOK
<1> QED BY <1>1, VectorIsTtyIn

\* No read is owed that has no request and no handler behind it.
LEMMA OwedNat ==
    ASSUME LineIInv
    PROVE  Owed \in Nat /\ (Last(code) = "read" => Owed > 0)
<1>1. /\ Owed = Cardinality(TtyIns(itab))
                - (IF pc = "pop" /\ vec = TtyIn.vec THEN 1 ELSE 0)
                + (IF Last(code) = "read" THEN 1 ELSE 0)
      /\ IsFiniteSet(TtyIns(itab)) /\ Cardinality(TtyIns(itab)) \in Nat
  BY OwedIs, TtyInsFinite DEF LineIInv
<1>2. CASE ~(pc = "pop" /\ vec = TtyIn.vec)
  BY <1>1, <1>2
<1>3. CASE pc = "pop" /\ vec = TtyIn.vec
  <2>1. 0 \in TtyIns(itab)
    BY <1>3, HeadAtPop, SlotFacts DEF TtyIns
  <2>2. Cardinality(TtyIns(itab)) # 0
    BY <1>1, <2>1, FS_EmptySet
  <2> QED BY <1>1, <1>3, <2>2
<1> QED BY <1>2, <1>3

\* While the table has room nothing ends the account: from a full table the
\* program goes on undefined.
LEMMA StillMeant ==
    ASSUME LineIInv, [LineNext]_<<vars, lineVars>>, ~undefined', console' # "full"
    PROVE  InputOK
<1>1. CASE UNCHANGED <<vars, lineVars>> \/ (Stopped /\ UNCHANGED lineVars)
  BY <1>1 DEF LineIInv, Stopped, vars
<1>2. CASE ~undefined /\ LineMain
  <2>1. console = "off"
    BY <1>2 DEF LineMain, Guest, BootPrints, BootResets, OpensTransmitter, OpensReceiver,
       Writes, Starts, Stores, Reads, Computes, Instruction, LineEnterHandler,
       LinePollReceiver, LinePollTransmitter, Check, ReadVector, PopIrq, Running
  <2> QED BY <1>2, <2>1 DEF LineIInv
<1>3. CASE ~undefined /\ Types
  BY <1>3 DEF LineIInv, Types
<1>4. CASE ~undefined /\ LineResume
  BY <1>4 DEF LineIInv, LineResume, Resume
<1> QED BY <1>1, <1>2, <1>3, <1>4 DEF LineNext

\* A request made while the table has room.
LEMMA RequestCounted ==
    ASSUME LineIInv, NEW s \in Sources, NEW enabled, Requests(s, enabled), console = "off",
           console' # "full"
    PROVE  /\ console' = "off"
           /\ Cardinality(TtyIns(itab')) = Cardinality(TtyIns(itab))
                                           + (IF enabled /\ s = TtyIn THEN 1 ELSE 0)
<1>1. Cardinality(TtyIns(itab)) \in Nat
  BY TtyInsFinite
<1>2. CASE ~enabled
  BY <1>1, <1>2 DEF Requests
<1>3. CASE enabled
  <2>1. PICK i \in Slots : InsertsAt(itab, s, i) /\ itab' = Inserted(itab, s, i)
                           /\ UNCHANGED console
    BY <1>3 DEF Requests, Interrupt
  <2>2. itab \in Tables(Sources) /\ Compact(itab)
    BY DEF LineIInv, QInv, IInv, TypeOK, Tables, TableCompact
  <2> QED BY <1>3, <2>1, <2>2, InsertedCount
<1> QED BY <1>2, <1>3

\* Where neither the table nor the account moves.
LEMMA SameOwed ==
    ASSUME LineIInv, InputCounted, CodeOK', UNCHANGED <<itab, accepted, received>>,
           Last(code) = "read" <=> Last(code') = "read",
           (pc = "pop" /\ vec = TtyIn.vec) <=> (pc' = "pop" /\ vec' = TtyIn.vec)
    PROVE  InputCounted'
<1>1. Owed' = Owed
  BY OwedIs, OwedIsPrime DEF LineIInv
<1> QED BY <1>1 DEF InputCounted

LEMMA NextCounted ==
    ASSUME LineIInv, [LineNext]_<<vars, lineVars>>, ~undefined', console' # "full"
    PROVE  InputCounted'
<1> USE DEF Bases, Routines
<1>1. InputCounted /\ CodeOK /\ CodeOK'
  BY StillMeant, NextCode DEF InputOK, LineIInv
<1>2. /\ Owed = Cardinality(TtyIns(itab))
                - (IF pc = "pop" /\ vec = TtyIn.vec THEN 1 ELSE 0)
                + (IF Last(code) = "read" THEN 1 ELSE 0)
      /\ Owed' = Cardinality(TtyIns(itab'))
                 - (IF pc' = "pop" /\ vec' = TtyIn.vec THEN 1 ELSE 0)
                 + (IF Last(code') = "read" THEN 1 ELSE 0)
      /\ Cardinality(TtyIns(itab)) \in Nat /\ Cardinality(TtyIns(itab')) \in Nat
  BY <1>1, OwedIs, OwedIsPrime, TtyInsFinite
<1>3. accepted \in Seq(Keys) /\ received \in Seq(Keys \cup {Nul})
      /\ Len(accepted) \in Nat /\ Len(received) \in Nat
  BY LenProperties DEF LineIInv
<1>4. CASE \/ UNCHANGED <<vars, lineVars>> \/ Types \/ LineResume
           \/ (Stopped /\ UNCHANGED lineVars)
  <2>1. UNCHANGED <<itab, accepted, received, code, pc, vec>>
    BY <1>4 DEF Types, LineResume, Resume, Stopped, vars, lineVars, driver
  <2> QED BY <1>1, <2>1, SameOwed
<1>5. CASE \/ BootPrints \/ BootResets \/ Computes \/ OpensTransmitter \/ OpensReceiver
           \/ Writes \/ Starts \/ Stores
  <2>1. /\ UNCHANGED <<itab, accepted, received>>
        /\ pc = "step" /\ pc' \in {"check", "step"} /\ Last(code) # "read"
    BY <1>5 DEF BootPrints, BootResets, Computes, OpensTransmitter, OpensReceiver, Writes,
       Starts, Stores, Instruction, Running, lineVars, driver
  <2>2. Last(code') # "read"
    <3>1. CASE BootPrints \/ BootResets \/ Computes
      <4>1. UNCHANGED code
        BY <3>1 DEF BootPrints, BootResets, Computes, lineVars, driver
      <4> QED BY <2>1, <4>1
    <3>2. CASE OpensTransmitter \/ OpensReceiver
      BY <1>1, <3>2, BaseBecomes DEF OpensTransmitter, OpensReceiver, Instruction
    <3>3. CASE Writes
      BY <1>1, <3>3, RoutineStarts DEF Writes, Instruction
    <3>4. CASE Starts \/ Stores
      BY <1>1, <3>4, RoutineBecomes, RoutineEnds DEF Starts, Stores, Instruction
    <3> QED BY <1>5, <3>1, <3>2, <3>3, <3>4
  <2> QED BY <1>1, <2>1, <2>2, SameOwed
<1>6. CASE Reads
  <2>1. /\ UNCHANGED <<itab, accepted>> /\ pc = "step" /\ pc' = "check"
        /\ Last(code) = "read" /\ received' = Append(received, RbufRead)
    BY <1>6 DEF Reads, Instruction, Running
  <2>2. Last(code') = "start"
    BY <1>1, <1>6, RoutineBecomes DEF Reads, Instruction
  <2>3. Len(received') = Len(received) + 1
    <3>1. RbufRead \in Keys \cup {Nul}
      BY DEF RbufRead, LineIInv, LineTypeOK
    <3> QED BY <1>3, <2>1, <3>1, AppendProperties
  <2>4. Owed' = Owed - 1
    BY <1>2, <2>1, <2>2
  <2>5. Owed \in Nat
    BY OwedNat
  <2> QED BY <1>1, <1>3, <2>1, <2>3, <2>4, <2>5 DEF InputCounted
<1>7. CASE ~undefined /\ LineEnterHandler
  <2>1. /\ UNCHANGED <<itab, accepted, received, vec>> /\ pc = "vector" /\ pc' = "pop"
        /\ Now(Append(code, IF vec = TtyIn.vec THEN "read" ELSE "start"))
    BY <1>7 DEF LineEnterHandler, Running
  <2>2. Last(code) \in Bases
    BY <1>7, EntersFromBase DEF LineEnterHandler
  <2>3. Last(code') = IF vec = TtyIn.vec THEN "read" ELSE "start"
    BY <1>1, <2>1, <2>2, RoutineStarts
  <2>4. Owed' = Owed
    BY <1>2, <2>1, <2>2, <2>3
  <2> QED BY <1>1, <2>1, <2>4 DEF InputCounted
<1>8. CASE PopIrq /\ UNCHANGED lineVars
  <2>1. /\ UNCHANGED <<accepted, received, code>> /\ itab' = Popped(itab)
        /\ pc = "pop" /\ pc' = "step"
    BY <1>8 DEF PopIrq, Running, lineVars, driver
  <2>2. Cardinality(TtyIns(itab')) = Cardinality(TtyIns(itab))
                                     - (IF itab[0] = TtyIn THEN 1 ELSE 0)
    BY <2>1, PoppedCount
  <2>3. Owed' = Owed
    BY <1>2, <2>1, <2>2, HeadAtPop
  <2> QED BY <1>1, <2>1, <2>3 DEF InputCounted
<1>9. CASE (Check \/ ReadVector) /\ UNCHANGED lineVars
  <2>1. /\ UNCHANGED <<itab, accepted, received, code>>
        /\ pc \in {"check", "handle"} /\ pc' \in {"handle", "poll", "vector"}
    BY <1>9 DEF Check, ReadVector, Running, lineVars, driver
  <2> QED BY <1>1, <2>1, SameOwed
<1>10. CASE LinePollTransmitter
  <2>1. /\ UNCHANGED <<accepted, received, code>> /\ pc = "xmit" /\ pc' = "step"
        /\ console = "off" /\ (UNCHANGED itab \/ Requests(TtyOut, xcsr.ie))
    BY <1>10 DEF LinePollTransmitter, Running, driver, Send
  <2>2. TtyOut \in Sources /\ TtyOut # TtyIn
    <3>1. TtyOut.vec = 52 /\ TtyIn.vec = 48
      BY DEF TtyOut, TtyIn
    <3> QED BY <3>1, DriverAssumption
  <2>3. Cardinality(TtyIns(itab')) = Cardinality(TtyIns(itab))
    BY <1>2, <2>1, <2>2, RequestCounted
  <2>4. Owed' = Owed
    BY <1>2, <2>1, <2>3
  <2> QED BY <1>1, <2>1, <2>4 DEF InputCounted
<1>11. CASE LinePollReceiver
  <2>1. UNCHANGED <<received, code>> /\ pc = "poll" /\ pc' = "xmit" /\ console = "off"
    BY <1>11 DEF LinePollReceiver, Running, driver
  <2>2. CASE UNCHANGED <<itab, accepted>>
    BY <1>1, <2>1, <2>2, SameOwed
  <2>3. CASE polled + 1 \in Keys /\ AddChar(polled + 1)
    <3>1. /\ Requests(TtyIn, rcsr.ie)
          /\ accepted' = IF rcsr.ie /\ console' = "off" THEN Append(accepted, polled + 1)
                         ELSE accepted
      BY <2>3 DEF AddChar
    <3>2. /\ console' = "off"
          /\ Cardinality(TtyIns(itab')) = Cardinality(TtyIns(itab))
                                          + (IF rcsr.ie THEN 1 ELSE 0)
      <4>1. TtyIn \in Sources
        BY DriverAssumption
      <4> QED BY <2>1, <3>1, <4>1, RequestCounted
    <3>3. Len(accepted') = Len(accepted) + (IF rcsr.ie THEN 1 ELSE 0)
      BY <1>3, <2>3, <3>1, <3>2, AppendProperties
    <3>4. Owed' = Owed + (IF rcsr.ie THEN 1 ELSE 0)
      BY <1>2, <2>1, <3>2
    <3>5. Owed \in Nat
      BY OwedNat
    <3> QED BY <1>1, <1>3, <2>1, <3>3, <3>4, <3>5 DEF InputCounted
  <2> QED BY <1>11, <2>2, <2>3, ReceiverPolled
<1> QED BY <1>4, <1>5, <1>6, <1>7, <1>8, <1>9, <1>10, <1>11 DEF LineNext, LineMain, Guest

-----------------------------------------------------------------------------
(***************************************************************************)
(* What the reads find.                                                    *)
(***************************************************************************)

\* The sequences and the register are numbers, and there is no more read than
\* was accepted.
LEMMA InputTypes ==
    ASSUME LineIInv, InputOK
    PROVE  /\ polled \in Nat /\ rbuf \in Nat /\ rcsr.done \in BOOLEAN /\ MaxTyped \in Nat
           /\ Len(accepted) \in Nat /\ Len(received) \in Nat
           /\ Len(received) <= Len(accepted)
           /\ Last(code) = "read" => Len(received) < Len(accepted)
           /\ \A i \in 1 .. Len(accepted) : accepted[i] \in Nat \ {0}
           /\ \A i \in 1 .. Len(received) : received[i] \in Nat
<1>1. /\ accepted \in Seq(Keys) /\ received \in Seq(Keys \cup {Nul})
      /\ rbuf \in Keys \cup {Nul} /\ polled \in 0 .. Len(typed)
      /\ typed \in Seq(Keys \cup {CtrlP, CtrlT})
      /\ rcsr \in [done : BOOLEAN, ie : BOOLEAN]
  BY DEF LineIInv, LineTypeOK
<1>2. Keys \subseteq Nat \ {0} /\ Nul = 0 /\ MaxTyped \in Nat
  BY LineAssumption DEF Keys, Nul
<1>3. Len(accepted) \in Nat /\ Len(received) \in Nat /\ Len(typed) \in Nat
  BY <1>1, LenProperties
<1>4. /\ \A i \in 1 .. Len(accepted) : accepted[i] \in Keys
      /\ \A i \in 1 .. Len(received) : received[i] \in Keys \cup {Nul}
  BY <1>1, ElementOfSeq
<1>5. Owed \in Nat /\ (Last(code) = "read" => Owed > 0)
  BY OwedNat
<1>6. Len(accepted) = Len(received) + Owed
  BY DEF InputOK, InputCounted
<1>7. polled \in Nat /\ rbuf \in Nat
  <2>1. Nul \in Nat
    BY <1>2
  <2> QED BY <1>1, <1>2, <1>3, <2>1
<1>8. rcsr.done \in BOOLEAN
  BY <1>1
<1>9. /\ Len(received) <= Len(accepted)
      /\ Last(code) = "read" => Len(received) < Len(accepted)
  BY <1>3, <1>5, <1>6
<1>10. /\ \A i \in 1 .. Len(accepted) : accepted[i] \in Nat \ {0}
       /\ \A i \in 1 .. Len(received) : received[i] \in Nat
  <2>1. Keys \cup {Nul} \subseteq Nat
    BY <1>2
  <2> QED BY ONLY <1>2, <1>4, <2>1
<1> QED BY <1>2, <1>3, <1>7, <1>8, <1>9, <1>10

\* Where no character is accepted or read, and what RBUF holds is what it held.
LEMMA SameFresh ==
    ASSUME LineIInv, InputOK, UNCHANGED <<accepted, received>>,
           polled' \in {polled, polled + 1},
           rcsr'.done => rcsr.done /\ UNCHANGED rbuf
    PROVE  InputFresh'
<1>1. /\ \A i \in 1 .. Len(accepted) : accepted[i] \in Nat
      /\ \A i \in 1 .. Len(received) : received[i] \in Nat
      /\ polled \in Nat /\ rbuf \in Nat
  BY InputTypes
<1>2. \A x \in Nat : x <= polled => x <= polled'
  BY <1>1
<1>3. InputFresh
  BY DEF InputOK
<1> QED BY <1>1, <1>2, <1>3 DEF InputFresh

\* A key arrives: it is newer than everything.
LEMMA AddCharFresh ==
    ASSUME LineIInv, InputOK, UNCHANGED received, polled' = polled + 1,
           polled + 1 \in Keys, AddChar(polled + 1)
    PROVE  InputFresh'
<1> DEFINE c == polled + 1
<1>1. /\ polled \in Nat /\ Len(accepted) \in Nat /\ Len(received) \in Nat
      /\ Len(received) <= Len(accepted)
      /\ \A i \in 1 .. Len(accepted) : accepted[i] \in Nat
      /\ \A i \in 1 .. Len(received) : received[i] \in Nat
  BY InputTypes
<1>2. rcsr'.done /\ rbuf' = c
  BY DEF AddChar, LineIInv, LineTypeOK
<1>3. /\ \A i \in 1 .. Len(accepted) : accepted[i] <= polled
      /\ \A i \in 1 .. Len(received) :
             received[i] <= polled /\ (received[i] = Nul \/ received[i] >= accepted[i])
      /\ \A i, j \in 1 .. Len(received) :
             i < j /\ Nul \notin {received[i], received[j]} => received[i] < received[j]
  BY DEF InputOK, InputFresh
<1>4. /\ \A i \in 1 .. Len(accepted') : accepted'[i] <= c
      /\ \A i \in 1 .. Len(accepted) : accepted'[i] = accepted[i]
  <2>1. CASE UNCHANGED accepted
    BY <1>1, <1>3, <2>1
  <2>2. CASE accepted' = Append(accepted, c)
    <3>1. accepted \in Seq(Keys)
      BY DEF LineIInv
    <3>2. /\ Len(accepted') = Len(accepted) + 1
          /\ \A i \in 1 .. Len(accepted) : accepted'[i] = accepted[i]
          /\ accepted'[Len(accepted) + 1] = c
      BY <2>2, <3>1, AppendProperties
    <3>3. ASSUME NEW i \in 1 .. Len(accepted') PROVE accepted'[i] <= c
      <4>1. i = Len(accepted) + 1 \/ i \in 1 .. Len(accepted)
        BY <1>1, <3>2
      <4> QED BY <1>1, <1>3, <3>2, <4>1
    <3> QED BY <3>2, <3>3
  <2> QED BY <2>1, <2>2 DEF AddChar
<1>5. \A i \in 1 .. Len(received) : i \in 1 .. Len(accepted)
  BY <1>1
<1>6. ASSUME NEW i \in 1 .. Len(received)
      PROVE /\ received[i] <= c /\ received[i] < c /\ accepted'[i] < c
            /\ received[i] = Nul \/ received[i] >= accepted'[i]
  BY <1>1, <1>3, <1>4, <1>5
<1>7. polled' = c
  OBVIOUS
<1>8. c <= c
  BY <1>1
<1> HIDE DEF c
<1> QED BY <1>2, <1>3, <1>4, <1>6, <1>7, <1>8 DEF InputFresh

\* The handler reads: what it finds is no older than the character its request
\* was made for, and newer than what was read before.
LEMMA ReadsFresh ==
    ASSUME LineIInv, InputOK, Reads
    PROVE  InputFresh'
<1>1. /\ UNCHANGED <<accepted, polled>> /\ received' = Append(received, RbufRead)
      /\ Last(code) = "read" /\ ~rcsr'.done
  BY DEF Reads, Instruction, ReadRbuf, LineIInv, LineTypeOK
<1>2. /\ polled \in Nat /\ rbuf \in Nat /\ Len(accepted) \in Nat /\ Len(received) \in Nat
      /\ Len(received) < Len(accepted) /\ rcsr.done \in BOOLEAN
      /\ \A i \in 1 .. Len(accepted) : accepted[i] \in Nat
      /\ \A i \in 1 .. Len(received) : received[i] \in Nat
  BY <1>1, InputTypes
<1>3. InputFresh
  BY DEF InputOK
<1>4. PICK n, v : n = Len(received) + 1 /\ v = RbufRead
  OBVIOUS
<1>5. /\ Len(received') = n /\ received'[n] = v
      /\ \A i \in 1 .. Len(received) : received'[i] = received[i]
  <2>1. received \in Seq(Keys \cup {Nul}) /\ RbufRead \in Keys \cup {Nul}
    BY DEF LineIInv, LineTypeOK, RbufRead
  <2> QED BY <1>1, <1>4, <2>1, AppendProperties
<1>6. n \in 1 .. Len(accepted) /\ (\A i \in 1 .. n : i = n \/ i \in 1 .. Len(received))
  BY <1>2, <1>4
<1>7. v \in Nat /\ v <= polled /\ (v = Nul \/ v >= accepted[n])
  BY <1>2, <1>3, <1>4, <1>6 DEF RbufRead, InputFresh, Nul
<1>8. v # Nul => \A i \in 1 .. Len(received) : received[i] < v
  BY <1>3, <1>4 DEF RbufRead, InputFresh
<1>9. \A i \in 1 .. n : /\ received'[i] <= polled
                        /\ received'[i] = Nul \/ received'[i] >= accepted[i]
  BY <1>3, <1>5, <1>6, <1>7 DEF InputFresh
<1>10. ASSUME NEW i \in 1 .. n, NEW j \in 1 .. n, i < j,
              Nul \notin {received'[i], received'[j]}
       PROVE  received'[i] < received'[j]
  <2>1. i \in 1 .. Len(received)
    BY <1>2, <1>4, <1>10
  <2>2. CASE j = n
    BY <1>5, <1>8, <1>10, <2>1, <2>2
  <2>3. CASE j \in 1 .. Len(received)
    BY <1>3, <1>5, <1>10, <2>1, <2>3 DEF InputFresh
  <2> QED BY <1>6, <2>2, <2>3
<1> QED BY <1>1, <1>3, <1>5, <1>9, <1>10 DEF InputFresh

LEMMA NextFresh ==
    ASSUME LineIInv, [LineNext]_<<vars, lineVars>>, ~undefined', console' # "full"
    PROVE  InputFresh'
<1>1. InputOK
  BY StillMeant
<1>2. rcsr \in [done : BOOLEAN, ie : BOOLEAN]
  BY DEF LineIInv, LineTypeOK
<1>3. CASE \/ UNCHANGED <<vars, lineVars>> \/ Types \/ LineResume
           \/ (Stopped /\ UNCHANGED lineVars)
           \/ (Check \/ ReadVector \/ PopIrq) /\ UNCHANGED lineVars
           \/ Computes \/ LineEnterHandler \/ LinePollTransmitter \/ Writes \/ Starts
  <2>1. UNCHANGED <<accepted, received, polled, rcsr, rbuf>>
    BY <1>3 DEF lineVars, registers, driver, Types, LineResume, Computes, LineEnterHandler,
       LinePollTransmitter, Writes, Starts, Instruction
  <2> QED BY <1>1, <2>1, SameFresh
<1>4. CASE BootPrints \/ Stores \/ OpensTransmitter \/ OpensReceiver
  <2>1. /\ UNCHANGED <<accepted, received, polled, rbuf>>
        /\ rcsr' \in {rcsr, [rcsr EXCEPT !.ie = TRUE]}
    BY <1>4 DEF BootPrints, Stores, OpensTransmitter, OpensReceiver, WriteXbuf, WriteXcsr,
       WriteRcsr, Instruction
  <2>2. rcsr'.done = rcsr.done
    BY <1>2, <2>1
  <2> QED BY <1>1, <2>1, <2>2, SameFresh
<1>5. CASE BootResets
  <2>1. UNCHANGED <<accepted, received, polled>> /\ ~rcsr'.done
    BY <1>5 DEF BootResets, ResetRegisters, Instruction
  <2> QED BY <1>1, <2>1, SameFresh
<1>6. CASE LinePollReceiver
  <2>1. UNCHANGED received
    BY <1>6 DEF LinePollReceiver, driver
  <2> QED BY <1>1, <1>6, <2>1, ReceiverPolled, SameFresh, AddCharFresh
<1> QED BY <1>1, <1>3, <1>4, <1>5, <1>6, ReadsFresh DEF LineNext, LineMain, Guest

-----------------------------------------------------------------------------
(***************************************************************************)
(* The invariant.                                                          *)
(***************************************************************************)
LEMMA InitLine == LineInit => LineIInv
<1> SUFFICES ASSUME LineInit PROVE LineIInv
  OBVIOUS
<1>1. /\ Init /\ rcsr = [done |-> FALSE, ie |-> FALSE] /\ rbuf = Nul
      /\ xcsr = [ready |-> TRUE, ie |-> FALSE] /\ xbuf = 0 /\ count = 0
      /\ typed = << >> /\ polled = 0 /\ printed = << >>
      /\ code = <<"boot">> /\ queue = << >> /\ written = << >>
      /\ accepted = << >> /\ received = << >>
  BY DEF LineInit
<1>2. Len(typed) = 0 /\ Len(accepted) = 0 /\ Len(received) = 0 /\ Len(code) = 1
      /\ Last(code) = "boot" /\ code[1] = "boot"
  BY <1>1, CodeFacts
<1>3. QInv
  <2>1. Filled(itab, 0)
    BY <1>1, ITABNAssumption DEF Init, Filled, Occupied, NoIntr, Slots
  <2>2. 0 \in 0 .. ITABN
    BY ITABNAssumption
  <2>3. HeadIsDelivered
    BY <1>1 DEF Init, HeadIsDelivered
  <2> QED BY <1>1, <2>1, <2>2, <2>3, InitIInv DEF QInv, TableFilled
<1>4. CodeOK
  BY <1>1 DEF CodeOK, Bases
<1>5. OutputInOrder /\ DriverOK
  <2>1. \A S : << >> \in Seq(S)
    OBVIOUS
  <2>2. << >> \o << >> \o << >> = << >>
    BY <2>1, ConcatEmptySeq
  <2> QED BY <1>1, <1>2, <2>1, <2>2 DEF OutputInOrder, DriverOK
<1>6. BootQuiet
  BY <1>1, SlotFacts DEF BootQuiet, Init, Occupied, NoIntr
<1>7. LineTypeOK
  <2>1. 0 \in OutputBytes
    <3>1. WithParity(Nul) = 0 /\ Nul = 0
      BY DEF WithParity, Nul
    <3> QED BY <3>1 DEF OutputBytes
  <2>2. code \in Seq(Activities) /\ code # << >>
    <3>1. "boot" \in Activities
      BY DEF Activities
    <3>2. <<"boot">> \in Seq(Activities) /\ <<"boot">> # << >>
      BY <3>1
    <3> QED BY <1>1, <3>2
  <2>3. priority = Level(Last(code))
    BY <1>1, <1>2 DEF Init, Level
  <2>4. typed \in Seq(Keys \cup {CtrlP, CtrlT}) /\ polled \in 0 .. Len(typed)
    BY <1>1, <1>2
  <2>5. count \in 0 .. Pace + 1
    BY <1>1, LineAssumption
  <2>6. TypeOK
    BY <1>3 DEF QInv, IInv
  <2> QED BY <1>1, <2>1, <2>2, <2>3, <2>4, <2>5, <2>6 DEF LineTypeOK
<1>8. TypedOK /\ accepted \in Seq(Keys) /\ received \in Seq(Keys \cup {Nul})
  BY <1>1, <1>2 DEF TypedOK
<1>9. InputOK
  <2>1. Cardinality(TtyIns(itab)) = 0
    <3>1. NoIntr # TtyIn
      <4>1. NoIntr.vec = 0 /\ TtyIn.vec = 48
        BY DEF NoIntr, TtyIn
      <4> QED BY <4>1
    <3>2. TtyIns(itab) = {}
      BY <1>1, <3>1 DEF TtyIns, Init
    <3> QED BY <3>2, FS_EmptySet
  <2>2. pc = "step"
    BY <1>1 DEF Init
  <2>3. Owed = 0
    BY <1>2, <1>4, <2>1, <2>2, OwedIs
  <2>4. ~rcsr.done
    BY <1>1
  <2> QED BY <1>2, <2>3, <2>4 DEF InputOK, InputCounted, InputFresh
<1> QED BY <1>3, <1>4, <1>5, <1>6, <1>7, <1>8, <1>9 DEF LineIInv

LEMMA NextLine == LineIInv /\ [LineNext]_<<vars, lineVars>> => LineIInv'
<1> SUFFICES ASSUME LineIInv, [LineNext]_<<vars, lineVars>> PROVE LineIInv'
  OBVIOUS
<1>1. QInv' /\ TypeOK'
  BY NextDelivery DEF QInv, IInv
<1>2. CodeOK'
  BY NextCode
<1>3. DriverOK' /\ OutputInOrder'
  BY NextOutput
<1>4. BootQuiet'
  BY NextBoot
<1>5. /\ LineTypeOK' /\ TypedOK'
      /\ accepted' \in Seq(Keys) /\ received' \in Seq(Keys \cup {Nul})
  BY <1>1, NextTypes
<1>6. (~undefined /\ console # "full" => InputOK)'
  BY NextCounted, NextFresh DEF InputOK
<1> QED BY <1>1, <1>2, <1>3, <1>4, <1>5, <1>6 DEF LineIInv

\* An accepted character is in RBUF, unread, while a read is owed.
LEMMA LineIInvIsEnough == LineIInv => LineInv
<1> SUFFICES ASSUME LineIInv PROVE LineInv
  OBVIOUS
<1>1. ASSUME ~undefined, console # "full" PROVE InputAccounted
  <2>1. InputOK
    BY <1>1 DEF LineIInv
  <2>2. /\ Len(accepted) = Len(received) + Owed
        /\ \A i \in 1 .. Len(received) : received[i] = Nul \/ received[i] >= accepted[i]
        /\ \A i, j \in 1 .. Len(received) :
               i < j /\ Nul \notin {received[i], received[j]} => received[i] < received[j]
    BY <2>1 DEF InputOK, InputCounted, InputFresh
  <2>3. ASSUME rcsr.done, rbuf \in Range(accepted), ~(Owed > 0) PROVE FALSE
    <3>1. PICK j \in 1 .. Len(accepted) : accepted[j] = rbuf
      <4>1. accepted \in Seq(Keys)
        BY DEF LineIInv
      <4>2. DOMAIN accepted = 1 .. Len(accepted)
        BY <4>1, LenProperties
      <4> QED BY <2>3, <4>2 DEF Range
    <3>2. Owed = 0 /\ Len(received) \in Nat /\ Len(accepted) \in Nat
      BY <2>1, <2>3, OwedNat, InputTypes
    <3>3. j \in 1 .. Len(received)
      BY <2>2, <3>1, <3>2
    <3>4. accepted[j] < rbuf
      BY <2>1, <2>3, <3>3 DEF InputOK, InputFresh
    <3>5. rbuf \in Nat
      BY <2>1, InputTypes
    <3> QED BY <3>1, <3>4, <3>5
  <2> QED BY <2>2, <2>3 DEF InputAccounted
<1>2. InputAccounted
  BY <1>1 DEF InputAccounted
<1> QED BY <1>2 DEF LineIInv, LineInv

\* Hence it holds in every reachable state.
LEMMA LineInvariance == LineSpec => []LineIInv
BY InitLine, NextLine, PTL DEF LineSpec

\* The line, in both directions, whatever the operator types, the guest writes
\* and the interrupts fall between: each character poll() has announced gets one
\* read, in order and never twice, and each character given to the driver is
\* printed, in the transmitter or queued, once and in order.
THEOREM LineAccounted == LineSpec => []LineInv
BY LineInvariance, LineIInvIsEnough, PTL

\* The line with its guest is a run of the interrupt delivery, so what is proved
\* of cpu::interrupt(), loop0() and handleinterrupt() holds of it.
THEOREM LineDelivers == LineSpec => Spec
<1>1. LineInit => Init
  BY DEF LineInit
<1>2. LineIInv /\ [LineNext]_<<vars, lineVars>> => [Next]_vars
  BY LineIsDelivery DEF LineIInv, LineTypeOK
<1> QED BY <1>1, <1>2, LineInvariance, PTL DEF LineSpec, Spec

\* Its two requests share one priority, so its table is a queue: no request of
\* the receiver or the transmitter is delivered twice, lost or overtaken.
THEOREM LineQueued == LineSpec => QueueRefined
BY LineDelivers, OneLinePriority, QueueImplemented, PTL
=============================================================================
