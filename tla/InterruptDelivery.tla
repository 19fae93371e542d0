------------------------- MODULE InterruptDelivery -------------------------
(***************************************************************************)
(* Who fills and who empties the interrupt table of lib/cpu/cpu.cpp.       *)
(*                                                                         *)
(* The main thread is src/main.cpp loop() and loop0(): execute one         *)
(* instruction, test the head of the table, deliver it or poll the         *)
(* console line.  The timer interrupt lks_tick() may run between any two   *)
(* of its steps, for the code disables interrupts only inside the table    *)
(* operations and the test.  The operator's console (lib/console) takes    *)
(* over a thread, main or timer, until it is left.                         *)
(***************************************************************************)
EXTENDS InterruptTable

CONSTANTS
    Sources,    \* the request lines in use, each a record [vec, pri]
    Levels      \* the priorities the guest puts into PS bits 7-5

\* The request lines of the machine (include/pdp11.h:9-20), vectors in octal
\* 060, 064, 0100, 0220 and 0224, with the priority each caller passes.
TtyIn  == [vec |-> 48,  pri |-> 4]      \* dl11.cpp:27
TtyOut == [vec |-> 52,  pri |-> 4]      \* dl11.cpp:51
Clock  == [vec |-> 64,  pri |-> 6]      \* main.cpp:255
Rk     == [vec |-> 144, pri |-> 5]      \* rk05.cpp:80,109,207
Tm     == [vec |-> 148, pri |-> 5]      \* tm11.cpp:146,268

ASSUME SourcesAssumption == Sources \subseteq {TtyIn, TtyOut, Clock, Rk, Tm}
ASSUME LevelsAssumption == Levels \subseteq 0 .. 7 /\ 0 \in Levels

VARIABLES
    itab,       \* the table
    pc,         \* where the main thread is
    priority,   \* (PS >> 5) & 7
    clockIE,    \* LKS bit 6, interrupt enable of the clock
    vec,        \* the local of handleinterrupt(), 0 outside of it
    console,    \* the thread console::loop() runs on, and how it got there
    active,     \* console::active, the flag that mutes the clock
    undefined   \* the program has left what C++ defines

vars == <<itab, pc, priority, clockIE, vec, console, active, undefined>>

PcValues == {"step", "finish", "check", "handle", "vector", "pop", "poll", "xmit"}

\* "main": a panic() or ctrl-P; "full", "isr": the panic of a full table in
\* the main thread, in the timer interrupt.
ConsoleValues == {"off", "main", "full", "isr"}

TypeOK ==
    /\ itab \in [Slots -> Sources \cup {NoIntr}]
    /\ pc \in PcValues
    /\ priority \in Levels
    /\ clockIE \in BOOLEAN
    /\ vec \in {s.vec : s \in Sources} \cup {0}
    /\ console \in ConsoleValues
    /\ active \in BOOLEAN
    /\ undefined \in BOOLEAN

\* After setup(): the globals are zero, LKS is 1 << 7 (cpu::reset).
Init ==
    /\ itab = [i \in Slots |-> NoIntr]
    /\ pc = "step"
    /\ priority = 0
    /\ clockIE = FALSE
    /\ vec = 0
    /\ console = "off"
    /\ active = FALSE
    /\ undefined = FALSE

-----------------------------------------------------------------------------
(***************************************************************************)
(* cpu::interrupt(s), called where a full table leads to the console       *)
(* reached as `where`.                                                     *)
(***************************************************************************)
Interrupt(s, where) ==
    \/ /\ \E i \in Slots : InsertsAt(itab, s, i) /\ itab' = Inserted(itab, s, i)
       /\ UNCHANGED <<console, active>>
    \/ /\ Full(itab, s)
       /\ console' = where
       /\ active' = TRUE
       /\ UNCHANGED itab

\* The main thread can run: it is not inside console::loop() and the timer
\* interrupt, which runs to its end, is not either.
Running(at) == pc = at /\ console = "off"

-----------------------------------------------------------------------------
(***************************************************************************)
(* cpu::step(): one instruction, as far as it touches what is modelled.    *)
(***************************************************************************)

\* An instruction that stores into PS (RTI, RTT, or a write of 0777776) or into
\* LKS, or into neither.
Execute ==
    /\ Running("step")
    /\ \/ priority' \in Levels /\ UNCHANGED clockIE
       \/ clockIE' \in BOOLEAN /\ UNCHANGED priority
    /\ pc' = "check"
    /\ UNCHANGED <<itab, vec, console, active, undefined>>

\* longjmp(trapbuf, v) out of the instruction: loop() calls trapat(), which
\* loads PS from the vector, and starts loop0() again without a test.
Trap ==
    /\ Running("step")
    /\ priority' \in Levels
    /\ pc' = "step"
    /\ UNCHANGED <<itab, clockIE, vec, console, active, undefined>>

\* A store into RKCS or MTC that completes the command inside the store
\* (rk11::write16, tm11::write16).
StartDevice ==
    /\ Running("step")
    /\ \E s \in {Rk, Tm} \cap Sources : Interrupt(s, "full")
    /\ pc' = "check"
    /\ UNCHANGED <<priority, clockIE, vec, undefined>>

\* tm11::go() of a rewind requests an interrupt itself (tm11.cpp:267) ...
Rewind ==
    /\ Running("step")
    /\ Tm \in Sources
    /\ Interrupt(Tm, "full")
    /\ pc' = "finish"
    /\ UNCHANGED <<priority, clockIE, vec, undefined>>

\* ... and finish() a second one (tm11.cpp:144).
Finish ==
    /\ Running("finish")
    /\ Tm \in Sources
    /\ Interrupt(Tm, "full")
    /\ pc' = "check"
    /\ UNCHANGED <<priority, clockIE, vec, undefined>>

\* HALT, an odd vector, a bad mode: panic(), then on with the loop.
Halt ==
    /\ Running("step")
    /\ pc' = "check"
    /\ console' = "main"
    /\ active' = TRUE
    /\ UNCHANGED <<itab, priority, clockIE, vec, undefined>>

-----------------------------------------------------------------------------
\* Mutants of the test: the priority is not compared; slot 1 is tested.
CheckUnmasked ==
    /\ Running("check")
    /\ pc' = IF Occupied(itab, 0) THEN "handle" ELSE "poll"
    /\ UNCHANGED <<itab, priority, clockIE, vec, console, active, undefined>>

CheckSecondSlot ==
    /\ Running("check")
    /\ pc' = IF Occupied(itab, 1) /\ itab[1].pri >= priority THEN "handle" ELSE "poll"
    /\ UNCHANGED <<itab, priority, clockIE, vec, console, active, undefined>>

\* loop0(): the test of the head, with interrupts disabled.
Check ==
    /\ Running("check")
    /\ pc' = IF Occupied(itab, 0) /\ itab[0].pri >= priority THEN "handle" ELSE "poll"
    /\ UNCHANGED <<itab, priority, clockIE, vec, console, active, undefined>>

\* Mutant: handleinterrupt() pops the entry as it reads it, and again at its end.
ReadVectorPops ==
    /\ Running("handle")
    /\ vec' = itab[0].vec
    /\ itab' = Popped(itab)
    /\ pc' = "vector"
    /\ UNCHANGED <<priority, clockIE, console, active, undefined>>

\* handleinterrupt() reads the head under a SECOND disable.
ReadVector ==
    /\ Running("handle")
    /\ vec' = itab[0].vec
    /\ pc' = "vector"
    /\ UNCHANGED <<itab, priority, clockIE, console, active, undefined>>

\* It pushes PS and PC (a fault there enters the trap first) and loads PC and
\* PS from the vector.
EnterHandler ==
    /\ Running("vector")
    /\ priority' \in Levels
    /\ pc' = "pop"
    /\ UNCHANGED <<itab, clockIE, vec, console, active, undefined>>

\* popirq(); handleinterrupt() and loop0() return, loop() calls loop0() again.
PopIrq ==
    /\ Running("pop")
    /\ itab' = Popped(itab)
    /\ vec' = 0
    /\ pc' = "step"
    /\ UNCHANGED <<priority, clockIE, console, active, undefined>>

-----------------------------------------------------------------------------
\* dl11::poll(), its first half: nothing typed or the receiver interrupt
\* disabled, ctrl-P, or a character that raises the receiver interrupt.
PollReceiver ==
    /\ Running("poll")
    /\ pc' = "xmit"
    /\ \/ UNCHANGED <<itab, console, active>>
       \/ console' = "main" /\ active' = TRUE /\ UNCHANGED itab
       \/ TtyIn \in Sources /\ Interrupt(TtyIn, "full")
    /\ UNCHANGED <<priority, clockIE, vec, undefined>>

\* dl11::poll(), its second half.
PollTransmitter ==
    /\ Running("xmit")
    /\ pc' = "step"
    /\ \/ UNCHANGED <<itab, console, active>>
       \/ TtyOut \in Sources /\ Interrupt(TtyOut, "full")
    /\ UNCHANGED <<priority, clockIE, vec, undefined>>

-----------------------------------------------------------------------------
(***************************************************************************)
(* lks_tick(), the timer interrupt: whatever the main thread is doing,     *)
(* unless the console is active or the clock interrupt is disabled.        *)
(***************************************************************************)
Tick ==
    /\ console = "off"
    /\ ~active /\ clockIE
    /\ Clock \in Sources
    /\ Interrupt(Clock, "isr")
    /\ UNCHANGED <<pc, priority, clockIE, vec, undefined>>

-----------------------------------------------------------------------------
(***************************************************************************)
(* The operator at the console.                                            *)
(***************************************************************************)

\* "W address data" reaches every register: PS, LKS ...
Deposit ==
    /\ console # "off"
    /\ \/ priority' \in Levels /\ UNCHANGED clockIE
       \/ clockIE' \in BOOLEAN /\ UNCHANGED priority
    /\ UNCHANGED <<itab, pc, vec, console, active, undefined>>

\* ... and the command registers of the disk and the tape.
DepositCommand ==
    /\ console # "off"
    /\ \E s \in {Rk, Tm} \cap Sources :
           Interrupt(s, IF console = "main" THEN "full" ELSE console)
    /\ UNCHANGED <<pc, priority, clockIE, vec, undefined>>

\* "E" or "W" of an address that does not answer: unibus::read16 or write16
\* leaves console::loop() by longjmp and console::active stays set.  Out of
\* the timer interrupt that jump is undefined.
BusErrorInConsole ==
    /\ console # "off"
    /\ console' = "off"
    /\ IF console = "isr"
       THEN undefined' = TRUE /\ UNCHANGED <<pc, priority, vec>>
       ELSE pc' = "step" /\ priority' \in Levels /\ UNCHANGED <<vec, undefined>>
    /\ UNCHANGED <<itab, clockIE, active>>

\* "cont", "boot" or "G".  After the panic of a full table cpu::interrupt()
\* goes on and stores into itab[ITABN], past the end of the array.
Resume ==
    /\ console # "off"
    /\ console' = "off"
    /\ active' = FALSE
    /\ IF console = "main" THEN UNCHANGED undefined ELSE undefined' = TRUE
    /\ UNCHANGED <<itab, pc, priority, clockIE, vec>>

-----------------------------------------------------------------------------
Main == \/ Execute \/ Trap \/ StartDevice \/ Rewind \/ Finish \/ Halt
        \/ Check \/ ReadVector \/ EnterHandler \/ PopIrq
        \/ PollReceiver \/ PollTransmitter

Operator == Deposit \/ DepositCommand \/ BusErrorInConsole \/ Resume

\* Nothing is said of a program that has left the language.
Stopped == undefined /\ UNCHANGED vars

Next == \/ ~undefined /\ (Main \/ Tick \/ Operator)
        \/ Stopped

(***************************************************************************)
(* loop() runs for ever on a bare machine and lks_tick() returns, so the   *)
(* main thread keeps its steps coming; guest, timer, line and operator owe *)
(* nothing.                                                                *)
(***************************************************************************)
Spec == Init /\ [][Next]_vars

FairSpec == Spec /\ WF_vars(~undefined /\ Main)

-----------------------------------------------------------------------------
(***************************************************************************)
(* Properties.                                                             *)
(***************************************************************************)

\* The table has no hole: loop0() looks at slot 0 alone and the scans stop at
\* the first empty slot, so an entry behind a hole would be stranded.
TableCompact == Compact(itab)

\* Despite the second scan and the ascending copy, an entry stands before
\* another only with no lower priority or no higher vector: the clock is
\* never queued behind the disk or the tape.
TableOrdered == Ordered(itab)

\* The test in loop0() and the read in handleinterrupt() are two critical
\* sections with the timer interrupt free to run between them; still, what is
\* delivered has a priority the processor does not mask.
NeverBelowPriority ==
    console = "off" /\ ~undefined =>
        /\ pc = "handle" => Occupied(itab, 0) /\ itab[0].pri >= priority
        /\ pc = "vector" => \E s \in Sources : s.vec = vec /\ s.pri >= priority

\* Where the loop can stand while the main thread is in the console, and when
\* handleinterrupt() holds a vector: with the invariants above, the inductive
\* invariant of the proofs.
ConsoleFromLoop == console \in {"main", "full"} => pc \in {"step", "finish", "check", "xmit"}

VectorHeld == vec # 0 <=> pc \in {"vector", "pop"}

IInv ==
    /\ TypeOK
    /\ TableCompact
    /\ TableOrdered
    /\ ConsoleFromLoop
    /\ VectorHeld
    /\ NeverBelowPriority

\* Between two pops, the head of the table gives way to a strictly higher
\* priority only.
HeadOnlyOvertakenByHigher ==
    [][ Occupied(itab, 0) /\ pc # "pop" =>
            itab'[0] = itab[0] \/ itab'[0].pri > itab[0].pri ]_vars

\* The table implements the pending set: nothing is delivered that is not
\* pending, nothing is pending that was not requested, and an accepted request
\* is pending whatever the insertion does to the other entries.
PendingVectors == {itab[i].vec : i \in {j \in Slots : Occupied(itab, j)}}

Pending == INSTANCE InterruptPending
               WITH Vectors <- {s.vec : s \in Sources},
                    pending <- PendingVectors,
                    serving <- vec

PendingRefined == Pending!PendingSpec

\* With sources of one priority it implements more, the bounded queue: each
\* accepted request is delivered exactly once and in order, although the timer
\* interrupt may come between the delivery and popirq().
Used == CHOOSE n \in 0 .. ITABN : \A i \in Slots : Occupied(itab, i) <=> i < n

Queue == INSTANCE InterruptQueue
             WITH Vectors <- {s.vec : s \in Sources},
                  Bound <- ITABN,
                  queue <- [k \in 1 .. Used |-> itab[k - 1].vec],
                  serving <- vec

QueueRefined == Queue!QueueSpec

\* The guest keeps coming back to priority 0 at an instruction boundary that
\* does not trap and finds the console closed.
GuestOpen == []<>(pc = "check" /\ console = "off" /\ ~undefined /\ priority = 0)

\* A table that is not empty, but for the entry popirq() is about to remove,
\* leads to a delivery: no entry blocks the table.
SomeDelivered ==
    GuestOpen => (Occupied(itab, 0) /\ pc # "pop" ~> pc = "vector")

\* popirq() removes the entry that handleinterrupt() delivered.
PopsWhatItDelivered ==
    [][ pc = "pop" /\ pc' = "step" /\ console = "off" => itab[0].vec = vec ]_vars
=============================================================================
