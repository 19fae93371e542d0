---------------------------- MODULE ProcessorMode ----------------------------
(***************************************************************************)
(* Processor modes, banked stack pointers and the entry to and return from *)
(* handlers: lib/cpu/cpu.cpp switchmode(), trapat(), handleinterrupt(),    *)
(* EMTX(), RTT() and MTPI(), and the store into PS of lib/unibus.          *)
(*                                                                         *)
(* Addresses count words.  Of the kernel's address space only the stack is *)
(* kept; a push outside of it faults (mmu::decode or unibus::write16 leaves*)
(* by longjmp).  PS is its two mode fields and its priority.  The guest is *)
(* a kernel that returns from a handler with the stack as it found it and  *)
(* whose vectors hold kernel-mode words, and a user program that does what *)
(* it likes.                                                               *)
(***************************************************************************)
EXTENDS Integers, Sequences, SequencesExt

CONSTANTS
    Words,          \* words of the address space, 2^15
    StackBottom,    \* the kernel stack is StackBottom .. Words - 1
    Pcs,            \* places in the guest's code
    UserStacks,     \* values the user and MTPI give to the user's R6
    Stored,         \* PS words the kernel stores, user frames included
    Data,           \* a word of the kernel stack that is no part of a frame
    Fault,          \* the vector of a memory fault, a record [pc, pri]
    Traps,          \* the vectors of the other traps
    Lines           \* interrupts: records [pc, pri, level], level requested

NoVec == [pc |-> Data, pri |-> 0]

Address == 0 .. Words - 1
Stack == StackBottom .. Words - 1
Modes == 0 .. 3         \* 0 kernel, 3 user, the others do not exist
PsWords == [cm : Modes, pm : Modes, pri : 0 .. 7]

ASSUME ModeAssumption ==
    /\ Words \in Nat /\ StackBottom \in Nat \ {0} /\ StackBottom + 2 <= Words
    /\ Data \notin Pcs /\ Data \notin PsWords
    /\ UserStacks \subseteq Address /\ 0 \in UserStacks
    /\ Stored \subseteq PsWords
    /\ Fault \in [pc : Pcs, pri : 0 .. 7]
    /\ Traps \subseteq [pc : Pcs, pri : 0 .. 7]
    /\ Lines \subseteq [pc : Pcs, pri : 0 .. 7, level : 0 .. 7]

VARIABLES
    regs,       \* curuser, prevuser, R6 and R7 (r6, pc), KSP, USP, PS
    mem,        \* the kernel stack
    trapping,   \* longjmp(trapbuf, v) has been called with this vector
    servicing,  \* handleinterrupt() was left by it while serving this line
    contexts,   \* history: the programs interrupted, the latest last
    overflow    \* history: the kernel stack has been too short

vars == <<regs, mem, trapping, servicing, contexts, overflow>>

Registers == [curuser : BOOLEAN, prevuser : BOOLEAN, r6 : Address, pc : Pcs,
              ksp : Address, usp : Address, ps : PsWords]

\* A program interrupted: its frame is at `at` and at + 1.
Contexts == [at : Stack, pc : Pcs, ps : PsWords, user : BOOLEAN, prev : BOOLEAN]

\* Words are model values and records of PS: a kernel stack holds both.
TypeOK ==
    /\ regs \in Registers
    /\ DOMAIN mem = Stack
    /\ \A a \in Stack : mem[a] \in PsWords \/ mem[a] \in Pcs \/ mem[a] = Data
    /\ trapping \in Traps \cup {Fault, NoVec}
    /\ servicing \in Lines \cup {NoVec}
    /\ contexts \in Seq(Contexts)
    /\ overflow \in BOOLEAN

\* The kernel runs and has set up its stack.
Init ==
    /\ regs \in [curuser : {FALSE}, prevuser : {FALSE}, r6 : {0}, pc : Pcs,
                 ksp : {0}, usp : {0}, ps : {[cm |-> 0, pm |-> 0, pri |-> 0]}]
    /\ mem = [a \in Stack |-> Data]
    /\ trapping = NoVec
    /\ servicing = NoVec
    /\ contexts = << >>
    /\ overflow = FALSE

-----------------------------------------------------------------------------
Above(a, n) == (a + n) % Words
BelowUnwrapped(a) == a - 1                 \* mutant
Below(a) == (a - 1) % Words

Bits(user) == IF user THEN 3 ELSE 0

\* Mutant: R6 is saved after the mode has changed, into the bank of the new mode.
SwitchedThenSaved(r, newm) ==
    LET k == IF newm THEN r.ksp ELSE r.r6
        u == IF newm THEN r.r6 ELSE r.usp
    IN [r EXCEPT !.prevuser = r.curuser, !.curuser = newm, !.ksp = k, !.usp = u,
                 !.r6 = IF newm THEN u ELSE k,
                 !.ps = [cm |-> Bits(newm), pm |-> Bits(r.curuser), pri |-> r.ps.pri]]

\* switchmode(): R6 goes to the bank of the old mode and comes from that of the
\* new one, and the old mode becomes the previous one, in PS as well.
Switched(r, newm) ==
    LET k == IF r.curuser THEN r.ksp ELSE r.r6
        u == IF r.curuser THEN r.r6 ELSE r.usp
    IN [r EXCEPT !.prevuser = r.curuser, !.curuser = newm, !.ksp = k, !.usp = u,
                 !.r6 = IF newm THEN u ELSE k,
                 !.ps = [cm |-> Bits(newm), pm |-> Bits(r.curuser), pri |-> r.ps.pri]]

\* Mutants: the previous mode is left to switchmode(); so is the word.
PsStoredOldPrevious(r, v) ==
    LET s == IF v.cm \in {0, 3} THEN Switched(r, v.cm = 3) ELSE r
    IN [s EXCEPT !.ps = v]
PsStoredModes(r, v) == IF v.cm \in {0, 3} THEN Switched(r, v.cm = 3) ELSE r

\* unibus::write16(0777776, v).  A mode that does not exist is a panic(); when
\* the operator continues, PS holds v all the same.
PsStored(r, v) ==
    LET s == IF v.cm \in {0, 3} THEN Switched(r, v.cm = 3) ELSE r
    IN [s EXCEPT !.prevuser = IF v.pm \in {0, 3} THEN v.pm = 3 ELSE s.prevuser, !.ps = v]

\* PC and PS from a vector; the previous mode is added to the word found there.
Loaded(r, v) ==
    [r EXCEPT !.pc = v.pc,
              !.ps = [cm |-> 0, pm |-> Bits(r.prevuser), pri |-> v.pri]]

\* The PS that is pushed, `s` being the registers after switchmode().
SavedLate(s) == s.ps                       \* mutant
SavedPs(s) == regs.ps

-----------------------------------------------------------------------------
(***************************************************************************)
(* The entry sequence of trapat(), handleinterrupt() and EMTX(): switch to *)
(* the kernel, push PS and PC, go on with `next`.  A push that faults has  *)
(* moved R6 already.                                                       *)
(***************************************************************************)
Enter(next) ==
    LET s  == Switched(regs, FALSE)
        a1 == Below(s.r6)
        a2 == Below(a1)
    IN IF {a1, a2} \subseteq Stack
       THEN /\ mem' = [mem EXCEPT ![a1] = SavedPs(s), ![a2] = regs.pc]
            /\ regs' = Loaded([s EXCEPT !.r6 = a2], next)
            /\ trapping' = NoVec
            /\ contexts' = IF overflow THEN contexts
                           ELSE Append(contexts,
                                       [at |-> a2, pc |-> regs.pc, ps |-> regs.ps,
                                        user |-> regs.curuser, prev |-> regs.prevuser])
            /\ UNCHANGED overflow
       ELSE /\ mem' = IF a1 \in Stack THEN [mem EXCEPT ![a1] = SavedPs(s)] ELSE mem
            /\ regs' = [s EXCEPT !.r6 = IF a1 \in Stack THEN a2 ELSE a1]
            /\ trapping' = Fault
            /\ overflow' = TRUE
            /\ contexts' = << >>

\* The guest executes an instruction.  A kernel that has overrun its stack has
\* lost frames: once the entry that did it is over, the model stops.
Executing == trapping = NoVec /\ ~overflow

Stopped == trapping = NoVec /\ overflow /\ UNCHANGED vars

\* The instruction is EMT, TRAP, BPT or IOT.
Emt ==
    /\ Executing
    /\ \E v \in Traps : Enter(v)
    /\ UNCHANGED servicing

\* The instruction leaves by longjmp ...
Trap ==
    /\ Executing
    /\ trapping' \in Traps \cup {Fault}
    /\ UNCHANGED <<regs, mem, servicing, contexts, overflow>>

\* ... and loop(), or handleinterrupt() when its own push has failed, calls
\* trapat(); handleinterrupt() then loads the vector of the line it serves,
\* over what the trap has loaded.
TrapAt ==
    /\ trapping # NoVec
    /\ Enter(IF servicing = NoVec THEN trapping ELSE servicing)
    /\ servicing' = IF trapping' = NoVec THEN NoVec ELSE servicing

\* loop0() finds a request that is not masked.
HandleInterrupt ==
    /\ Executing
    /\ \E l \in Lines :
           /\ l.level >= regs.ps.pri
           /\ Enter(l)
           /\ servicing' = IF trapping' = NoVec THEN NoVec ELSE l

-----------------------------------------------------------------------------
\* The frame the kernel's stack pointer points at is that of the last context.
AtFrame == contexts # << >> /\ regs.r6 = Last(contexts).at

\* RTI and RTT in kernel mode: both words are popped, then PS is stored.
KernelReturn ==
    /\ Executing /\ ~regs.curuser
    /\ contexts # << >> => AtFrame
    /\ {regs.r6, Above(regs.r6, 1)} \subseteq Stack
    /\ mem[regs.r6] \in Pcs /\ mem[Above(regs.r6, 1)] \in PsWords
    /\ regs' = PsStored([regs EXCEPT !.pc = mem[regs.r6], !.r6 = Above(@, 2)],
                        mem[Above(regs.r6, 1)])
    /\ contexts' = IF AtFrame THEN Front(contexts) ELSE contexts
    /\ UNCHANGED <<mem, trapping, servicing, overflow>>

\* In user mode the word popped gives the bits of 047, PS those of 0177730: of
\* what is kept here, bit 5, the lowest of the priority.
UnmaskedWord(v) == v          \* mutant
UserWord(v) == [regs.ps EXCEPT !.pri = 2 * (@ \div 2) + (v.pri % 2)]

UserReturn ==
    /\ Executing /\ regs.curuser
    /\ \E pc \in Pcs, v \in Stored, sp \in UserStacks :
           regs' = PsStored([regs EXCEPT !.pc = pc, !.r6 = sp], UserWord(v))
    /\ UNCHANGED <<mem, trapping, servicing, contexts, overflow>>

\* Any other user instruction.
UserStep ==
    /\ Executing /\ regs.curuser
    /\ \E pc \in Pcs, sp \in UserStacks : regs' = [regs EXCEPT !.pc = pc, !.r6 = sp]
    /\ UNCHANGED <<mem, trapping, servicing, contexts, overflow>>

\* The kernel pushes (JSR, MOV to -(SP), MFPI).
KernelPush ==
    /\ Executing /\ ~regs.curuser
    /\ LET a == Below(regs.r6) IN
       /\ regs' = [regs EXCEPT !.r6 = a]
       /\ IF a \in Stack
          THEN mem' = [mem EXCEPT ![a] = Data] /\ UNCHANGED <<trapping, contexts, overflow>>
          ELSE trapping' = Fault /\ overflow' = TRUE /\ contexts' = << >> /\ UNCHANGED mem
    /\ UNCHANGED servicing

\* It pops what it has pushed.
Poppable ==
    /\ regs.r6 \in Stack
    /\ ~AtFrame
    /\ mem[regs.r6] = Data

KernelPop ==
    /\ Executing /\ ~regs.curuser
    /\ Poppable
    /\ \E pc \in Pcs : regs' = [regs EXCEPT !.r6 = Above(@, 1), !.pc = pc]
    /\ UNCHANGED <<mem, trapping, servicing, contexts, overflow>>

\* MTPI SP with the user as the previous mode.
Mtpi ==
    /\ Executing /\ ~regs.curuser /\ regs.prevuser
    /\ Poppable
    /\ \E sp \in UserStacks : regs' = [regs EXCEPT !.r6 = Above(@, 1), !.usp = sp]
    /\ UNCHANGED <<mem, trapping, servicing, contexts, overflow>>

\* The kernel stores into PS: a new priority, previous mode or mode.
StorePs ==
    /\ Executing /\ ~regs.curuser
    /\ \E v \in Stored : regs' = PsStored(regs, v)
    /\ UNCHANGED <<mem, trapping, servicing, contexts, overflow>>

Next ==
    \/ Emt \/ Trap \/ TrapAt \/ HandleInterrupt
    \/ KernelReturn \/ UserReturn \/ UserStep
    \/ KernelPush \/ KernelPop \/ Mtpi \/ StorePs
    \/ Stopped

Spec == Init /\ [][Next]_vars

-----------------------------------------------------------------------------
(***************************************************************************)
(* Properties.                                                             *)
(***************************************************************************)

\* The mode is kept twice, in curuser and prevuser, which the memory map and
\* MFPI use, and in PS, which the guest sees and frames save; they agree, but
\* for a mode that does not exist.
ModesAgree ==
    /\ regs.ps.cm \in {0, 3} => regs.ps.cm = Bits(regs.curuser)
    /\ regs.ps.pm \in {0, 3} => regs.ps.pm = Bits(regs.prevuser)

\* Every program interrupted has its PC and PS in the kernel stack, above the
\* stack pointer the kernel runs on, whatever came on top of it.
KernelSp == IF regs.curuser THEN regs.ksp ELSE regs.r6

FramesIntact ==
    \A i \in 1 .. Len(contexts) :
        LET c == contexts[i] IN
        /\ KernelSp # 0 /\ KernelSp <= c.at /\ c.at + 1 \in Stack
        /\ mem[c.at] = c.pc /\ mem[c.at + 1] = c.ps
        /\ \A j \in 1 .. i - 1 : c.at + 1 < contexts[j].at

\* What the frames say of the modes is what they were.  With the invariants
\* above, the inductive invariant of the proofs.
ContextsAgree ==
    \A i \in 1 .. Len(contexts) :
        LET c == contexts[i] IN
        /\ c.ps.cm \in {0, 3} => c.ps.cm = Bits(c.user)
        /\ c.ps.pm \in {0, 3} => c.ps.pm = Bits(c.prev)

IInv == TypeOK /\ ModesAgree /\ FramesIntact /\ ContextsAgree

\* A return from a handler resumes the program interrupted where it was, at
\* its priority and in its mode.
ResumesInterrupted ==
    [][ contexts # << >> /\ ~overflow' /\ Len(contexts') < Len(contexts) =>
          LET c == Last(contexts) IN
          /\ regs'.pc = c.pc /\ regs'.ps = c.ps
          /\ c.ps.cm \in {0, 3} => regs'.curuser = c.user
          /\ c.ps.pm \in {0, 3} => regs'.prevuser = c.prev ]_vars

\* A user program leaves its mode by a trap or an interrupt only, and moves
\* neither mode field nor, but for its lowest bit, its priority.
UserConfined ==
    [][ regs.curuser =>
          \/ ~regs'.curuser /\ (overflow' \/ Len(contexts') > Len(contexts))
          \/ /\ regs'.curuser
             /\ regs'.ps.cm = regs.ps.cm /\ regs'.ps.pm = regs.ps.pm
             /\ regs'.ps.pri \div 2 = regs.ps.pri \div 2 ]_vars

\* R6, KSP and USP are the two stack pointers of StackPointers.
Banks == INSTANCE StackPointers
             WITH kernel <- KernelSp,
                  user <- IF regs.curuser THEN regs.r6 ELSE regs.usp,
                  mode <- IF regs.curuser THEN "user" ELSE "kernel"

StackPointersBanked == Banks!SpSpec
=============================================================================
