# Teensy11 in TLA+

Teensy11 emulates a PDP-11/40 on a Teensy 4.1.  These modules model the table of
pending interrupts and the two threads that share it, processor modes and the
kernel stack, the memory map, the instructions, the console line, the disk and
tape controllers and the TFTP server.  TLC checks them on small instances;
TLAPS proves the most important properties for every size.

Paths below are relative to the repository (`lib/cpu/cpu.cpp`).  Each definition
that stands for code is listed with its lines in `PROJECT.json` under `map`.

## 1. The system

    main.cpp loop()/loop0()      the main thread: one instruction, interrupts, console line
      cpu                        instructions, traps, modes, the interrupt table
        mmu      decode()        virtual to physical, aborts by longjmp
        unibus   read/write16()  core, registers of the devices, PS; bus errors by longjmp
          rk05, tm11, dl11       devices: commands run inside the store that starts them
    main.cpp lks_tick()          the timer interrupt, 60 times a second
    console::loop()              the operator, on whichever thread called it
      TFTPService                served as long as the console is open

| Part | State | Operations | Interacts by | What is hard | What makes it correct |
|---|---|---|---|---|---|
| Interrupt table (`cpu.cpp`) | `itab[32]` | `interrupt()`, `popirq()`, `handleinterrupt()`, the test in `loop0()` | called by devices and by the timer | four critical sections with the timer free between them; insertion by an ascending copy | no hole, order by priority, nothing masked delivered, nothing pending blocked |
| Modes and stacks (`cpu.cpp`) | `R[6]`, `KSP`, `USP`, `curuser`, `prevuser`, `PS` | `switchmode()`, `trapat()`, `EMTX()`, `RTT()`, `MTPI()`, store into PS | longjmp to `trapbuf`, which has two owners | the mode kept twice; faults while a frame is pushed | frames intact, returns resume, users stay users |
| MMU | `pages[16]`, `SR0`, `SR1`, `SR2` | `decode()`, `write16()`, `reset()` | every access; aborts | registers stored through the map they hold; two spaces | users stay in their blocks, W bits miss nothing, SR0 tells the truth |
| Unibus | core, `SWR`, `SLR` | `read16()`, `write16()`, byte forms | dispatch to the devices | bus errors leave devices in the middle | part of the devices' properties |
| RK11 | seven registers, eight drives | register stores, `step()`, reset, attach | interrupts, bus errors | counters across sectors, surfaces, cylinders, ends of disk and core | straight copies that end and are answered |
| TM11 | registers, positions of eight tapes | register accesses, `go()`, `finish()`, reset, attach | interrupts, bus errors | positions that outlive commands; odd byte counts | as the RK11, at the position kept |
| DL11 | `RCSR`, `RBUF`, `XCSR`, `XBUF`, `count` | `poll()`, register accesses | interrupts; ctrl-P opens the console | overrun, pacing, one table for both requests | every request answered by one read, output once and in order |
| Console | `active`, the thread it runs on | deposit, attach, boot, continue, ... | stores on the bus, stops a thread | may stand in the timer interrupt | a program stopped goes on |
| TFTP server | connections, files | `TFTPService::handle()`, `TFTPConnection::handle()` | datagrams, SD card | loss, duplication, time outs, two connections for one request, a card that fails in between | what arrives is what was sent; connections end |
| Instructions, ALU (`cpu.cpp`) | `R[8]`, flags, `PC` | `aget()`, one function per instruction, `step()` | `mmu`, `unibus`: any access may abort | an abort between two changes of state; flags at the ends of the number range | programs made of instructions mean what they should, restarted or not |
| Disassembler, start-up, front panel, boot ROM, locks, guest tools | none, or output only | | | | not modelled (section 6) |

## 2. Modules

**Interrupts.**  `InterruptTable` has the operators on the table: the two scans
of `cpu::interrupt()` are given by what holds of the index when they stop, the
copy by what each slot receives (with an ascending index every slot behind the
insertion receives the *same* entry), `popirq()` by the shift.
`InterruptDelivery` has the state machine: `pc` is the place of the main thread
between two critical sections, `Tick` is `lks_tick()`, which may run at each of
them; `vec` is the local variable of `handleinterrupt()`; `console` says which
thread the operator has stopped and why.  `undefined` becomes true when, after
a "table full" panic, the operator continues and the code stores behind the end
of the array: from there the model stops, as C++ defines nothing.
`InterruptHistory` adds the number of requests outstanding.
Abstract: `InterruptPending` (a set of sources, from which another request may
drop entries) and `InterruptQueue` (a bounded queue).

**Processor modes.**  `ProcessorMode` has the registers and the kernel stack.
The entry sequence is one operator, `Enter`, used by traps, interrupts and EMT;
a push that faults leaves by longjmp with R6 moved already and is served by
`TrapAt`, within `handleinterrupt()` when that was the entry that failed.  The
kernel's code is any that returns with the stack as it found it; the user's is
any.  Abstract: `StackPointers`, two stack pointers with one owner each.

**Console line.**  `Dl11` extends `InterruptDelivery`: the table, the timer and
the console are those of that module, and `poll()` gets what it does to the four
registers and to `Serial`.  An operator types letters, ctrl-P and ctrl-T; the
guest's driver is external and is one for a KL11: a process appends to a queue
and stores the head into XBUF when the transmitter is ready, the transmitter's
handler does the same, the receiver's handler reads RBUF once and echoes.  Each
test and each store is a step, with the delivery of interrupts between them;
`code` is the stack of what has been interrupted.  The history variables
`written`, `accepted` and `received` relate the two ends of the line.

**Instructions.**  `Alu` has results and flags as operators on words of `W` bits,
with the oddities of the code kept (section 5).  `Instructions` has `step()`: an
instruction is a composition of accesses, each a function from machine to
machine that does nothing once the machine has been left, as after the longjmp
of `decode()`.  So what an abort leaves behind is what the accesses before it
have done, in the order of the code.  `Evict` takes a page away between any two
instructions; `Resolve` is the kernel, which brings it back, restores `R[]` and
returns to the PC in SR2.  `GuestRoutines` has routines of the kind compilers
emit, with what each should compute: arithmetic on double words, products,
quotients, shifts, comparisons followed by each branch, copies, calls with
saved registers, jump tables, words moved through the previous space.  The
routines and the kernel are external; every instruction they are built of is
the emulator's.  A text is a sequence of records; a word of it that is data is one
as well, with its value.  None of the routines reads an instruction as data.

**Memory map.**  `Mmu` has `decode()` and the stores into the registers.  The
kernel's stores pass through `decode()` themselves: they reach the registers
only if the map in force leads to them, mark the page they go through, and may
store the very PDR they were marked in.  When `decode()` refuses, the trap is
taken in kernel mode; the pushes of the entry are later accesses of the kernel.

**Disk and tape.**  `Rk11` and `Tm11` have the register stores and the loops of
`step()` and `go()`, a word at a time.  Commands run inside the instruction
that starts them; a bus error leaves the loop by longjmp.  Both are shown to
implement `BlockDevice`: a transfer is a copy between consecutive words, all of
it or a first part.

**TFTP.**  `Tftp` has the service, its connections, the card and the datagrams
in flight; the client is external, a client of RFC 1350.  A block is a piece of a
file, from a byte on, as long as `readBytes()` made it: a card that fails yields
less than it should, or nothing, and the connection sends that and reads on behind
it, as the code does (`Reads`, `ReadFor`).  `buf` of a connection is the buffer it
sends again.  The history variable `misread` has the ports, each with its client,
for which a read has failed.

The MC modules give constants their values.  Operators marked "mutant" are
variants of the definition below them and are used by no specification: with a
mutant in its place the property named in `PROJECT.json` fails.

## 3. Runs

| Run | Question | Result |
|---|---|---|
| `delivery_all` | all request lines, timer and console at any moment: order, masking, refinement to the pending set; is some entry always delivered? | holds |
| `console_line` | operator, `poll()`, driver and table together: is each character announced by one request and answered by one read, and output printed once, in order and to the end? Is the table a queue for lines of one priority? | holds |
| `processor_mode` | nested traps, interrupts and returns: frames, modes, banks | holds |
| `mmu_translation` | user and kernel accesses under a map that changes | holds |
| `rk_transfer`, `tm_transfer` | transfers across every boundary, with RESET and the operator in between | holds |
| `tftp_transfer` | a transfer under two faults: do blocks arrive once, in order and whole, unless a read has failed for them? Do connections end? | holds |
| `guest_routines` | do instructions, aborted and restarted anywhere, add up to the meaning of the routine? Do flags and branches decide as numbers compare? Can every abort be undone? | holds |
| `delivery_pop_race` | `popirq()` removes "the top interrupt", the one delivered | violated: a tick between the read of the head and `popirq()` (`cpu.cpp:1333`, `1323`) is removed in its place, and the device is delivered twice |
| `table_full` | "interrupt table full" means a full table | violated: copies made by the insertion (`cpu.cpp:1312`) fill it |
| `tftp_failing_read` | a client whose read fails is told "Could not read from file." (`TFTPConnection.cpp:6`) | violated: what a failed read yields is sent as the last block (`TFTPConnection.cpp:104`, `148`), and the client is done with a part of its file |
| `stack_registers` | 0170000 to 0170007 may stand for registers as "unibus doesn't map any addresses here" (`cpu.cpp:177`) | violated: the test is of the virtual address (`cpu.cpp:93`), at which a user's page may lie: what is pushed there by JSR or through R6 is read back from a register |

### Bounds, and why they are enough

* *Interrupts.*  `ITABN` is 4 for 32.  An insertion distinguishes the entries in
  front of, at and behind its place and the end of the table; five sources of
  three priorities meet all of these in four slots.  `Levels` has one level
  below every source, one between each two priorities and the top.
* *Console line.*  Three slots for the two sources, so that the table can be full
  of one of them; `Pace` is 2 for 64: a poll that waits and a poll that prints.
  Four keys (`MaxTyped`) let a character overrun one that has a request pending,
  be followed by ctrl-P, and be read late; two characters written meet their echo.
  The console opened by a full table is in, the operator's deposits and the
  processor's HALT, which are in `delivery_all`, are left out.
* *Instructions.*  Words of 8 bits and bytes of 4 for 16 and 8.  Operands are 0, 1,
  the two ends of the signed range and the end of the unsigned range, in every
  combination; shifts by twelve counts in either direction, past a word and to
  the ends of the six bits.  -32 is excluded, as C++ leaves `>> 32` undefined.
  Two evictions (`MaxEvictions`), so that an instruction may abort a second time
  after its restart.
* *Modes.*  Seven words with five of stack: two frames and one word, so that
  two levels nest, a push can fail on either word of a frame, and R6 can wrap.
  One trap, one line and the fault vector.
* *MMU.*  Two pages of two blocks in each space, four blocks of core, the block
  of the registers and one that answers nothing.  Four stores (`MaxStores`):
  PAR, PDR, SR0 and a change after.  The PDRs given are absent, read only, and
  cut off at either end.
* *RK11.*  Sectors of 2 words, 2 sectors on 2 surfaces of 2 cylinders, 4 words
  of core behind registers that wrap at 3 and 8; transfers of 3 words begin
  before each kind of boundary; two drives and two commands (`MaxCommands`),
  as a second command is the first that can see what an earlier one has left.
* *TM11.*  A tape of 4 words of which 2 are recorded, 3 words of core, an even
  and an odd count, three commands: write, rewind, read.
* *TFTP.*  Files of up to two full blocks with either kind of last block, two
  connections, two faults (`MaxFaults`), three retries for the code's five: a
  connection at its first, middle and last attempt.  Block numbers do not wrap.
  `BlockSize` is 3 for 512, so that a read may fail with nothing, one or two bytes,
  and what is left behind the failure is not a whole block.  `LastNumber`, the last
  number of a block, is in the way of a connection only when three of its reads
  have failed: never in these runs.  One client; the proofs have any number.

### Fairness

* `delivery_*`: weak fairness of the main thread, which only runs.  None of the
  timer or the operator.  The liveness properties assume that the guest
  keeps coming back to priority 0 at an instruction that does not trap, with
  the console closed (`GuestOpen`): a guest that masks for ever is entitled to.
* `console_line`: weak fairness of the main thread, and `GuestOpen`.  Nothing is
  owed by the operator, who may stay in the console or stop typing.
* `rk_transfer`: weak fairness of the steps within a transfer, which are
  iterations of a loop that nothing suspends but a timer interrupt that returns.
* `tftp_transfer`: `console::loop()` calls the service over and over and each
  call gives every connection a turn; a datagram that is not lost arrives, and
  the client acts.

### What is assumed

Disk images are complete, so seeks in them succeed, and the operator's patch of
the superblock's time (`patch_super`, off at start) stays off.  The two bytes of a
word are read from the image low byte first, an order C++ leaves to the compiler
(`rk05.cpp:172`) and without which no guest would boot.  Odd addresses count as bus
errors.  The driver of the console line runs above priority 4, the line's own
(see section 5), and enables the transmitter's interrupt before the receiver's.
The kernel backs R0 to R6 up after an abort; how it finds out by how much is its
own affair, `AbortUndoable` is that there is no more to it than addressing modes.  MFPI and
MTPI of `Instructions` are executed by a user whose previous space is its own;
`ProcessorMode` has the other.  A kernel returns to the user with both mode fields set to user.  The
compiler keeps the order of accesses to the table around the calls that disable
and enable interrupts.

## 4. Proofs

All statements below hold for every value of the constants that satisfies the
assumptions named in the modules (`ITABNAssumption`, `ModeAssumption`, ...).

**`InterruptProofs`.**  `IInv` joins the invariants of the run with
`ConsoleFromLoop` (where the main thread can stand when it has been stopped) and
`VectorHeld` (when `vec` is set), without which the head could change under a
delivery.  Compactness and order are properties of the table operators
(`InsertedCompact`, `InsertedOrdered`, and their like for `Popped`): the second
scan passes only smaller vectors, so "no lower priority or no higher vector" is
what survives the smearing copy, and compactness survives because the copies are
of an occupied slot.  `NeverBelowPriority` needs order no more than that a later
head has at least the priority of the earlier.  `Refinement` maps the table to
the set of its vectors.  `TypeCorrect`, `CompactTable`, `OrderedTable`,
`DeliveryAbovePriority` and `HeadOvertaken` follow.
`QueueImplemented`: if all sources have one priority, slots `0 .. n-1` are a
queue; its invariant adds that the entry being delivered is still at the head when
`popirq()` runs.

*The console line*, in the same module.  Every step of it is one of `InterruptDelivery` or leaves
its variables alone (`LineDelivers`), so what is proved of the delivery holds of
the line, and its table is a queue (`LineQueued`).  `LineInv` (`LineAccounted`)
needs to know what the guest was doing at each place: at most one routine runs on
top of what it interrupted, and never on top of a part of itself (`CodeOK`,
`DriverOK`); nothing is enabled while it boots (`BootQuiet`); the requests of the
receiver in the table, and the one being delivered, are counted against the
characters announced and not yet read (`InputCounted`, `InputFresh`).  That the
driver's two halves share `XBUF` without a lock rests on `Closed` being above the
line's own priority: the assumption the finding of section 5 violates.  The number
of keys is bounded by 15, as the n-th key is the character n, and 16 is ctrl-P.

**`ProcessorModeProofs`.**  `IInv` is types, `ModesAgree`, `FramesIntact` and
`ContextsAgree` (the mode in a saved PS is the mode the program was in), which a
return needs to restore the right mode.  Each action has its lemma on what it
does to registers, stack and contexts.  `FramesStayIntact` holds for any depth
of nesting; `ReturnResumes`, `UserStaysConfined` and
`BanksImplementStackPointers` are action properties under the invariant.

**`MmuProofs`.**  The invariants are inductive as they stand: `DecodeAfter` says
what `decode()` leaves of the PDRs, `StoreKeeps` that each store on top of it
keeps them, whichever entry it meets.  `UserStaysWithin` compares `decode()`
with the reference `UserBlocks` (`PassedGiven`).

**`Rk11Proofs`.**  `CountersAgree` is not inductive, as it does not say where in
its loop `step()` is.  `IInv` says what it needs at each place: the heads and the
word count are as many words on as `Transferred` says (`HeadsAgree`), RKBA as well,
until it wraps (`AddressAgrees`), and the request is that of RKCS
(`RequestHeld`).  `NextSectorFollows` is the arithmetic of carries from sector to
surface to cylinder.  From these follow `CountersAlwaysAgree`, the answers of
`TransfersAnswered`, and, step by step, the copy of `BlockDevice`
(`DeviceImplemented`), for any geometry and any core.

**`Tm11Proofs`.**  The same for the tape, whose positions outlive the commands
(`PositionsBounded`).  `CountAgrees` relates MTBRC to the words copied; with an odd
count it steps past zero, and only the end of tape or core ends the transfer.  The
attempt to prove it found the number of words of such a transfer wrong in the
model, where TLC's tape had been too short to show it.

**`TftpProofs`.**  `IInv` has a part for each client, each connection and each
datagram: unless a read has failed at that port for that client (`Whole`), a
datagram of data and the buffer of a connection have the block their number says,
and a reader has the blocks up to its own; an acknowledgement tells of a block that
has arrived.  `BlockFacts` is the arithmetic: a block ends where the next begins,
and only the last is short.  `IInv` holds with any number of clients, connections,
losses, repetitions and failing reads, and implies `ReadsWhatIsStored`
(`ReadersGetWhatIsStored`).  The two
properties of writers do *not* hold in general: `handle()` never looks at the
sender (`TFTPConnection.cpp:29`), so that a client whose connection was taken over
by another client writes into that one's file.  With two clients TLC finds the
counterexample; `WritersAreStored` and `ConnectionsNeverAhead` therefore assume
`NoStrays`, that no datagram reaches a connection of another client, and
`LoneWriterIsStored` and `LoneClientNeverBehind` derive that from there being one
client, as there is in the run.

**`InstructionProofs`.**  Each access of `aget()`, `memread()`, `memwrite()`,
`push()` and `pop()` has a lemma on what it leaves of the machine (`AgetFacts`,
`MemWriteFacts`, ...), and each instruction one (`UnaryProper`, `JSRProper`, ...)
that composes them: it keeps types (`Machines`), and where it ends in a fault it
is `Undoable`.  What makes it so is `Present`: an operand that has been read does
not fault when it is written, so of the instructions that change flags before
they store only CLR, MOV and SXT can fault afterwards, and CLR and MOV read no
flag, SXT only N, which it keeps.  `MovedInTurn` adds up what the source, the
destination and the stack have moved of a register.  `AbortsUndone` and
`TypeCorrect` follow for every routine, every core and words of 8 and 16 bits.
MARK is exempt: it loads SP before it pops, and ends in a trap whatever happens.
That `And`, `Or` and `Xor` are numbers rests on `SumSetTyped`, an induction over
finite sets by a least counterexample; what they are, and that an arithmetic shift
divides rounding down (`ArithmeticRightDivides`), on the bits of a number adding up
to it (`BitsAdd`, `OnesLeft`).  `BranchesCompare`, `OverflowsTold`,
`CarriesChain` and `HalvesChain` state of all operands what the routines of
`guest_routines` try for five: the conditions of the branches against the flags of
CMP, V and C of sums and differences, and double words added, subtracted, negated,
doubled and halved by halves.

**`GuestProofs`.**  What whole routines mean, aborted and executed again at any
access: `ReturnsHold`, `ComparisonsHold` and `ArithmeticHolds` prove the three
properties of `guest_routines` for words of 8 and 16 bits, every number in core and
every flag left from before.  The argument is Floyd's.  Each routine has an
assertion in front of each of its instructions (`ChainAt`, `CallsAt`, `OnesAt`, ...);
the inductive invariant `GuestInv` is that the one at the PC holds of `Regs`, the
registers the kernel would restore, and that an abort has kept core, and of the
flags those the instruction reads again (`RoutinesOnCourse`).  The invariant needs
the flags, as ADC behind ADD, SXT behind MOV and the rotations must find the carry
or the sign they are handed although the instruction is executed twice: it says so
of an aborted instruction as well.  `InstructionProofs` has, for each instruction,
what it makes of known registers, flags and core if no access is refused
(`BinaryComes`, `JSRComes`, ...); `BinaryStep` and its like add the fetch and
`Settled`, and a lemma per routine (`ChainKept`, `DivKept`, ...) the assertions.
Loops need to know what has been done: `OnesAt` that the ones counted and those left
are all there are, `StringAt` that no byte so far was zero.  What remains is
arithmetic at the end:
that flags are what the numbers say (`OneTold`, `TwoTold`), that halves join
(`WordsJoin`), that DIV's quotient and remainder are those of the signed numbers
(`DivisionTold`), that shifting two's complement shifts the number (`ShiftMeans`).
The theorems assume `Hosted`: the routines are those of `Guests`, with any count
for the shifts; the text's page belongs to the text alone; and the words
the routines work in are in core.  The run satisfies it (`HostedAssumption` in
`MCInstructions`, which TLC evaluates).  The run `stack_registers` does not, on
purpose: its stack lies at 0170000, where `RegistersSaved` fails.

Liveness (`SomeDelivered`, `OutputDrains`, `TransfersEnd`, `ConnectionsEnd`,
`CompletesWithoutFaults`) is checked by TLC only: the prover does not handle
fairness.

## 5. Findings beside the runs

Noticed while reading for the models and kept in them; no property is about
them unless it says so.

*Interrupts and the console line.*  `loop0()` delivers a request of the
processor's own priority (`main.cpp:400`), so handlers of one level nest.  With
`Closed = 4` TLC finds `LineInv` violated: the test of the transmitter and the
store into XBUF are torn apart and an echo is lost.  Every character makes a
request of its own (`dl11.cpp:23`), so after an overrun there are more requests
than characters and a read finds NUL.  Setting interrupt enable when the device
is ready requests nothing (`dl11.cpp:86`); a KL11 does.

*Instructions.*  MARK is followed by a `break` where the others return and ends
in the trap of an invalid instruction (`cpu.cpp:1125`).  MUL R0,R0 traps as
invalid (`cpu.cpp:435`).  INC sets V whenever it sets N (`cpu.cpp:641`).  NEGB
and ADCB compare with constants for words (`cpu.cpp:686`, `706`), SBC takes N
from a word (`732`).  ROR and ROL never clear Z (`770`, `792`); ROL leaves 17
bits in a register (`784`).  ASR takes C from the result (`818`), SWAB inverts Z
(`885`), MUL's C is one off (`458`).  SOB counts 32 bits (`596`).  RTI in user mode
takes bit 5 of the new PS (`cpu.cpp:1000`).  The disassembler calls BNE "BEQ"
(`disasm.cpp:99`).  The routines of `guest_routines` avoid what is wrong here: none
uses MARK, none branches on V after INC.

*Memory map.*  The test for a write is of both access bits (`mmu.cpp:30`), so that
a page with access field 1, which may only be read, is written; what the message
"write to read-only page" (`mmu.cpp:37`) reports is a page that is not there.
`Mmu` keeps this (`AbortOf`), and `UserConfined` counts such a page as given.  With the
MMU off only the upper 4 KB reach the devices (`mmu.cpp:74`).

*Devices.*  A locked drive is written nevertheless: `step()` never looks at the
lock (`rk05.cpp:158`).  RKDS reads fall through to RKER (`rk05.cpp:28`).  An odd
tape byte count never reaches zero (`tm11.cpp:189`).  A rewind requests two
interrupts (`tm11.cpp:268`, `146`).  A TFTP write opens an old file without
`O_TRUNC`: its tail stays behind what was sent (`TFTPConnection.cpp:174`).  A
connection answers whoever sends to its port (`TFTPConnection.cpp:29`), so a
datagram that arrives after its connection has been given to another client is
taken for that one's.

## 6. Not modelled, and the plan

Order of the work: what can interrupt what came first (interrupts, modes), then
what a user may reach (MMU), the devices, the server, then the console line and
the instructions.  What is left:

1. `Rk11`: images that are too short, where a seek fails and the operator may
   continue, and `patch_super`.
2. Byte stores into the registers of devices, which the Unibus turns into a read
   and a store of the word.
3. A composition of `Rk11` and `Mmu` with the processor, where one abort or bus
   error passes through all of them.

Out of scope: the disassembler, dumps and the command parser (text), the front
panel and start-up (output and hardware), the boot ROM (data), `mutex.h` (used
by no source file), the scripts that make tapes and images, and the libraries,
of which file positions and datagrams are modelled as the code uses them.
