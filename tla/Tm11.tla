--------------------------------- MODULE Tm11 ---------------------------------
(***************************************************************************)
(* The TM11 tape controller: lib/tm11/tm11.cpp write16(), go(), finish(),  *)
(* cmd_end() and reset(), with the attach and detach of the console's tm   *)
(* command.                                                                *)
(*                                                                         *)
(* A tape is a file of words without records or marks.  Addresses and      *)
(* positions count words, MTBRC counts bytes; an address outside of the    *)
(* core is a bus error.  The controller keeps the position of every tape,  *)
(* the file has one of its own, and a seek beyond its end fails unnoticed. *)
(***************************************************************************)
EXTENDS Integers

CONSTANTS
    Drives,
    MemWords,               \* words of core
    LowWords,               \* words MTCMA addresses without MTC, 2^15
    BcMod,                  \* 2^16
    TapeLen,                \* TAPE_LEN in words
    Blank,                  \* what file.read() gives at the end of the file
    Tape(_), SizeOf(_),     \* the file on a drive at first, its length
    AddressesGiven, CountsGiven, FunctionsGiven,    \* stored in MTCMA, MTBRC, MTC
    MaxCommands             \* bound: commands given

ASSUME TmAssumption ==
    /\ {MemWords, LowWords, TapeLen} \subseteq Nat \ {0}
    /\ BcMod \in Nat \ {0} /\ BcMod % 2 = 0
    /\ MemWords < 4 * LowWords      \* the two bits in MTC reach all of core
    /\ 0 \in Drives /\ \A d \in Drives : SizeOf(d) \in 0 .. TapeLen + MemWords
    /\ CountsGiven \subseteq 0 .. BcMod - 1
    /\ AddressesGiven \subseteq 0 .. LowWords - 1
    /\ FunctionsGiven \subseteq 0 .. 7

Read == 1
Write == 2
Rewind == 7

VARIABLES
    mtc,                    \* drive, ext, func, ie, ready and ce of MTC
    eot, bot,               \* of MTS
    mtbrc, mtcma,
    attached,
    pos,                    \* tmdata[].pos
    filePos, size, tape,    \* the position, length and words of the files
    mem,
    at,                     \* "idle", or in the loop of a "read" or a "write"
    addr,                   \* the local variable of go()
    posted,                 \* calls of cpu::interrupt(INTTM, 5) not served yet
    failed,                 \* the last transfer ended early
    request,                \* history: the transfer under way
    commands                \* bound: commands given

registers == <<mtc, eot, bot, mtbrc, mtcma>>
files == <<filePos, size, tape>>
vars == <<registers, attached, pos, files, mem, at, addr, posted, failed, request, commands>>

\* A write that begins before TapeLen may end behind it.
TapeWords == TapeLen + MemWords

TypeOK ==
    /\ mtc \in [drive : Drives, ext : 0 .. 3, func : 0 .. 7,
                ie : BOOLEAN, ready : BOOLEAN, ce : BOOLEAN]
    /\ {eot, bot, failed} \subseteq BOOLEAN
    /\ mtbrc \in 0 .. BcMod - 1 /\ mtcma \in 0 .. LowWords - 1
    /\ attached \subseteq Drives
    /\ pos \in [Drives -> 0 .. TapeWords + 1]
    /\ filePos \in [Drives -> 0 .. TapeWords] /\ size \in [Drives -> 0 .. TapeWords]
    /\ \A d \in Drives : filePos[d] <= size[d]
    /\ at \in {"idle", "read", "write"}
    /\ addr \in 0 .. MemWords + 4 * LowWords /\ posted \in Nat

NoRequest == [write |-> FALSE, drive |-> 0, from |-> 0, base |-> 0, count |-> 0]

Init ==
    /\ mtc = [drive |-> 0, ext |-> 0, func |-> 0, ie |-> FALSE, ready |-> TRUE, ce |-> FALSE]
    /\ eot = FALSE /\ bot = FALSE /\ mtbrc = 0 /\ mtcma = 0
    /\ attached \in SUBSET Drives
    /\ pos = [d \in Drives |-> 0] /\ filePos = [d \in Drives |-> 0]
    /\ size = [d \in Drives |-> SizeOf(d)] /\ tape = [d \in Drives |-> Tape(d)]
    /\ mem = [a \in 0 .. MemWords - 1 |-> a]
    /\ at = "idle" /\ addr = 0 /\ posted = 0 /\ failed = FALSE
    /\ request = NoRequest /\ commands = 0

Idle == at = "idle"
Drive == mtc.drive

-----------------------------------------------------------------------------
\* finish(): `m` is MTC as the command leaves it, `n` the interrupts it has
\* posted; the interrupt enable is consumed.
FinishSilent(m, n, end) ==      \* mutant
    /\ mtc' = [m EXCEPT !.ready = TRUE, !.ce = @ \/ end, !.ie = FALSE]
    /\ posted' = posted + n
    /\ at' = "idle" /\ addr' = 0 /\ request' = NoRequest
Finish(m, n, end) ==
    /\ mtc' = [m EXCEPT !.ready = TRUE, !.ce = @ \/ end, !.ie = FALSE]
    /\ posted' = posted + n + (IF m.ie THEN 1 ELSE 0)
    /\ at' = "idle" /\ addr' = 0 /\ request' = NoRequest

\* seekSet(): beyond the end of the file nothing moves.
SoughtAnyway(d) == pos[d]       \* mutants
NotSought(d) == filePos[d]
Sought(d) == IF pos[d] <= size[d] THEN pos[d] ELSE filePos[d]

\* The words asked for; an odd count of bytes is never counted down to zero, so
\* that all of core would not be enough.
Words == IF mtbrc % 2 = 0 THEN ((BcMod - mtbrc) % BcMod) \div 2 ELSE MemWords + 1

\* A read or a write begins.
Begin(m, phase) ==
    /\ mtc' = m
    /\ filePos' = [filePos EXCEPT ![m.drive] = Sought(m.drive)]
    /\ at' = phase
    /\ addr' = m.ext * LowWords + mtcma
    /\ request' = [write |-> phase = "write", drive |-> m.drive,
                   from |-> Sought(m.drive), base |-> addr', count |-> Words]
    /\ UNCHANGED <<eot, bot, pos, posted, failed>>

\* It does not: the tape is at its end.
AtEnd(m) ==
    /\ eot' = TRUE
    /\ Finish(m, 0, TRUE)
    /\ UNCHANGED <<bot, pos, filePos, failed>>

\* go(): `m` is MTC with the error bit cleared.
Go(m) ==
    \/ m.func = Read /\ IF pos[m.drive] > size[m.drive] THEN AtEnd(m) ELSE Begin(m, "read")
    \/ m.func = Write /\ IF pos[m.drive] >= TapeLen THEN AtEnd(m) ELSE Begin(m, "write")
    \/ /\ m.func = Rewind       \* posts an interrupt of its own
       /\ eot' = FALSE /\ bot' = TRUE
       /\ pos' = [pos EXCEPT ![m.drive] = 0]
       /\ filePos' = [filePos EXCEPT ![m.drive] = 0]
       /\ Finish(m, IF m.ie THEN 1 ELSE 0, FALSE)
       /\ UNCHANGED failed
    \/ /\ m.func \notin {Read, Write, Rewind}   \* does nothing
       /\ Finish(m, 0, eot)
       /\ UNCHANGED <<eot, bot, pos, filePos, failed>>

\* A store into MTC.  The interrupt enable starts a command as GO does; on a
\* drive without a tape go() leaves by longjmp and the controller is not ready.
WriteMtc ==
    /\ Idle /\ commands < MaxCommands
    /\ commands' = commands + 1
    /\ \E d \in Drives, ext \in 0 .. MemWords \div LowWords, func \in FunctionsGiven,
          ie \in BOOLEAN, go \in BOOLEAN :
          LET m == [mtc EXCEPT !.drive = d, !.ext = ext, !.func = func, !.ie = ie] IN
          \/ /\ ~go /\ ~ie
             /\ mtc' = m
             /\ UNCHANGED <<eot, bot, pos, filePos, at, addr, posted, failed, request>>
          \/ /\ go \/ ie
             /\ d \notin attached
             /\ mtc' = [m EXCEPT !.ready = FALSE]
             /\ UNCHANGED <<eot, bot, pos, filePos, at, addr, posted, failed, request>>
          \/ /\ go \/ ie
             /\ d \in attached
             /\ Go([m EXCEPT !.ready = FALSE, !.ce = FALSE])
    /\ UNCHANGED <<mtbrc, mtcma, attached, size, tape, mem>>

WriteMtbrc ==
    /\ Idle
    /\ mtbrc' \in CountsGiven
    /\ UNCHANGED <<mtc, eot, bot, mtcma, attached, pos, files, mem>>
    /\ UNCHANGED <<at, addr, posted, failed, request, commands>>

WriteMtcma ==
    /\ Idle
    /\ mtcma' \in AddressesGiven
    /\ UNCHANGED <<mtc, eot, bot, mtbrc, attached, pos, files, mem>>
    /\ UNCHANGED <<at, addr, posted, failed, request, commands>>

\* A read of MTC recomputes the error bit from MTS.
ReadMtc ==
    /\ Idle
    /\ mtc' = [mtc EXCEPT !.ce = eot]
    /\ UNCHANGED <<eot, bot, mtbrc, mtcma, attached, pos, files, mem>>
    /\ UNCHANGED <<at, addr, posted, failed, request, commands>>

-----------------------------------------------------------------------------
\* reset() forgets the position of every tape, not that of the files.
ResetRegisters ==
    /\ mtc' = [drive |-> 0, ext |-> 0, func |-> 0, ie |-> FALSE, ready |-> TRUE, ce |-> FALSE]
    /\ eot' = FALSE /\ bot' = FALSE /\ mtbrc' = 0 /\ mtcma' = 0
    /\ pos' = [d \in Drives |-> 0]

\* The RESET instruction.
Reset ==
    /\ Idle
    /\ ResetRegisters
    /\ UNCHANGED <<attached, files, mem, at, addr, posted, failed, request, commands>>

\* The console's tm command; a file is opened at its beginning.
Attach ==
    /\ Idle
    /\ \E d \in Drives :
          /\ attached' = IF d \in attached THEN attached \ {d} ELSE attached \cup {d}
          /\ filePos' = [filePos EXCEPT ![d] = 0]
    /\ ResetRegisters
    /\ UNCHANGED <<size, tape, mem, at, addr, posted, failed, request, commands>>

\* The processor takes an interrupt.
Service ==
    /\ Idle /\ posted > 0
    /\ posted' = posted - 1
    /\ UNCHANGED <<registers, attached, pos, files, mem, at, addr, failed, request, commands>>

-----------------------------------------------------------------------------
(***************************************************************************)
(* The loops of go().                                                      *)
(***************************************************************************)
CountedOnce == mtbrc + 1        \* mutant
Counted == (mtbrc + 2) % BcMod

\* MTCMA follows the address, the bits of the address in MTC do not.
Moved ==
    /\ addr' = addr + 1
    /\ mtcma' = (addr + 1) % LowWords
    /\ pos' = [pos EXCEPT ![Drive] = @ + 1]
    /\ bot' = FALSE

NextFilePos == IF filePos[Drive] < size[Drive] THEN filePos[Drive] + 1 ELSE filePos[Drive]

\* A read has taken a word from behind the end of the file.
PastEnd == at = "read" /\ pos[Drive] > size[Drive]

MoreWords == ~Idle /\ mtbrc # 0 /\ ~PastEnd

ReadWord ==
    /\ at = "read" /\ MoreWords /\ addr < MemWords
    /\ mem' = [mem EXCEPT ![addr] = tape[Drive][filePos[Drive]]]
    /\ filePos' = [filePos EXCEPT ![Drive] = NextFilePos]
    /\ mtbrc' = Counted
    /\ Moved
    /\ UNCHANGED <<mtc, eot, attached, size, tape, at, posted, failed, request, commands>>

WriteWord ==
    /\ at = "write" /\ MoreWords /\ addr < MemWords
    /\ LET f == filePos[Drive] IN
       /\ tape' = [tape EXCEPT ![Drive][f] = mem[addr]]
       /\ filePos' = [filePos EXCEPT ![Drive] = f + 1]
       /\ size' = [size EXCEPT ![Drive] = IF @ = f THEN f + 1 ELSE @]
    /\ mtbrc' = Counted
    /\ Moved
    /\ UNCHANGED <<mtc, eot, attached, mem, at, posted, failed, request, commands>>

\* The unibus leaves by longjmp: the controller stays not ready, and a read has
\* counted the word.
BusError ==
    /\ MoreWords /\ addr >= MemWords
    /\ bot' = FALSE
    /\ IF at = "read"
       THEN mtbrc' = Counted /\ filePos' = [filePos EXCEPT ![Drive] = NextFilePos]
       ELSE UNCHANGED <<mtbrc, filePos>>
    /\ at' = "idle" /\ addr' = 0 /\ request' = NoRequest /\ failed' = TRUE
    /\ UNCHANGED <<mtc, eot, mtcma, attached, pos, size, tape, mem, posted, commands>>

TransferEnds ==
    /\ ~Idle /\ ~MoreWords
    /\ eot' = (eot \/ PastEnd)
    /\ Finish(mtc, 0, eot')
    /\ failed' = PastEnd
    /\ UNCHANGED <<bot, mtbrc, mtcma, attached, pos, files, mem, commands>>

Step == ReadWord \/ WriteWord \/ BusError \/ TransferEnds

Next ==
    \/ WriteMtc \/ WriteMtbrc \/ WriteMtcma \/ ReadMtc
    \/ Reset \/ Attach \/ Service \/ Step

Spec == Init /\ [][Next]_vars

-----------------------------------------------------------------------------
(***************************************************************************)
(* Properties.                                                             *)
(***************************************************************************)

\* A transfer reads and writes where the controller believes the tape to be,
\* unless a read has gone past the end of the file.
TransfersAtPosition ==
    ~Idle => filePos[Drive] = pos[Drive] \/ pos[Drive] > size[Drive]

\* A transfer ends with the controller ready, the error bit telling whether the
\* tape is at its end, and an interrupt if one is enabled; or on a bus error.
EndsAnswered ==
    [][ ~Idle /\ Idle' =>
          \/ /\ mtc'.ready /\ mtc'.ce = eot'
             /\ mtc.ie => posted' > posted
          \/ ~mtc'.ready /\ addr >= MemWords ]_vars

\* Of the tape and the core, a transfer is a straight copy of consecutive
\* words: all of them, or up to the end of the tape or a bus error.
Device == INSTANCE BlockDevice
              WITH Requests <- [write : BOOLEAN, drive : Drives, from : Nat, base : Nat,
                                count : Nat],
                   disk <- tape,
                   done <- IF Idle THEN 0 ELSE addr - request.base,
                   status <- IF ~Idle THEN "running" ELSE IF failed THEN "failed" ELSE "ok"

CopiesStraight == Device!BdSpec
=============================================================================
