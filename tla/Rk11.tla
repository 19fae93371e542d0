--------------------------------- MODULE Rk11 ---------------------------------
(***************************************************************************)
(* The RK11 disk controller: lib/rk05/rk05.cpp step(), rkerror(),          *)
(* write16() and reset(), with the attach and detach of the console's rk   *)
(* command.                                                                *)
(*                                                                         *)
(* A transfer runs inside the instruction that stores GO, so nothing but   *)
(* the clock interrupts it; a bus error leaves it by longjmp.  Addresses   *)
(* count words; an address outside of the core, an odd one included, is a  *)
(* bus error.  Images are complete: a seek inside the disk succeeds.  The  *)
(* patch of the superblock's time (patch_super) is off.                    *)
(***************************************************************************)
EXTENDS Integers, FiniteSets

CONSTANTS
    Drives, SectorWords, Sectors, Cylinders,    \* 8 drives, 256, 12 and 203
    MemWords,                   \* words of core, 0760000 / 2
    LowWords,                   \* words RKBA addresses without RKCS, 2^15
    WcMod,                      \* 2^16
    Image(_),                   \* the words of a drive's image at first
    AddressesGiven, CountsGiven, DisksGiven,    \* stored in RKBA, RKWC, RKDA
    FunctionsGiven,             \* and in RKCS
    MaxCommands                 \* bound: commands given

ASSUME RkAssumption ==
    /\ {SectorWords, Sectors, Cylinders, LowWords, WcMod} \subseteq Nat \ {0}
    /\ MemWords \in Nat
    /\ Sectors <= 16 /\ Cylinders <= 255       \* the fields of RKDA hold them
    /\ 0 \in Drives
    /\ CountsGiven \subseteq 0 .. WcMod - 1
    /\ AddressesGiven \subseteq 0 .. LowWords - 1
    /\ FunctionsGiven \subseteq 0 .. 7

Write == 1
Read == 2
DriveReset == 6
WriteLock == 7
Surfaces == 2

DiskAddresses == [drive : Drives, cylinder : 0 .. 255, surface : 0 .. 1, sector : 0 .. 15]

ASSUME GivenAssumption == DisksGiven \subseteq DiskAddresses

VARIABLES
    rkba, rkwc,
    rkda,           \* drive, cylinder, surface and sector
    rkcs,           \* function, interrupt enable, ready and error of RKCS
    rkds,           \* drive ready, bit 6 of RKDS
    rker,           \* the errors of RKER
    attached, locked,       \* rkdata[].attached and .write_lock: sets of drives
    mem, disk,      \* the core, the images
    at, word,       \* where step() is, and its loop counter
    trapped,        \* the last command has been left by longjmp
    posted,         \* cpu::interrupt(INTRK, 5) has been called
    request,        \* history: the transfer under way
    commands        \* bound: commands given

registers == <<rkba, rkwc, rkda, rkcs, rkds, rker>>
drives == <<attached, locked>>
contents == <<mem, disk>>
vars == <<registers, drives, contents, at, word, trapped, posted, request, commands>>

TypeOK ==
    /\ rkba \in Nat /\ rkwc \in 0 .. WcMod - 1
    /\ rkda \in DiskAddresses
    /\ rkcs \in [func : 0 .. 7, ie : BOOLEAN, ready : BOOLEAN, err : BOOLEAN]
    /\ rkds \in BOOLEAN
    /\ rker \subseteq {"RKNXD", "RKNXC", "RKNXS"}
    /\ attached \subseteq Drives /\ locked \subseteq Drives
    /\ DOMAIN mem = 0 .. MemWords - 1 /\ DOMAIN disk = Drives
    /\ at \in {"idle", "again", "word", "sector"}
    /\ word \in 0 .. SectorWords
    /\ {trapped, posted} \subseteq BOOLEAN

NoRequest == [write |-> FALSE, drive |-> 0, from |-> 0, base |-> 0, count |-> 0]

-----------------------------------------------------------------------------
\* Where a sector begins: pos of step(), in words.
PositionOneSurface(da) == (da.cylinder * Sectors + da.sector) * SectorWords   \* mutant
Position(da) ==
    ((da.cylinder * Surfaces + da.surface) * Sectors + da.sector) * SectorWords

\* Mutant: the surface is not reset when the cylinder is left.
NextSectorKeepsSurface(da) ==
    IF da.sector + 1 < Sectors THEN [da EXCEPT !.sector = @ + 1]
    ELSE IF da.surface = 0 THEN [da EXCEPT !.sector = 0, !.surface = 1]
    ELSE [da EXCEPT !.sector = 0, !.cylinder = @ + 1]

NextSector(da) ==
    IF da.sector + 1 < Sectors THEN [da EXCEPT !.sector = @ + 1]
    ELSE IF da.surface = 0 THEN [da EXCEPT !.sector = 0, !.surface = 1]
    ELSE [da EXCEPT !.sector = 0, !.surface = 0, !.cylinder = @ + 1]

\* The error step() finds before it moves the heads.
ErrorOf(da) ==
    IF da.drive \notin attached THEN {"RKNXD"}
    ELSE IF da.cylinder >= Cylinders THEN {"RKNXC"}
    ELSE IF da.sector >= Sectors THEN {"RKNXS"}
    ELSE {}

\* rknotready() and rkready() set both copies of the bit.
SetReady(b) == rkcs' = [rkcs EXCEPT !.ready = b] /\ rkds' = b

\* rk11::reset().
ResetRegisters ==
    /\ rkcs' = [func |-> 0, ie |-> FALSE, ready |-> TRUE, err |-> FALSE]
    /\ rkds' = TRUE /\ rker' = {} /\ rkwc' = 0 /\ rkba' = 0
    /\ UNCHANGED rkda

Init ==
    /\ rkba = 0 /\ rkwc = 0 /\ rker = {} /\ rkds = TRUE
    /\ rkda = [drive |-> 0, cylinder |-> 0, surface |-> 0, sector |-> 0]
    /\ rkcs = [func |-> 0, ie |-> FALSE, ready |-> TRUE, err |-> FALSE]
    /\ attached \in SUBSET Drives /\ locked = {}
    /\ mem = [a \in 0 .. MemWords - 1 |-> a]
    /\ disk = [d \in Drives |-> Image(d)]
    /\ at = "idle" /\ word = 0 /\ trapped = FALSE /\ posted = FALSE
    /\ request = NoRequest
    /\ commands = 0

-----------------------------------------------------------------------------
(***************************************************************************)
(* Stores of the program, and the console.                                 *)
(***************************************************************************)
Idle == at = "idle"

\* RKBA holds the low bits, the others stay.
WriteRkba ==
    /\ Idle
    /\ \E a \in AddressesGiven : rkba' = (rkba \div LowWords) * LowWords + a
    /\ UNCHANGED <<rkwc, rkda, rkcs, rkds, rker, drives, contents>>
    /\ UNCHANGED <<at, word, trapped, posted, request, commands>>

WriteRkwc ==
    /\ Idle
    /\ rkwc' \in CountsGiven
    /\ UNCHANGED <<rkba, rkda, rkcs, rkds, rker, drives, contents>>
    /\ UNCHANGED <<at, word, trapped, posted, request, commands>>

WriteRkda ==
    /\ Idle
    /\ rkda' \in DisksGiven
    /\ UNCHANGED <<rkba, rkwc, rkcs, rkds, rker, drives, contents>>
    /\ UNCHANGED <<at, word, trapped, posted, request, commands>>

\* RKCS takes the high bits of the address, the function and the interrupt
\* enable, and with GO starts the function.
GivenRkcs(func, ie, ext, go) ==
    /\ rkba' = (ext * LowWords) + (rkba % LowWords)
    /\ \/ /\ go /\ func \in {Write, Read}
          /\ rkcs' = [rkcs EXCEPT !.func = func, !.ie = ie, !.ready = FALSE]
          /\ rkds' = FALSE
          /\ at' = "again" /\ trapped' = FALSE
          /\ request' = [write |-> func = Write, drive |-> rkda.drive,
                         from |-> Position(rkda), base |-> rkba',
                         count |-> (WcMod - rkwc) % WcMod]
          /\ UNCHANGED <<locked, posted>>
       \/ /\ go /\ func = WriteLock
          /\ rkcs' = [rkcs EXCEPT !.func = func, !.ie = ie, !.ready = TRUE]
          /\ rkds' = TRUE
          /\ locked' = locked \cup {rkda.drive}
          /\ posted' = (posted \/ ie)
          /\ UNCHANGED <<at, trapped, request>>
       \/ /\ ~go \/ func \in 3 .. 5    \* unimplemented: nothing happens
          /\ rkcs' = [rkcs EXCEPT !.func = func, !.ie = ie]
          /\ UNCHANGED <<rkds, locked, at, trapped, posted, request>>
    /\ UNCHANGED <<rkwc, rkda, rker, attached, contents, word>>

WriteRkcs ==
    /\ Idle /\ commands < MaxCommands
    /\ commands' = commands + 1
    /\ \E func \in FunctionsGiven, ie \in BOOLEAN, ext \in 0 .. MemWords \div LowWords, go \in BOOLEAN :
          \/ ~(go /\ func \in {0, DriveReset}) /\ GivenRkcs(func, ie, ext, go)
          \/ /\ go /\ func \in {0, DriveReset}
             /\ ResetRegisters
             /\ UNCHANGED <<drives, contents, at, word, trapped, posted, request>>

\* The RESET instruction.
Reset ==
    /\ Idle
    /\ ResetRegisters
    /\ UNCHANGED <<drives, contents, at, word, trapped, posted, request, commands>>

\* The console's rk command.
Attach ==
    /\ Idle
    /\ \E d \in Drives : attached' = IF d \in attached THEN attached \ {d} ELSE attached \cup {d}
    /\ ResetRegisters
    /\ UNCHANGED <<locked, contents, at, word, trapped, posted, request, commands>>

\* The processor takes the interrupt.
Service ==
    /\ Idle /\ posted
    /\ posted' = FALSE
    /\ UNCHANGED <<registers, drives, contents, at, word, trapped, request, commands>>

-----------------------------------------------------------------------------
(***************************************************************************)
(* step(), from its label `again'.                                         *)
(***************************************************************************)

\* Mutant: the error is recorded, the loop goes on.
ErrorRetried ==
    /\ at = "again" /\ ErrorOf(rkda) # {}
    /\ rker' = rker \cup ErrorOf(rkda)
    /\ rkcs' = [rkcs EXCEPT !.ready = TRUE, !.err = TRUE] /\ rkds' = TRUE
    /\ trapped' = TRUE
    /\ UNCHANGED <<rkba, rkwc, rkda, drives, contents, at, word, posted, request, commands>>

\* rkerror(): its test of RKCS is of a bit that is never set, so no interrupt.
Error ==
    /\ at = "again" /\ ErrorOf(rkda) # {}
    /\ rker' = rker \cup ErrorOf(rkda)
    /\ rkcs' = [rkcs EXCEPT !.ready = TRUE, !.err = TRUE] /\ rkds' = TRUE
    /\ at' = "idle" /\ trapped' = TRUE /\ request' = NoRequest
    /\ UNCHANGED <<rkba, rkwc, rkda, drives, contents, word, posted, commands>>

Seek ==
    /\ at = "again" /\ ErrorOf(rkda) = {}
    /\ at' = "word"
    /\ UNCHANGED <<registers, drives, contents, word, trapped, posted, request, commands>>

MoreWords == word < SectorWords /\ rkwc # 0

CountedUnmasked == rkwc + 1        \* mutant
Counted == (rkwc + 1) % WcMod

\* One word through unibus::read16() or write16().
Transfer ==
    /\ at = "word" /\ MoreWords /\ rkba < MemWords
    /\ LET b == Position(rkda) + word IN
       IF rkcs.func = Write
       THEN disk' = [disk EXCEPT ![rkda.drive][b] = mem[rkba]] /\ UNCHANGED mem
       ELSE mem' = [mem EXCEPT ![rkba] = disk[rkda.drive][b]] /\ UNCHANGED disk
    /\ rkba' = rkba + 1
    /\ rkwc' = Counted
    /\ word' = word + 1
    /\ UNCHANGED <<rkda, rkcs, rkds, rker, drives, at, trapped, posted, request, commands>>

\* The unibus leaves by longjmp: the controller stays not ready.
BusError ==
    /\ at = "word" /\ MoreWords /\ rkba >= MemWords
    /\ at' = "idle" /\ word' = 0 /\ trapped' = TRUE /\ request' = NoRequest
    /\ UNCHANGED <<registers, drives, contents, posted, commands>>

\* The heads go to the next sector; past the last one, the controller is ready
\* before it is done.
SectorDone ==
    /\ at = "word" /\ ~MoreWords
    /\ rkda' = NextSector(rkda)
    /\ at' = "sector" /\ word' = 0
    /\ IF NextSector(rkda).cylinder >= Cylinders
       THEN SetReady(TRUE)
       ELSE UNCHANGED <<rkcs, rkds>>
    /\ UNCHANGED <<rkba, rkwc, rker, drives, contents, trapped, posted, request, commands>>

DoneSilent == SetReady(TRUE) /\ UNCHANGED posted       \* mutant
Done == SetReady(TRUE) /\ posted' = (posted \/ rkcs.ie)

NextOrDone ==
    /\ at = "sector"
    /\ IF rkwc = 0 THEN Done /\ at' = "idle" /\ request' = NoRequest
       ELSE at' = "again" /\ UNCHANGED <<rkcs, rkds, posted, request>>
    /\ UNCHANGED <<rkba, rkwc, rkda, rker, drives, contents, word, trapped, commands>>

Step == Error \/ Seek \/ Transfer \/ BusError \/ SectorDone \/ NextOrDone

Next ==
    \/ WriteRkba \/ WriteRkwc \/ WriteRkda \/ WriteRkcs
    \/ Reset \/ Attach \/ Service \/ Step

\* step() runs to its end.
Spec == Init /\ [][Next]_vars /\ WF_vars(Step)

-----------------------------------------------------------------------------
(***************************************************************************)
(* Properties.                                                             *)
(***************************************************************************)

\* What has been transferred, RKWC and RKBA tell at every moment of a transfer.
Transferred == request.count - ((WcMod - rkwc) % WcMod)

CountersAgree ==
    /\ ~Idle => rkba = request.base + Transferred
    /\ at = "again" => Position(rkda) = request.from + Transferred

\* A transfer ends: all of it done and, if asked for, with an interrupt; or
\* with an error the program finds in RKER, or on a bus error.
EndsAnswered ==
    [][ ~Idle /\ Idle' =>
          \/ ~trapped' /\ rkwc' = 0 /\ rkcs'.ready /\ (rkcs'.ie => posted')
          \/ trapped' /\ ((rker' # {} /\ rkcs'.err) \/ rkba' >= MemWords) ]_vars

\* Every transfer ends.
TransfersEnd == ~Idle ~> Idle

\* The controller is a block device.
Device == INSTANCE BlockDevice
              WITH Requests <- [write : BOOLEAN, drive : Drives, from : Nat, base : Nat,
                                count : 0 .. WcMod - 1],
                   done <- IF Idle THEN 0 ELSE Transferred,
                   status <- IF ~Idle THEN "running" ELSE IF trapped THEN "failed" ELSE "ok"

CopiesStraight == Device!BdSpec
=============================================================================
