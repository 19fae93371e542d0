-------------------------------- MODULE Dl11 --------------------------------
(***************************************************************************)
(* The console line, lib/dl11/dl11.cpp, between an operator who types, the *)
(* interrupt table that carries its two requests, and a guest whose driver *)
(* reads and fills its registers.  The main loop is that of                *)
(* InterruptDelivery; dl11::poll() is modelled here with what it does to   *)
(* the registers.                                                          *)
(*                                                                         *)
(* The driver (external) is the usual one for a KL11: a process appends to *)
(* a queue and calls `start`, which stores the head into XBUF if the       *)
(* transmitter is ready; so does the transmitter's interrupt; the          *)
(* receiver's interrupt reads RBUF once and echoes what it read.           *)
(***************************************************************************)
EXTENDS InterruptDelivery, SequencesExt

CONSTANTS
    Pace,       \* polls between a store into XBUF and its printing, 64
    Closed,     \* the priority the driver runs at
    MaxTyped,   \* bound: keys the operator hits
    MaxWritten  \* bound: characters a process writes

\* loop0() delivers a request of the processor's own priority, so a driver
\* that does not want to be interrupted by the line runs above 4.
ASSUME DriverAssumption ==
    /\ Sources = {TtyIn, TtyOut}
    /\ Levels = {0, Closed} /\ Closed \in 5 .. 7
ASSUME LineAssumption == Pace \in Nat /\ MaxTyped \in 0 .. 15 /\ MaxWritten \in Nat

VARIABLES
    rcsr,       \* RCSR: [done, ie]
    rbuf,       \* RBUF
    xcsr,       \* XCSR: [ready, ie]
    xbuf,       \* XBUF
    count,      \* polls since the last store into XBUF
    typed,      \* the keys hit so far
    polled,     \* how many of them poll() has taken from Serial
    printed,    \* what poll() has written to Serial
    code,       \* the guest's code, what it has interrupted below
    queue,      \* the driver's output queue
    written,    \* history: what was given to the driver, but for a RESET's loss
    accepted,   \* history: the characters for which TtyIn was requested
    received    \* history: what the receiver's handler read

registers == <<rcsr, rbuf, xcsr, xbuf, count>>
driver == <<code, queue, written, received>>
lineVars == <<registers, driver, typed, polled, printed, accepted>>

CtrlP == 16
CtrlT == 20

\* The n-th key hit, when it is no control key, is n; NUL is what RBUF gives
\* when no character is there.
Nul == 0
Keys == 1 .. MaxTyped
Letter == 65

\* The driver sends odd characters with the parity bit.
WithParity(c) == IF c % 2 = 1 THEN c + 128 ELSE c
OutputBytes == {WithParity(c) : c \in {Nul, Letter} \cup Keys}

Activities == {"boot", "open", "user", "start", "store", "read"}

Level(activity) == IF activity \in {"start", "store", "read"} THEN Closed ELSE 0

LineTypeOK ==
    /\ TypeOK
    /\ rcsr \in [done : BOOLEAN, ie : BOOLEAN] /\ rbuf \in Keys \cup {Nul}
    /\ xcsr \in [ready : BOOLEAN, ie : BOOLEAN] /\ xbuf \in OutputBytes
    /\ count \in 0 .. Pace + 1
    /\ typed \in Seq(Keys \cup {CtrlP, CtrlT}) /\ polled \in 0 .. Len(typed)
    /\ code \in Seq(Activities) /\ code # << >>
    /\ priority = Level(Last(code))

\* dl11::reset(); count keeps what it has.
ResetRegisters ==
    /\ rcsr' = [done |-> FALSE, ie |-> FALSE]
    /\ rbuf' = Nul
    /\ xcsr' = [ready |-> TRUE, ie |-> FALSE]
    /\ xbuf' = 0
    /\ UNCHANGED count

LineInit ==
    /\ Init
    /\ rcsr = [done |-> FALSE, ie |-> FALSE] /\ rbuf = Nul
    /\ xcsr = [ready |-> TRUE, ie |-> FALSE] /\ xbuf = 0
    /\ count = 0
    /\ typed = << >> /\ polled = 0 /\ printed = << >>
    /\ code = <<"boot">> /\ queue = << >> /\ written = << >>
    /\ accepted = << >> /\ received = << >>

-----------------------------------------------------------------------------
(***************************************************************************)
(* Accesses to the registers (dl11::read16, dl11::write16).                *)
(***************************************************************************)

\* A read of RBUF gives the character and takes it, or gives NUL.
RbufRead == IF rcsr.done THEN rbuf ELSE Nul

ReadRbuf ==
    /\ rcsr' = [rcsr EXCEPT !.done = FALSE]
    /\ UNCHANGED <<rbuf, xcsr, xbuf, count>>

\* A store into RCSR or XCSR sets the interrupt enable bit alone, and requests
\* no interrupt for what is done or ready already.
WriteRcsr(ie) ==
    /\ rcsr' = [rcsr EXCEPT !.ie = ie]
    /\ UNCHANGED <<rbuf, xcsr, xbuf, count>>

WriteXcsr(ie) ==
    /\ xcsr' = [xcsr EXCEPT !.ie = ie]
    /\ UNCHANGED <<rcsr, rbuf, xbuf, count>>

\* Mutant: the transmitter stays ready.
WriteXbufStaysReady(b) ==
    /\ xbuf' = b % 256
    /\ count' = 0
    /\ UNCHANGED <<rcsr, rbuf, xcsr>>

WriteXbuf(b) ==
    /\ xbuf' = b % 256
    /\ xcsr' = [xcsr EXCEPT !.ready = FALSE]
    /\ count' = 0
    /\ UNCHANGED <<rcsr, rbuf>>

-----------------------------------------------------------------------------
(***************************************************************************)
(* The guest, one instruction of it at a time.  A routine that ends goes   *)
(* back to what it has interrupted, at that one's priority.                *)
(***************************************************************************)
Instruction(activity) ==
    /\ Running("step") /\ Last(code) = activity
    /\ pc' = "check"
    /\ UNCHANGED <<itab, clockIE, vec, console, active, undefined>>
    /\ UNCHANGED <<typed, polled, printed, accepted>>

Now(codes) == code' = codes /\ priority' = Level(Last(codes))

Becomes(activity) == Now(Append(Front(code), activity))

\* The bootstrap prints when it finds the transmitter ready, and resets the
\* bus, which drops what has not been sent.
BootPrints ==
    /\ Instruction("boot")
    /\ xcsr.ready /\ Len(written) < MaxWritten
    /\ WriteXbuf(WithParity(Letter))
    /\ written' = Append(written, Letter)
    /\ UNCHANGED <<code, priority, queue, received>>

BootResets ==
    /\ Instruction("boot")
    /\ ResetRegisters
    /\ written' = printed
    /\ UNCHANGED <<code, priority, queue, received>>

\* The driver opens the line, the transmitter first.
OpensTransmitter ==
    /\ Instruction("boot")
    /\ WriteXcsr(TRUE)
    /\ Becomes("open")
    /\ UNCHANGED <<queue, written, received>>

OpensReceiver ==
    /\ Instruction("open")
    /\ WriteRcsr(TRUE)
    /\ Becomes("user")
    /\ UNCHANGED <<queue, written, received>>

Writes ==
    /\ Instruction("user")
    /\ Len(written) < MaxWritten
    /\ queue' = Append(queue, Letter)
    /\ written' = Append(written, Letter)
    /\ Now(Append(code, "start"))
    /\ UNCHANGED <<registers, received>>

Starts ==
    /\ Instruction("start")
    /\ IF xcsr.ready /\ queue # << >> THEN Becomes("store") ELSE Now(Front(code))
    /\ UNCHANGED <<registers, queue, written, received>>

Stores ==
    /\ Instruction("store")
    /\ WriteXbuf(WithParity(Head(queue)))
    /\ queue' = Tail(queue)
    /\ Now(Front(code))
    /\ UNCHANGED <<written, received>>

Reads ==
    /\ Instruction("read")
    /\ ReadRbuf
    /\ received' = Append(received, RbufRead)
    /\ queue' = Append(queue, RbufRead)
    /\ written' = Append(written, RbufRead)
    /\ Becomes("start")

\* Any other instruction of a user program, one that traps included.
Computes ==
    /\ Running("step") /\ Last(code) = "user"
    /\ pc' \in {"check", "step"}
    /\ UNCHANGED <<itab, priority, clockIE, vec, console, active, undefined, lineVars>>

Guest == \/ BootPrints \/ BootResets \/ OpensTransmitter \/ OpensReceiver
         \/ Writes \/ Starts \/ Stores \/ Reads \/ Computes

-----------------------------------------------------------------------------
(***************************************************************************)
(* The main loop: its test, the entry of a handler, popirq() and poll().   *)
(***************************************************************************)
LineEnterHandler ==
    /\ Running("vector")
    /\ Now(Append(code, IF vec = TtyIn.vec THEN "read" ELSE "start"))
    /\ pc' = "pop"
    /\ UNCHANGED <<itab, clockIE, vec, console, active, undefined>>
    /\ UNCHANGED <<registers, queue, written, received, typed, polled, printed, accepted>>

\* cpu::interrupt(s) of an enabled line.
Requests(s, enabled) ==
    IF enabled THEN Interrupt(s, "full") ELSE UNCHANGED <<itab, console, active>>

\* addchar(): a character that has not been read is overwritten.
AddChar(c) ==
    /\ rcsr' = [rcsr EXCEPT !.done = TRUE]
    /\ rbuf' = c
    /\ Requests(TtyIn, rcsr.ie)
    /\ accepted' = IF rcsr.ie /\ console' = "off" THEN Append(accepted, c) ELSE accepted

LinePollReceiver ==
    /\ Running("poll")
    /\ pc' = "xmit"
    /\ IF polled = Len(typed)
       THEN UNCHANGED <<itab, console, active, rcsr, rbuf, polled, accepted>>
       ELSE /\ polled' = polled + 1
            /\ LET c == typed[polled + 1] IN
               \/ /\ c = CtrlP
                  /\ console' = "main" /\ active' = TRUE
                  /\ UNCHANGED <<itab, rcsr, rbuf, accepted>>
               \/ /\ c = CtrlT
                  /\ UNCHANGED <<itab, console, active, rcsr, rbuf, accepted>>
               \/ c \notin {CtrlP, CtrlT} /\ AddChar(c)
    /\ UNCHANGED <<priority, clockIE, vec, undefined>>
    /\ UNCHANGED <<xcsr, xbuf, count, driver, typed, printed>>

\* Mutant: the transmitter requests no interrupt.
SendSilent ==
    /\ printed' = Append(printed, xbuf % 128)
    /\ xcsr' = [xcsr EXCEPT !.ready = TRUE]
    /\ UNCHANGED <<itab, console, active>>

Send ==
    /\ printed' = Append(printed, xbuf % 128)
    /\ xcsr' = [xcsr EXCEPT !.ready = TRUE]
    /\ Requests(TtyOut, xcsr.ie)

LinePollTransmitter ==
    /\ Running("xmit")
    /\ pc' = "step"
    /\ count' = IF xcsr.ready THEN count ELSE count + 1
    /\ IF ~xcsr.ready /\ count' > Pace
       THEN Send
       ELSE UNCHANGED <<printed, xcsr, itab, console, active>>
    /\ UNCHANGED <<priority, clockIE, vec, undefined>>
    /\ UNCHANGED <<rcsr, rbuf, xbuf, driver, typed, polled, accepted>>

LineMain == \/ Guest \/ LineEnterHandler \/ LinePollReceiver \/ LinePollTransmitter
            \/ (Check \/ ReadVector \/ PopIrq) /\ UNCHANGED lineVars

\* The operator hits a key, or leaves the console.
Types ==
    /\ console = "off" /\ Len(typed) < MaxTyped
    /\ \E c \in {Len(typed) + 1, CtrlP, CtrlT} : typed' = Append(typed, c)
    /\ UNCHANGED <<vars, registers, driver, polled, printed, accepted>>

LineResume == Resume /\ UNCHANGED lineVars

LineNext == \/ ~undefined /\ (LineMain \/ Types \/ LineResume)
            \/ Stopped /\ UNCHANGED lineVars

\* The main loop runs for ever; nothing is owed by the operator.
LineSpec ==
    LineInit /\ [][LineNext]_<<vars, lineVars>> /\ WF_<<vars, lineVars>>(~undefined /\ LineMain)

-----------------------------------------------------------------------------
(***************************************************************************)
(* Properties.                                                             *)
(***************************************************************************)

\* The reads the receiver's handler still owes: one for each request in the
\* table, but for the one popirq() is about to remove, and for each handler that
\* has been entered and has not read.
Owed ==
    Cardinality({i \in Slots : itab[i] = TtyIn})
    - (IF pc = "pop" /\ vec = TtyIn.vec THEN 1 ELSE 0)
    + Cardinality({k \in 1 .. Len(code) : code[k] = "read"})

\* Input: each accepted character gets exactly one read, which finds it or one
\* that has overwritten it; what was overwritten leaves a later read with NUL; no
\* character is read twice or out of order, and none that was announced is left
\* in RBUF without a read to come.
InputAccounted ==
    ~undefined /\ console # "full" =>
        /\ Len(accepted) = Len(received) + Owed
        /\ \A i \in 1 .. Len(received) : received[i] = Nul \/ received[i] >= accepted[i]
        /\ \A i, j \in 1 .. Len(received) :
               i < j /\ Nul \notin {received[i], received[j]} => received[i] < received[j]
        /\ rcsr.done /\ rbuf \in Range(accepted) => Owed > 0

\* Output: what was written has been printed, is in the transmitter or waits in
\* the driver's queue, once and in order, although XBUF can be overwritten and
\* poll() and the two handlers alternate with the process that writes.
OutputInOrder ==
    written = printed \o (IF xcsr.ready THEN << >> ELSE <<xbuf % 128>>) \o queue

LineInv == LineTypeOK /\ InputAccounted /\ OutputInOrder

\* Everything written is printed: the transmitter's interrupt is never missed by
\* a driver that found it busy.  (The guest comes back to priority 0.)
OutputDrains == GuestOpen => []<>(printed = written)
=============================================================================
