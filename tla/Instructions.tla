---------------------------- MODULE Instructions ----------------------------
(***************************************************************************)
(* cpu::step() and the instructions of lib/cpu/cpu.cpp, executing a guest  *)
(* routine in user mode.  An access to a page that is not resident aborts  *)
(* the instruction where it stands: mmu::decode() leaves by longjmp, and   *)
(* what registers and flags have changed by then stays changed.  The guest *)
(* kernel, which is external, makes the page resident, backs the registers *)
(* up to the start of the instruction and returns to it.                   *)
(*                                                                         *)
(* Instructions are records, not words: op, l (2 or 1 bytes), the operands *)
(* s and d as [mode, reg], and a number n.  The routine's text lies at     *)
(* address 0; a word of it that is no instruction is [op |-> "data"] with  *)
(* n its value.                                                            *)
(***************************************************************************)
EXTENDS Alu, Sequences

CONSTANTS
    Routines,       \* records [name, text, r, inputs]
    Cells,          \* the even addresses core answers at, text aside
    Inputs,         \* words the cells named in `inputs` start with
    MaxEvictions    \* bound on the pages the kernel takes away

ASSUME CellsAssumption == Cells \subseteq {a \in Word : a % 2 = 0}
ASSUME InputsAssumption == Inputs \subseteq Word
ASSUME EvictionsAssumption == MaxEvictions \in Nat

\* The instructions that bit 15 makes one for bytes.
Bytewise == {"MOV", "CMP", "BIT", "BIC", "BIS", "CLR", "COM", "INC", "DEC", "NEG",
             "ADC", "SBC", "TST", "ROR", "ROL", "ASR", "ASL"}

Operands == [mode : 0 .. 7, reg : 0 .. 7]
TextWords == {x \in [op : STRING, l : {1, 2}, s : Operands, d : Operands, n : Int] :
                  x.l = 1 => x.op \in Bytewise}

ASSUME RoutinesAssumption ==
    \A x \in Routines :
        x.text \in Seq(TextWords) /\ x.r \in [0 .. 7 -> Long] /\ x.inputs \subseteq Cells

SP == 6
PC == 7

VARIABLES
    routine,    \* the routine being executed
    start,      \* history: the machine at its first instruction
    m,          \* the machine: R[], the flags, core; and within a step its
                \* PC, the value last read and how the step was left
    absent,     \* pages that are not resident
    backup,     \* history: R[] at the start of the instruction
    evictions   \* pages taken away so far

vars == <<routine, start, m, absent, backup, evictions>>

\* decode(): the upper three bits of an address select the page.
Page(a) == a \div 2^(W - 3)
Pages == {Page(a) : a \in Cells}

Machine == [r : [0 .. 7 -> Long], f : Flags, core : [Cells -> Word],
            pc : Long, out : Long, left : {"no", "fault", "bus", "invalid"}]

TypeOK ==
    /\ routine \in Routines
    /\ start \in Machine /\ m \in Machine
    /\ absent \subseteq Pages
    /\ backup \in [0 .. 7 -> Long]
    /\ evictions \in 0 .. MaxEvictions

Init ==
    /\ routine \in Routines
    /\ \E x \in [routine.inputs -> Inputs], b \in BOOLEAN :
           m = [r |-> routine.r, f |-> [n |-> b, z |-> b, v |-> b, c |-> b],
                core |-> [a \in Cells |-> IF a \in routine.inputs THEN x[a] ELSE 0],
                pc |-> 0, out |-> 0, left |-> "no"]
    /\ start = m
    /\ absent = {}
    /\ backup = m.r
    /\ evictions = 0

-----------------------------------------------------------------------------
(***************************************************************************)
(* Accesses.  Each is a function from machine to machine that does nothing *)
(* once the instruction has been left.                                     *)
(***************************************************************************)
Runs(k) == k.left = "no"

Returns(k, x) == IF Runs(k) THEN [k EXCEPT !.out = x] ELSE k
Sets(k, q, x) == IF Runs(k) THEN [k EXCEPT !.r[q] = x % 2^(2 * W)] ELSE k
Flagged(k, f) == IF Runs(k) THEN [k EXCEPT !.f = f] ELSE k
Leaves(k, how) == IF Runs(k) THEN [k EXCEPT !.left = how] ELSE k

\* longjmp() out of an access to address a, which SR0 names.
Aborts(k, a, how) == Leaves(Returns(k, a), how)

Text(a) == (a \div 2) + 1       \* the place of an address in the text
InText(a) == Text(a) \in DOMAIN routine.text

\* cpu read16() and write16(): decode() and the bus, which take 16 bits.
Read16(k, addr) ==
    LET a == addr % 2^W
    IN IF Page(a) \in absent THEN Aborts(k, a, "fault")
       ELSE IF a \in Cells THEN Returns(k, k.core[a])
       ELSE IF a % 2 = 0 /\ InText(a) THEN Returns(k, routine.text[Text(a)].n % 2^W)
       ELSE Aborts(k, a, "bus")

\* Mutant: core holds what it is given.
Write16Uncut(k, addr, x) ==
    LET a == addr % 2^W
    IN IF Page(a) \in absent THEN Aborts(k, a, "fault")
       ELSE IF a \notin Cells THEN Aborts(k, a, "bus")
       ELSE IF Runs(k) THEN [k EXCEPT !.core[a] = x] ELSE k

Write16(k, addr, x) ==
    LET a == addr % 2^W
    IN IF Page(a) \in absent THEN Aborts(k, a, "fault")
       ELSE IF a \notin Cells THEN Aborts(k, a, "bus")
       ELSE IF Runs(k) THEN [k EXCEPT !.core[a] = x % 2^W] ELSE k

\* The byte at an odd address is the upper one.
ByteSize == 2^(W \div 2)

Read8(k, addr) ==
    LET w == Read16(k, addr - (addr % 2))
    IN Returns(w, IF addr % 2 = 1 THEN w.out \div ByteSize ELSE w.out % ByteSize)

Write8(k, addr, x) ==
    LET a == addr - (addr % 2)
        w == Read16(k, a)
        old == w.out
        b == x % ByteSize
    IN Write16(w, a, IF addr % 2 = 1 THEN b * ByteSize + (old % ByteSize)
                     ELSE (old \div ByteSize) * ByteSize + b)

\* A register operand is an address of the eight from 0170000 on; isReg() looks
\* at the virtual address.
Pseudo == 2^W - 2^(W - 4)
IsReg(a) == a \in Pseudo .. Pseudo + 7

MemRead(k, a, l) ==
    CASE IsReg(a) -> Returns(k, k.r[a - Pseudo] % 2^Bits(l))
      [] ~IsReg(a) /\ l = 2 -> Read16(k, a)
      [] OTHER -> Read8(k, a)

\* A word goes to a register with all its bits, to core with the lower W.
MemWrite(k, a, l, x) ==
    CASE IsReg(a) /\ l = 2 -> Sets(k, a - Pseudo, x)
      [] IsReg(a) /\ l = 1 ->
             LET old == k.r[a - Pseudo] % 2^W
             IN Sets(k, a - Pseudo, (old \div ByteSize) * ByteSize + x)
      [] ~IsReg(a) /\ l = 2 -> Write16(k, a, x)
      [] OTHER -> Write8(k, a, x)

Fetch16(k) ==
    LET w == Read16(k, k.r[PC]) IN Sets(w, PC, k.r[PC] + 2)

Push(k, x) ==
    LET w == Sets(k, SP, k.r[SP] - 2) IN Write16(w, w.r[SP], x)

Pop(k) ==
    LET w == Read16(k, k.r[SP]) IN Sets(w, SP, k.r[SP] + 2)

\* The bytes an autoincrement or autodecrement moves its register by.
Stride(o, l) == IF o.reg >= SP \/ o.mode % 2 = 1 THEN 2 ELSE l

\* aget(): the operand's address.  An odd mode but 1 is deferred once more.
Deferred(k, o) ==
    IF o.mode % 2 = 1 THEN Read16(k, k.out) ELSE Returns(k, k.out % 2^W)

Aget(k, o, l) ==
    LET base == k.r[o.reg]
    IN CASE o.mode = 0 -> Returns(k, Pseudo + o.reg)
         [] o.mode = 1 -> Returns(k, base % 2^W)
         [] o.mode \in {2, 3} ->
                Deferred(Sets(Returns(k, base), o.reg, base + Stride(o, l)), o)
         [] o.mode \in {4, 5} ->
                LET w == Sets(k, o.reg, base - Stride(o, l))
                IN Deferred(Returns(w, w.r[o.reg]), o)
         [] o.mode \in {6, 7} ->
                LET w == Fetch16(k) IN Deferred(Returns(w, w.out + w.r[o.reg]), o)

-----------------------------------------------------------------------------
(***************************************************************************)
(* The instructions.                                                       *)
(***************************************************************************)
OneOperand == {"COM", "INC", "DEC", "NEG", "ADC", "SBC", "TST",
               "ROR", "ROL", "ASR", "ASL", "SWAB"}
TwoOperands == {"CMP", "BIT", "BIC", "BIS", "ADD", "SUB"}
Branches == {"BR", "BNE", "BEQ", "BGE", "BLT", "BGT", "BLE", "BPL", "BMI",
             "BHI", "BLOS", "BVC", "BVS", "BCC", "BCS"}

Computed1(op, x, l, f) ==
    CASE op = "COM" -> COM(x, l, f)
      [] op = "INC" -> INC(x, l, f) [] op = "DEC" -> DEC(x, l, f)
      [] op = "NEG" -> NEG(x, l, f) [] op = "ADC" -> ADC(x, l, f)
      [] op = "SBC" -> SBC(x, l, f) [] op = "TST" -> TST(x, l, f)
      [] op = "ROR" -> ROR(x, l, f) [] op = "ROL" -> ROL(x, l, f)
      [] op = "ASR" -> ASR(x, l, f) [] op = "ASL" -> ASL(x, l, f)
      [] op = "SWAB" -> SWAB(x, l, f)

Computed2(op, a, b, l, f) ==
    CASE op = "CMP" -> CMP(a, b, l, f) [] op = "BIT" -> BIT(a, b, l, f)
      [] op = "BIC" -> BIC(a, b, l, f) [] op = "BIS" -> BIS(a, b, l, f)
      [] op = "ADD" -> ADD(a, b, l, f) [] op = "SUB" -> SUB(a, b, l, f)

\* The flags, then the value if the instruction has one to store.
Stored(k, a, l, x) ==
    IF x.store THEN MemWrite(Flagged(k, x.f), a, l, x.val) ELSE Flagged(k, x.f)

\* Mutant: the flags are cleared before the operand is read.
UnaryClearsFirst(k, i) ==
    LET z == Flagged(k, [n |-> FALSE, z |-> FALSE, v |-> FALSE, c |-> FALSE])
        a == Aget(z, i.d, i.l)
        x == MemRead(a, a.out, i.l)
    IN Stored(x, a.out, i.l, Computed1(i.op, x.out, i.l, k.f))

Unary(k, i) ==
    LET a == Aget(k, i.d, i.l)
        x == MemRead(a, a.out, i.l)
    IN Stored(x, a.out, i.l, Computed1(i.op, x.out, i.l, k.f))

\* CLR does not read its operand, and sets the flags before it is found.
Clear(k, i) ==
    LET a == Aget(Flagged(k, CLR(i.l, k.f).f), i.d, i.l)
    IN MemWrite(a, a.out, i.l, 0)

Binary(k, i) ==
    LET s == Aget(k, i.s, i.l)
        x == MemRead(s, s.out, i.l)
        d == Aget(x, i.d, i.l)
        y == MemRead(d, d.out, i.l)
    IN Stored(y, d.out, i.l, Computed2(i.op, x.out, y.out, i.l, k.f))

\* MOVB to a register extends the sign.
Move(k, i) ==
    LET s == Aget(k, i.s, i.l)
        x == MemRead(s, s.out, i.l)
        d == Aget(x, i.d, i.l)
        f == Flagged(d, Logical(x.out, i.l, k.f).f)
    IN IF IsReg(d.out) /\ i.l = 1
       THEN MemWrite(f, d.out, 2, IF Sign(x.out, 1) THEN x.out + 2^W - ByteSize ELSE x.out)
       ELSE MemWrite(f, d.out, i.l, x.out)

\* V is cleared before the store; Z is set before and cleared after it.
SignExtend(k, i) ==
    LET x == SXT(0, i.l, k.f)
        a == Aget(k, i.d, i.l)
        w == MemWrite(Flagged(a, [x.f EXCEPT !.z = x.f.z \/ k.f.z]), a.out, i.l, x.val)
    IN Flagged(w, x.f)

ExclusiveOr(k, i) ==
    LET d == Aget(k, i.d, 2)
        y == MemRead(d, d.out, 2)
    IN Stored(y, d.out, 2, XOR(k.r[i.s.reg], y.out, k.f))

\* MUL, DIV, ASH and ASHC read the register before they fetch the operand.
\* R[s | 1] is R[s] itself for an odd register.
OddOf(q) == IF q % 2 = 0 THEN q + 1 ELSE q

Long2(op, k, q, x, u) ==
    CASE op = "MUL" -> MUL(k.r[q], x)
      [] op = "DIV" -> DIV(k.r[q], k.r[OddOf(q)], x)
      [] op = "ASH" -> ASH(k.r[q], x, u)
      [] op = "ASHC" -> ASHC(k.r[q], k.r[OddOf(q)], x, u)

Extended2(k, i, u) ==
    LET q == i.s.reg
        d == Aget(k, i.d, 2)
        y == MemRead(d, d.out, 2)
        x == Long2(i.op, k, q, y.out, u)
        w == Flagged(y, x.f)
    IN IF i.op = "MUL" /\ q = 0 /\ i.d = [mode |-> 0, reg |-> 0] THEN Leaves(k, "invalid")
       ELSE IF ~Runs(y) \/ ~x.store THEN w
       ELSE IF i.op = "ASH" THEN Sets(w, q, x.hi)
       ELSE IF i.op = "MUL" /\ q % 2 = 1 THEN Sets(w, q, x.lo)
       ELSE Sets(Sets(w, q, x.hi), OddOf(q), x.lo)

Displaced(k, words) == Sets(k, PC, k.r[PC] + 2 * words)

Taken(op, f) ==
    LET less == f.n # f.v
    IN CASE op = "BR" -> TRUE
         [] op = "BNE" -> ~f.z [] op = "BEQ" -> f.z
         [] op = "BGE" -> ~less [] op = "BLT" -> less
         [] op = "BGT" -> ~(f.z \/ less) [] op = "BLE" -> f.z \/ less
         [] op = "BPL" -> ~f.n [] op = "BMI" -> f.n
         [] op = "BHI" -> ~(f.c \/ f.z) [] op = "BLOS" -> f.c \/ f.z
         [] op = "BVC" -> ~f.v [] op = "BVS" -> f.v
         [] op = "BCC" -> ~f.c [] op = "BCS" -> f.c

Branch(k, i) == IF Taken(i.op, k.f) THEN Displaced(k, i.n) ELSE k

\* The register counts all its 2W bits down.
SOB(k, i) ==
    LET q == i.s.reg
        w == Sets(k, q, k.r[q] - 1)
    IN IF w.r[q] # 0 THEN Displaced(w, -i.n) ELSE w

JMP(k, i) ==
    LET d == Aget(k, i.d, 2)
    IN IF Runs(d) /\ IsReg(d.out) THEN Leaves(d, "invalid") ELSE Sets(d, PC, d.out)

\* Mutant: the linkage register is loaded before it is saved.
JSRLinksFirst(k, i) ==
    LET q == i.s.reg
        d == Aget(k, i.d, 2)
        w == Sets(d, q, d.r[PC])
    IN IF Runs(d) /\ IsReg(d.out) THEN Leaves(d, "invalid")
       ELSE Sets(Push(w, w.r[q]), PC, d.out)

JSR(k, i) ==
    LET q == i.s.reg
        d == Aget(k, i.d, 2)
        w == Push(d, d.r[q])
    IN IF Runs(d) /\ IsReg(d.out) THEN Leaves(d, "invalid")
       ELSE Sets(Sets(w, q, w.r[PC]), PC, d.out)

RTS(k, i) ==
    LET w == Pop(Sets(k, PC, k.r[i.d.reg])) IN Sets(w, i.d.reg, w.out)

\* step() breaks out of its switch after MARK instead of returning, and comes
\* to the trap for invalid instructions.
MARK(k, i) ==
    LET w == Pop(Sets(Sets(k, SP, k.r[PC] + 2 * i.n), PC, k.r[5]))
    IN Leaves(Sets(w, 5, w.out), "invalid")

\* MFPI and MTPI, of a program whose previous mode is its own.  MTPI has popped
\* its word before it reaches for the destination.
Moved(x, c) == [n |-> Sign(x, 2), z |-> x = 0, v |-> FALSE, c |-> c]

MFPI(k, i) ==
    LET d == Aget(k, i.d, 2)
        y == IF d.out = Pseudo + SP THEN Returns(d, d.r[SP] % 2^(2 * W)) ELSE Read16(d, d.out)
        w == Push(y, y.out)
    IN IF Runs(d) /\ IsReg(d.out) /\ d.out # Pseudo + SP THEN Leaves(d, "invalid")
       ELSE Flagged(w, Moved(y.out, TRUE))

MTPI(k, i) ==
    LET d == Aget(k, i.d, 2)
        y == Pop(d)
    IN Flagged(IF IsReg(d.out) THEN Sets(y, d.out - Pseudo, y.out)
               ELSE Write16(y, d.out, y.out),
               Moved(y.out, FALSE))

\* CLC ... SCC: the lower four bits name the flags, bit 4 says set or clear.
SetFlags(k, i) ==
    LET Put(old, bit) == IF Bit(i.n, bit) THEN Bit(i.n, 4) ELSE old
    IN Flagged(k, [n |-> Put(k.f.n, 3), z |-> Put(k.f.z, 2),
                   v |-> Put(k.f.v, 1), c |-> Put(k.f.c, 0)])

\* The switches of step().
Executed(k, i, u) ==
    CASE i.op = "MOV" -> Move(k, i)
      [] i.op \in TwoOperands -> Binary(k, i)
      [] i.op = "JSR" -> JSR(k, i)
      [] i.op \in {"MUL", "DIV", "ASH", "ASHC"} -> Extended2(k, i, u)
      [] i.op = "XOR" -> ExclusiveOr(k, i)
      [] i.op = "SOB" -> SOB(k, i)
      [] i.op = "CLR" -> Clear(k, i)
      [] i.op \in OneOperand -> Unary(k, i)
      [] i.op = "SXT" -> SignExtend(k, i)
      [] i.op = "JMP" -> JMP(k, i)
      [] i.op = "MARK" -> MARK(k, i)
      [] i.op = "MFPI" -> MFPI(k, i)
      [] i.op = "MTPI" -> MTPI(k, i)
      [] i.op = "RTS" -> RTS(k, i)
      [] i.op \in Branches -> Branch(k, i)
      [] i.op = "CCC" -> SetFlags(k, i)
      [] OTHER -> Leaves(k, "invalid")

-----------------------------------------------------------------------------
\* The routine has left its text, at its end or otherwise.
Ended == Runs(m) /\ ~InText(m.r[PC] % 2^W)

\* What was read last, and where the instruction was, mean nothing to the next.
Settled(k) == IF Runs(k) THEN [k EXCEPT !.out = 0, !.pc = 0] ELSE k

\* step(): PC is where the instruction is, R[7] behind it once it is fetched.
Step ==
    /\ Runs(m) /\ ~Ended
    /\ LET i == routine.text[Text(m.r[PC] % 2^W)]
           k == Fetch16([m EXCEPT !.pc = m.r[PC]])
       IN \E u \in (IF i.op \in {"ASH", "ASHC"} THEN BOOLEAN ELSE {FALSE}) :
              m' = Settled(IF Runs(k) THEN Executed(k, i, u) ELSE k)
    /\ backup' = m.r
    /\ UNCHANGED <<routine, start, absent, evictions>>

\* The guest kernel on INTFAULT: it makes the page resident that SR0 names and
\* returns to the instruction at SR2, where decode() has put PC, the registers
\* backed up and the flags as the trap saved them.
Resolve ==
    /\ m.left = "fault"
    /\ absent' = absent \ {Page(m.out)}
    /\ m' = [m EXCEPT !.r = [backup EXCEPT ![PC] = m.pc],
                       !.pc = 0, !.out = 0, !.left = "no"]
    /\ UNCHANGED <<routine, start, backup, evictions>>

\* It takes a page away while the routine does not run.
Evict ==
    /\ Runs(m) /\ ~Ended
    /\ evictions < MaxEvictions
    /\ \E p \in Pages \ absent : absent' = absent \cup {p}
    /\ evictions' = evictions + 1
    /\ UNCHANGED <<routine, start, m, backup>>

\* The routine has exited, or been killed by another trap.
Exited ==
    /\ Ended \/ m.left \in {"bus", "invalid"}
    /\ UNCHANGED vars

Next == Step \/ Resolve \/ Evict \/ Exited

Spec == Init /\ [][Next]_vars

-----------------------------------------------------------------------------
(***************************************************************************)
(* Properties.                                                             *)
(***************************************************************************)

\* What register q may have moved by for an operand, and in all, when
\* instruction i is left in the middle.
MovesFor(o, l, q) ==
    CASE o.reg = q /\ o.mode \in {2, 3} -> {0, Stride(o, l)}
      [] o.reg = q /\ o.mode \in {4, 5} -> {0, -Stride(o, l)}
      [] OTHER -> {0}

MovesByStack(i, q) ==
    CASE i.op \in {"JSR", "MFPI"} /\ q = SP -> {0, -2}
      [] i.op = "MTPI" /\ q = SP -> {0, 2}
      [] OTHER -> {0}

Moves(i, q) == {x + y + z : x \in MovesFor(i.s, i.l, q), y \in MovesFor(i.d, i.l, q),
                            z \in MovesByStack(i, q)}

\* An instruction that is aborted has stored nothing, has moved no register but
\* PC and those its addressing modes name, by what they say, and has left the
\* flags it will read again: the kernel can back it up.  (MARK has loaded SP
\* before it pops; it ends in the trap of an invalid instruction anyway.)
AbortUndoable ==
    [][ m.left = "no" /\ m'.left = "fault" =>
            LET i == routine.text[Text(m.r[PC] % 2^W)]
            IN i.op # "MARK" =>
               /\ m'.core = m.core
               /\ \A q \in 0 .. SP :
                      \E x \in Moves(i, q) : m'.r[q] = (m.r[q] + x) % 2^(2 * W)
               /\ i.op \in {"ADC", "SBC", "ROR", "ROL"} => m'.f.c = m.f.c
               /\ i.op = "SXT" => m'.f.n = m.f.n ]_vars
=============================================================================
