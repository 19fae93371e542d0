--------------------------- MODULE GuestRoutines ---------------------------
(***************************************************************************)
(* Routines a guest is made of, as compilers and libraries for the PDP-11  *)
(* write them, and what they mean: arithmetic on double words, comparisons *)
(* and branches, copies, calls.  They are external to the emulator; what   *)
(* is checked is that its instructions, executed one after the other with  *)
(* aborts and restarts anywhere between, add up to the meaning.            *)
(***************************************************************************)
EXTENDS Instructions

A == 2^(W - 3)              \* three words of source, in page 1
B == 2 * A                  \* three words of destination, in page 2
Top == 4 * A                \* the stack grows down from here, in page 3

-----------------------------------------------------------------------------
\* Operands.
Rg(q) == [mode |-> 0, reg |-> q]
At(q) == [mode |-> 1, reg |-> q]
Inc(q) == [mode |-> 2, reg |-> q]
Dec(q) == [mode |-> 4, reg |-> q]
Idx(q) == [mode |-> 6, reg |-> q]       \* the displacement follows
IdxDeferred(q) == [mode |-> 7, reg |-> q]
Imm == Inc(PC)                          \* the value follows
Abs == [mode |-> 3, reg |-> PC]         \* the address follows

\* Instructions; a byte instruction has l = 1.
Instruction(op, l, s, d, n) == [op |-> op, l |-> l, s |-> s, d |-> d, n |-> n]
Two(op, s, d) == Instruction(op, 2, s, d, 0)
TwoB(op, s, d) == Instruction(op, 1, s, d, 0)
One(op, d) == Instruction(op, 2, Rg(0), d, 0)
OneB(op, d) == Instruction(op, 1, Rg(0), d, 0)
Go(op, n) == Instruction(op, 2, Rg(0), Rg(0), n)
SobBack(q, n) == Instruction("SOB", 2, Rg(q), Rg(0), n)
Data(n) == Instruction("data", 2, Rg(0), Rg(0), n)

\* R1 points to the source, R2 to the destination, R0 holds `n`.
Routine(name, n, text, inputs) ==
    [name |-> name, text |-> text, inputs |-> inputs,
     r |-> [q \in 0 .. 7 |-> CASE q = 0 -> n [] q = 1 -> A [] q = 2 -> B
                               [] q = SP -> Top [] OTHER -> 0]]

Doubles == {A, A + 2, B, B + 2}

\* Double words, the lower word first.
Add2 == Routine("add", 0, <<Two("ADD", Inc(1), Inc(2)), One("ADC", At(2)),
                            Two("ADD", At(1), At(2))>>, Doubles)
Sub2 == Routine("sub", 0, <<Two("SUB", Inc(1), Inc(2)), One("SBC", At(2)),
                            Two("SUB", At(1), At(2))>>, Doubles)
Neg2 == Routine("neg", 0, <<One("NEG", Idx(2)), Data(2), One("NEG", At(2)),
                            One("SBC", Idx(2)), Data(2)>>, {B, B + 2})
Asl2 == Routine("asl", 0, <<One("ASL", Inc(2)), One("ROL", At(2))>>, {B, B + 2})
Lsr2 == Routine("lsr", 0, <<Go("CCC", 1), One("ROR", Idx(2)), Data(2), One("ROR", At(2))>>,
                {B, B + 2})
Sxt2 == Routine("sxt", 0, <<Two("MOV", At(1), Inc(2)), One("SXT", At(2))>>, {A})

\* Counting a double word up and down, and halving a word or a byte.
Inc2 == Routine("inc", 0, <<One("INC", At(2)), Go("BNE", 2), One("INC", Idx(2)), Data(2)>>,
                {B, B + 2})
Dec2 == Routine("dec", 0, <<One("TST", At(2)), Go("BNE", 2), One("DEC", Idx(2)), Data(2),
                            One("DEC", At(2))>>, {B, B + 2})
Half(l) == Routine("half", l, <<Instruction("ASR", l, Rg(0), At(2), 0)>>, {B})

\* Products, quotients and shifts, in R0 and R1, or R3 alone.
Mul2 == Routine("mul", 0, <<Two("MOV", At(1), Rg(0)), Two("MUL", Rg(0), At(2))>>, {A, B})
Mul1 == Routine("mul1", 0, <<Two("MOV", At(1), Rg(3)), Two("MUL", Rg(3), At(2))>>, {A, B})
Div2 == Routine("div", 0, <<Two("MOV", Idx(1), Rg(0)), Data(2), Two("MOV", At(1), Rg(1)),
                            Two("DIV", Rg(0), At(2))>>, {A, A + 2, B})
Ash1(n) == Routine("ash", n, <<Two("MOV", At(1), Rg(3)), Two("ASH", Rg(3), Rg(0))>>, {A})
Ash2(n) == Routine("ashc", n, <<Two("MOV", Idx(1), Rg(4)), Data(2), Two("MOV", At(1), Rg(5)),
                                Two("ASHC", Rg(4), Rg(0))>>, {A, A + 2})

\* R3 becomes the exclusive or of the words by BIC and BIS, B by XOR; R5 their
\* conjunction.
Xor1 == Routine("xor", 0,
    <<Two("MOV", At(1), Rg(0)), Two("BIC", At(2), Rg(0)),
      Two("MOV", At(2), Rg(3)), Two("BIC", At(1), Rg(3)), Two("BIS", Rg(0), Rg(3)),
      Two("MOV", At(1), Rg(4)), Two("MOV", At(2), Rg(5)), One("COM", Rg(4)),
      Two("BIC", Rg(4), Rg(5)), One("COM", Rg(4)), Two("XOR", Rg(4), At(2))>>, {A, B})

\* The ones of a word counted in R5, shifted out one by one.
Ones == Routine("ones", 0,
    <<Two("MOV", At(1), Rg(0)), One("CLR", Rg(5)), One("ASL", Rg(0)), One("ADC", Rg(5)),
      One("TST", Rg(0)), Go("BNE", -4)>>, {A})

\* The bytes of a word, in the other order.
Bytes == Routine("bytes", 0,
    <<Two("MOV", At(1), Rg(0)), One("SWAB", Rg(0)), TwoB("MOV", Rg(0), Inc(2)),
      One("SWAB", Rg(0)), TwoB("MOV", Rg(0), At(2)), TwoB("MOV", Idx(1), Rg(3)), Data(1)>>, {A})

\* R5 is 1 unless the branch is taken.
Compare(op, l) == Routine(op, l,
    <<Instruction("CMP", l, At(1), At(2), 0), Go(op, 1), One("INC", Rg(5))>>, {A, B})

\* R5 gets bit 0 for an overflow of `op` and bit 1 for a carry.
Overflow(op) == Routine(op, 2,
    <<Instruction(op, 2, At(1), At(2), 0), Go("BVC", 2), Two("BIS", Imm, Rg(5)), Data(1),
      Go("BCC", 2), Two("BIS", Imm, Rg(5)), Data(2)>>, {A, B})

\* Copies: words counted by SOB, bytes up to a zero.
CopyWords == Routine("copy", 3, <<Two("MOV", Inc(1), Inc(2)), SobBack(0, 2)>>,
                     {A, A + 2, A + 4})
CopyString == Routine("string", 0, <<TwoB("MOV", Inc(1), Inc(2)), Go("BNE", -2)>>,
                      {A, A + 2})

\* A call with an argument on the stack of a function that calls another, whose
\* argument follows the call in the text.
Calls == Routine("calls", 0,
    <<Two("MOV", At(1), Dec(SP)),
      Instruction("JSR", 2, Rg(PC), Abs, 0), Data(10), One("TST", Inc(SP)), Go("BR", 8),
      Two("MOV", Idx(SP), Rg(0)), Data(2), Instruction("JSR", 2, Rg(5), Abs, 0),
      Data(22), Data(3),
      One("RTS", Rg(PC)),
      Two("ADD", Inc(5), Rg(0)), One("RTS", Rg(5))>>, {A})

\* Registers saved on a stack and restored; the stack begins at `sp`.
Save(sp) == [Routine("save", 0,
    <<Two("MOV", Rg(1), Dec(SP)), Two("MOV", Rg(2), Dec(SP)),
      One("CLR", Rg(1)), Two("MOV", Rg(1), Rg(2)),
      Two("MOV", Inc(SP), Rg(2)), Two("MOV", Inc(SP), Rg(1))>>, {})
    EXCEPT !.r[SP] = sp]

\* A word moved as a kernel moves it from and to a user program, by the stack.
MovePrevious == Routine("previous", 0, <<One("MFPI", Inc(1)), One("MTPI", Inc(2)),
                                         One("MFPI", Rg(SP)), One("MTPI", Rg(3))>>, {A})

\* A jump through a table by the lowest two bits; R5 counts what is not skipped.
Switch == Routine("switch", 0,
    <<Two("MOV", At(1), Rg(0)), Two("BIC", Imm, Rg(0)), Data(2^W - 4), One("ASL", Rg(0)),
      One("JMP", IdxDeferred(0)), Data(12), Data(20), Data(22), Data(24), Data(26),
      One("INC", Rg(5)), One("INC", Rg(5)), One("INC", Rg(5))>>, {A})

-----------------------------------------------------------------------------
\* The routines, with a stack that stays clear of the addresses 0170000 and up,
\* and every count of a shift.
Guests ==
    {Add2, Sub2, Neg2, Asl2, Lsr2, Sxt2, Mul2, Mul1, Div2, Xor1, Bytes,
     Inc2, Dec2, Ones, CopyWords, CopyString, Calls, Switch, MovePrevious, Save(Top)}
    \cup {Half(l) : l \in {1, 2}}
    \cup {Ash1(n) : n \in 0 .. 4 * W - 1} \cup {Ash2(n) : n \in 0 .. 4 * W - 1}
    \cup {Compare(op, l) : op \in Branches, l \in {1, 2}}
    \cup {Overflow(op) : op \in {"ADD", "SUB", "CMP", "NEG", "ASL"}}

\* The core they work in, which begins behind the page of the text.
Hosted ==
    /\ Routines \subseteq Guests
    /\ {A, A + 2, A + 4, B, B + 2, B + 4, Top - 2, Top - 4, Top - 6} \subseteq Cells
    /\ \A a \in Cells : a >= A

-----------------------------------------------------------------------------
(***************************************************************************)
(* Properties: what a routine that has come to its end has done.           *)
(***************************************************************************)

\* No routine is killed, and `meant` holds at the end of those named.
Means(names, meant) ==
    routine.name \in names =>
        /\ m.left \notin {"bus", "invalid"}
        /\ Ended => meant

Double(k, a) == k.core[a] + 2^W * k.core[a + 2]
Fits(x, l) == x \in -(SignBit(l)) .. SignBit(l) - 1
SignedByte(x) == IF Sign(x, 1) THEN x - ByteSize ELSE x
Absolute(x) == IF x < 0 THEN -x ELSE x

\* q is the quotient toward zero of n and d.
Divides(n, d, q) ==
    LET r == n - q * d IN Absolute(r) < Absolute(d) /\ (r = 0 \/ (r < 0) = (n < 0))

\* x * 2^c, rounded down for a negative c.
Shifted(x, c) == IF c >= 0 THEN x * 2^c ELSE x \div 2^(-c)

\* The six bits of a shift count.
Count(n) == IF n >= 2 * W THEN n - 4 * W ELSE n

\* Sequences of instructions that hand carry, borrow, sign or halves of a result
\* to each other compute what the numbers in core say, wherever they are aborted
\* and restarted.  (Shifts by 2W are undefined in C++.)
ArithmeticMeant ==
    LET a == start.core[A]
        b == start.core[B]
        sa == SignedWord(a)
        sb == SignedWord(b)
        aa == Double(start, A)
        bb == Double(start, B)
        c == Count(start.r[0])
        Long2Of(q) == SignedLong(2^W * m.r[q] + m.r[q + 1])
    IN /\ Means({"add"}, Double(m, B) = (aa + bb) % 2^(2 * W))
       /\ Means({"sub"}, Double(m, B) = (bb - aa) % 2^(2 * W))
       /\ Means({"neg"}, Double(m, B) = (-bb) % 2^(2 * W))
       /\ Means({"asl"}, Double(m, B) = (2 * bb) % 2^(2 * W))
       /\ Means({"lsr"}, Double(m, B) = bb \div 2)
       /\ Means({"sxt"}, SignedLong(Double(m, B)) = sa)
       /\ Means({"inc"}, Double(m, B) = (bb + 1) % 2^(2 * W))
       /\ Means({"dec"}, Double(m, B) = (bb - 1) % 2^(2 * W))
       /\ Means({"half"},
             IF start.r[0] = 2 THEN SignedWord(m.core[B]) = sb \div 2
             ELSE m.core[B] = (b - (b % ByteSize))
                              + ((SignedByte(b % ByteSize) \div 2) % ByteSize))
       /\ Means({"ones"}, m.r[5] = Cardinality({k \in 0 .. W - 1 : Bit(a, k)}))
       /\ Means({"mul"}, Long2Of(0) = sa * sb)
       /\ Means({"mul1"}, m.r[3] = (sa * sb) % 2^W)
       /\ Means({"div"},
             LET fits == \E q \in -(2^(W - 1)) .. 2^(W - 1) - 1 :
                             Divides(SignedLong(aa), sb, q)
             IN /\ m.f.v <=> sb = 0 \/ ~fits
                /\ ~m.f.v => /\ Divides(SignedLong(aa), sb, SignedWord(m.r[0]))
                             /\ SignedLong(aa) = SignedWord(m.r[0]) * sb + SignedWord(m.r[1]))
       /\ Means({"ash"}, c # -2 * W => m.r[3] = Shifted(sa, c) % 2^W)
       /\ Means({"ashc"}, c # -2 * W =>
             Long2Of(4) = SignedLong(Shifted(SignedLong(aa), c) % 2^(2 * W)))
       /\ Means({"xor"}, m.r[3] = m.core[B] /\ a + b = m.core[B] + 2 * m.r[5])
       /\ Means({"bytes"},
             /\ m.core[B] = (a % ByteSize) * ByteSize + a \div ByteSize
             /\ SignedWord(m.r[3]) = Shifted(sa, -(W \div 2)))

\* A conditional branch after a comparison decides as the two numbers compare,
\* as words and as bytes, signed and unsigned; and V and C say of a sum, a
\* difference, a negation or a doubling whether it left the signed or the
\* unsigned range.
ComparisonsDecide ==
    LET l == start.r[0]
        a == start.core[A] % 2^Bits(l)
        b == start.core[B] % 2^Bits(l)
        Signed(x) == IF Sign(x, l) THEN x - 2^Bits(l) ELSE x
        sa == Signed(a)
        sb == Signed(b)
        Decides(op, holds) == Means({op}, (m.r[5] = 0) <=> holds)
        wa == start.core[A]
        wb == start.core[B]
        Leaving(op, signed, unsigned) ==
            Means({op}, /\ Bit(m.r[5], 0) <=> ~Fits(signed, 2)
                        /\ Bit(m.r[5], 1) <=> unsigned \notin Word)
    IN /\ routine.name \in Branches =>
             /\ Decides("BR", TRUE)
             /\ Decides("BEQ", a = b) /\ Decides("BNE", a # b)
             /\ Decides("BLT", sa < sb) /\ Decides("BGE", sa >= sb)
             /\ Decides("BLE", sa <= sb) /\ Decides("BGT", sa > sb)
             /\ Decides("BCS", a < b) /\ Decides("BCC", a >= b)
             /\ Decides("BLOS", a <= b) /\ Decides("BHI", a > b)
             /\ Decides("BVS", ~Fits(sa - sb, l)) /\ Decides("BVC", Fits(sa - sb, l))
             /\ Decides("BMI", Sign(a - b, l)) /\ Decides("BPL", ~Sign(a - b, l))
       /\ Leaving("ADD", SignedWord(wa) + SignedWord(wb), wa + wb)
       /\ Leaving("SUB", SignedWord(wb) - SignedWord(wa), wb - wa)
       /\ Leaving("CMP", SignedWord(wa) - SignedWord(wb), wa - wb)
       /\ Leaving("NEG", -SignedWord(wb), -wb)
       /\ Leaving("ASL", 2 * SignedWord(wb), 2 * wb)

\* The byte at an address.
Byte(k, x) == IF x % 2 = 1 THEN k.core[x - 1] \div ByteSize ELSE k.core[x] % ByteSize

\* What a routine saves on its stack it finds there again.
RegistersSaved ==
    Means({"save"}, \A q \in 0 .. SP : m.r[q] = start.r[q])

\* Copies with autoincrement copy each element once and stop behind the last,
\* calls return to their callers with stack and linkage as before, a table leads
\* to the case it names.
RoutinesReturn ==
    /\ Means({"copy"},
          /\ \A x \in {0, 2, 4} : m.core[B + x] = start.core[A + x]
          /\ m.r[1] = A + 6 /\ m.r[2] = B + 6 /\ m.r[0] = 0)
    /\ Means({"string"},
          \E n \in 0 .. 4 :
              /\ Byte(start, A + n) = 0
              /\ \A x \in 0 .. n - 1 : Byte(start, A + x) # 0
              /\ \A x \in 0 .. 5 : Byte(m, B + x) = IF x <= n THEN Byte(start, A + x) ELSE 0
              /\ m.r[1] = A + n + 1 /\ m.r[2] = B + n + 1)
    /\ Means({"calls"},
          m.r[0] = (start.core[A] + 3) % 2^W /\ m.r[SP] = Top /\ m.r[5] = start.r[5])
    /\ Means({"switch"}, m.r[5] = 3 - (start.core[A] % 4))
    /\ Means({"previous"},
          m.core[B] = start.core[A] /\ m.r[1] = A + 2 /\ m.r[2] = B + 2
          /\ m.r[3] = Top /\ m.r[SP] = Top)
    /\ RegistersSaved
=============================================================================
