-------------------------------- MODULE Alu --------------------------------
(***************************************************************************)
(* What the instructions of lib/cpu/cpu.cpp compute: a value and the       *)
(* condition codes from one or two operands.  Operands are what memread()  *)
(* returned, at most a word; `l` is 2 for a word and 1 for a byte.  Widths *)
(* follow the code: a constant that the code writes for words only         *)
(* (0100000, 077777) stays that of a word in a byte instruction.           *)
(***************************************************************************)
EXTENDS Integers, FiniteSetsExt

CONSTANT W      \* bits of a word, 16

ASSUME WidthAssumption == W \in {8, 16}

Word == 0 .. 2^W - 1
Long == 0 .. 2^(2 * W) - 1      \* uint32_t, what R[] holds

Bits(l) == IF l = 2 THEN W ELSE W \div 2
Full(l) == 2^Bits(l) - 1        \* max
SignBit(l) == 2^(Bits(l) - 1)   \* msb

Bit(x, k) == (x \div 2^k) % 2 = 1
Sign(x, l) == Bit(x, Bits(l) - 1)

\* A number from the positions of its ones, out of the 2W of an uint32_t.
FromBits(ones) == SumSet({2^k : k \in ones})
And(x, y) == FromBits({k \in 0 .. 2 * W - 1 : Bit(x, k) /\ Bit(y, k)})
Or(x, y) == FromBits({k \in 0 .. 2 * W - 1 : Bit(x, k) \/ Bit(y, k)})
Xor(x, y) == FromBits({k \in 0 .. 2 * W - 1 : Bit(x, k) # Bit(y, k)})

\* The number an int16_t or int32_t of these bits stands for.
SignedWord(x) == IF x >= 2^(W - 1) THEN x - 2^W ELSE x
SignedLong(x) == IF x >= 2^(2 * W - 1) THEN x - 2^(2 * W) ELSE x

Flags == [n : BOOLEAN, z : BOOLEAN, v : BOOLEAN, c : BOOLEAN]

\* A value to store, the flags, and whether it is stored.
Result(val, n, z, v, c) ==
    [val |-> val, f |-> [n |-> n, z |-> z, v |-> v, c |-> c], store |-> TRUE]
FlagsOnly(r) == [r EXCEPT !.store = FALSE]

\* PS.Word &= 0xFFF1, then N and Z of the value: V is cleared, C kept.
Logical(val, l, f) == Result(val, Sign(val, l), val = 0, FALSE, f.c)

-----------------------------------------------------------------------------
(***************************************************************************)
(* Two operands, source first.                                             *)
(***************************************************************************)

\* Mutant: the borrow the other way round.
CmpBorrowReversed(a, b, l, f) ==
    LET d == (a - b) % 2^Bits(l)
    IN FlagsOnly(Result(d, Sign(d, l), d = 0,
                        Sign(a, l) # Sign(b, l) /\ Sign(b, l) = Sign(d, l), a > b))

CMP(a, b, l, f) ==
    LET d == (a - b) % 2^Bits(l)
    IN FlagsOnly(Result(d, Sign(d, l), d = 0,
                        Sign(a, l) # Sign(b, l) /\ Sign(b, l) = Sign(d, l), a < b))

BIT(a, b, l, f) == FlagsOnly(Logical(And(a, b), l, f))
BIC(a, b, l, f) == Logical(And(Xor(Full(l), a), b), l, f)
BIS(a, b, l, f) == Logical(Or(a, b), l, f)

ADD(a, b, l, f) ==
    LET u == (a + b) % 2^W
    IN Result(u, Sign(u, 2), u = 0,
              Sign(a, 2) = Sign(b, 2) /\ Sign(b, 2) # Sign(u, 2), a + b >= 2^W)

\* Mutant: equal numbers borrow.
SubBorrowsAtEqual(a, b, l, f) ==
    LET d == (b - a) % 2^W
    IN Result(d, Sign(d, 2), d = 0,
              Sign(a, 2) # Sign(b, 2) /\ Sign(a, 2) = Sign(d, 2), a >= b)

SUB(a, b, l, f) ==
    LET d == (b - a) % 2^W
    IN Result(d, Sign(d, 2), d = 0,
              Sign(a, 2) # Sign(b, 2) /\ Sign(a, 2) = Sign(d, 2), a > b)

-----------------------------------------------------------------------------
(***************************************************************************)
(* One operand.                                                            *)
(***************************************************************************)
CLR(l, f) == Result(0, FALSE, TRUE, FALSE, FALSE)

COM(x, l, f) ==
    LET u == Xor(x, Full(l)) IN Result(u, Sign(u, l), u = 0, FALSE, TRUE)

\* V is set with N, not at the largest number only.
INC(x, l, f) ==
    LET u == (x + 1) % 2^Bits(l) IN Result(u, Sign(u, l), u = 0, Sign(u, l), f.c)

DEC(x, l, f) ==
    LET u == (x - 1) % 2^Bits(l)
    IN Result(u, Sign(u, l), u = 0, u = SignBit(l) - 1, f.c)

NEG(x, l, f) ==
    LET s == (-x) % 2^Bits(l) IN Result(s, Sign(s, l), s = 0, s = 2^(W - 1), s # 0)

ADC(x, l, f) ==
    LET u == IF f.c THEN (x + 1) % 2^Bits(l) ELSE x
    IN [Result(u, Sign(u, l), u = 0, f.c /\ x = 2^(W - 1) - 1, f.c /\ x = 2^W - 1)
           EXCEPT !.store = f.c]

\* The sign is that of a word, of a difference that is not cut to a byte.
SBC(x, l, f) ==
    LET d == x - (IF f.c THEN 1 ELSE 0)
    IN Result(d % 2^Bits(l), Sign(d, 2), d = 0, x = 2^(W - 1), f.c /\ x = 0)

TST(x, l, f) == FlagsOnly(Result(x, Sign(x, l), x = 0, FALSE, FALSE))

\* ROR and ROL set Z and never clear it.  ROL of a word leaves W + 1 bits.
ROR(x, l, f) ==
    LET u == x \div 2 + (IF f.c THEN SignBit(l) ELSE 0)
        c == x % 2 = 1
    IN Result(u, Sign(u, l), f.z \/ u = 0, Sign(u, l) # c, c)

ROL(x, l, f) ==
    LET s == 2 * x + (IF f.c THEN 1 ELSE 0)
        u == IF l = 2 THEN s ELSE s % 2^Bits(1)
    IN Result(u, Sign(u, l), f.z \/ u = 0, Sign(u, l) # Sign(x, l), Sign(x, l))

\* C is the lowest bit of the result.
ASR(x, l, f) ==
    LET u == x \div 2 + (IF Sign(x, l) THEN SignBit(l) ELSE 0)
        c == u % 2 = 1
    IN Result(u, Sign(u, l), u = 0, Sign(u, l) # c, c)

ASL(x, l, f) ==
    LET u == (2 * x) % 2^Bits(l)
    IN Result(u, Sign(u, l), u = 0, Sign(u, l) # Sign(x, l), Sign(x, l))

SXT(x, l, f) ==
    Result(IF f.n THEN 2^W - 1 ELSE 0, f.n, ~f.n, FALSE, f.c)

\* Z is set if the low byte is NOT zero.
SWAB(x, l, f) ==
    LET b == 2^(W \div 2)
        u == x \div b + (x % b) * b
    IN Result(u, Sign(u, 1), u % b # 0, FALSE, FALSE)

-----------------------------------------------------------------------------
(***************************************************************************)
(* The extended instructions work on whole registers, 2W bits wide.  Each  *)
(* yields the registers' new contents, `hi` of R[s] and `lo` of R[s | 1].  *)
(***************************************************************************)
Registers(hi, lo, n, z, v, c) ==
    [hi |-> hi, lo |-> lo, f |-> [n |-> n, z |-> z, v |-> v, c |-> c], store |-> TRUE]

\* A word sign-extended by | ~077777; bits above a positive word stay.
Extended(x) == IF Sign(x, 2) THEN (x % 2^(W - 1)) - 2^(W - 1) ELSE SignedLong(x)

\* R[s] << 16 | R[s | 1]
Paired(hi, lo) == Or((hi % 2^W) * 2^W, lo)

\* The overflow test is off by one: the product 077777 sets C.
MUL(a, b) ==
    LET d == Extended(a) * Extended(b)
    IN Registers((d \div 2^W) % 2^W, d % 2^W,
                 d < 0, d = 0, FALSE, d >= 2^(W - 1) - 1 \/ d < -(2^(W - 1)))

\* Division of C++, toward zero.
Quotient(a, b) ==
    LET Abs(x) == IF x < 0 THEN -x ELSE x
        q == Abs(a) \div Abs(b)
    IN IF (a < 0) # (b < 0) THEN -q ELSE q

DIV(hi, lo, b) ==
    LET src == SignedLong(Paired(hi, lo))
        dst == Quotient(src, Extended(b))
    IN IF b = 0 THEN FlagsOnly(Registers(hi, lo, FALSE, TRUE, TRUE, TRUE))
       ELSE IF src = -(2^(2 * W - 1)) /\ b = 2^W - 1
       THEN FlagsOnly(Registers(hi, lo, FALSE, FALSE, TRUE, FALSE))
       ELSE IF dst >= 2^(W - 1) \/ dst < -(2^(W - 1))
       THEN FlagsOnly(Registers(hi, lo, dst < 0, FALSE, TRUE, FALSE))
       ELSE Registers(dst % 2^W, (src - Extended(b) * dst) % 2^W,
                      dst < 0, dst = 0, FALSE, FALSE)

\* Shifts by 2W and tests of a bit that is not there are undefined: `u` is what
\* the build makes of them (the x86 shifts by nothing, the ARM everything out).
ShiftedRight(x, k, u) == IF k < 2 * W THEN x \div 2^k ELSE IF u THEN x ELSE 0
Tested(x, k, u) == IF k \in 0 .. 2 * W - 1 THEN Bit(x, k) ELSE u

\* `ones` is all ones of the width.
ArithmeticRight(x, k, ones, negative, u) ==
    IF negative THEN Or(Xor(ones, ShiftedRight(ones, k, u)), ShiftedRight(x, k, u))
    ELSE ShiftedRight(x, k, u)

ASH(x, count, u) ==
    LET n == count % (4 * W)
        right == n >= 2 * W
        k == IF right THEN 4 * W - n ELSE n
        s == IF right THEN ArithmeticRight(x, k, 2^W - 1, Sign(x, 2), u)
             ELSE ((x % 2^W) * 2^k) % 2^W
    IN Registers(s, 0, Sign(s, 2), s = 0, Sign(s, 2) # Sign(x, 2),
                 Tested(x, IF right THEN k - 1 ELSE W - k, u))

ASHC(hi, lo, count, u) ==
    LET x == Paired(hi, lo)
        n == count % (4 * W)
        right == n >= 2 * W
        k == IF right THEN 4 * W - n ELSE n
        s == IF right THEN ArithmeticRight(x, k, 2^(2 * W) - 1, Bit(x, 2 * W - 1), u)
             ELSE (x * 2^k) % 2^(2 * W)
    IN Registers((s \div 2^W) % 2^W, s % 2^W, Bit(s, 2 * W - 1), s = 0,
                 Bit(s, 2 * W - 1) # Bit(x, 2 * W - 1),
                 Tested(x, IF right THEN k - 1 ELSE 2 * W - k, u))

XOR(a, b, f) ==
    LET u == Xor(a, b) IN Result(u, Sign(u, 2), u = 0, FALSE, f.c)
=============================================================================
