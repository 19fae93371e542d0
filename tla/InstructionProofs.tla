------------------------- MODULE InstructionProofs -------------------------
(***************************************************************************)
(* Proofs about Instructions for words of 8 and of 16 bits, every routine  *)
(* and every core: what an aborted instruction leaves behind can be undone *)
(* (AbortsUndone).  Each access has a lemma on what it leaves of the       *)
(* machine, each instruction one that composes them.  Then, what flags and *)
(* carries of Alu mean for all operands, what And, Or, Xor and arithmetic  *)
(* shifts are as numbers, and what each instruction makes of registers,    *)
(* flags and core that are known: what GuestProofs builds on.              *)
(***************************************************************************)
EXTENDS Instructions, FiniteSetTheorems, WellFoundedInduction, TLAPS

Reasons == {"no", "fault", "bus", "invalid"}

\* A machine in the middle of an instruction: the value last read may still be a
\* sum that has not been cut to an address.
Machines ==
    {k \in [r : [0 .. 7 -> Long], f : Flags, core : [Cells -> Word],
            pc : Long, out : Int, left : Reasons] : Runs(k) \/ k.out \in Long}

-----------------------------------------------------------------------------
(***************************************************************************)
(* Numbers.                                                                *)
(***************************************************************************)

\* The powers of two that words and addresses are made of.
LEMMA Powers ==
    /\ \/ W = 8 /\ 2^W = 256 /\ 2^(2 * W) = 65536 /\ ByteSize = 16 /\ Pseudo = 240
          /\ 2^(W - 1) = 128 /\ 2^(2 * W - 1) = 32768 /\ 2^(W - 3) = 32
       \/ W = 16 /\ 2^W = 65536 /\ 2^(2 * W) = 4294967296 /\ ByteSize = 256 /\ Pseudo = 61440
          /\ 2^(W - 1) = 32768 /\ 2^(2 * W - 1) = 2147483648 /\ 2^(W - 3) = 8192
<1>1. CASE W = 8
  BY <1>1 DEF ByteSize, Pseudo
<1>2. CASE W = 16
  BY <1>2 DEF ByteSize, Pseudo
<1> QED BY <1>1, <1>2, WidthAssumption

LEMMA WordFacts ==
    /\ Word \subseteq Long /\ Long \subseteq Nat /\ 0 \in Word
    /\ \A x \in Int : x % 2^W \in Word /\ x % 2^(2 * W) \in Long
    /\ \A x \in Long : x = (x + 0) % 2^(2 * W)
    /\ Pseudo \in Nat /\ \A q \in 0 .. 7 : Pseudo + q \in Word
    /\ ByteSize \in Nat \ {0}
BY Powers DEF Word, Long

LEMMA SumOfMoves ==
    \A r, x, y \in Int : (((r + x) % 2^(2 * W)) + y) % 2^(2 * W) = (r + x + y) % 2^(2 * W)
<1>1. \A r, x, y \in Int : (((r + x) % 65536) + y) % 65536 = (r + x + y) % 65536
  OBVIOUS
<1>2. \A r, x, y \in Int : (((r + x) % 4294967296) + y) % 4294967296 = (r + x + y) % 4294967296
  OBVIOUS
<1> QED BY <1>1, <1>2, Powers

-----------------------------------------------------------------------------
(***************************************************************************)
(* The library's SumSet, of which And, Or and Xor are made, is recursive:  *)
(* that it yields a number takes an induction over finite sets.            *)
(***************************************************************************)

\* Every set of naturals that is not empty has a least element.
LEMMA Least ==
    ASSUME NEW T \in SUBSET Nat, T # {}
    PROVE  \E n \in T : \A k \in T : n <= k
<1> DEFINE R == {ss \in Nat \X Nat : ss[1] < ss[2]}
<1>1. OpToRel(<, Nat) = R
  BY DEF OpToRel
<1>2. IsWellFoundedOn(R, Nat)
  BY <1>1, NatLessThanWellFounded
<1> HIDE DEF R
<1>3. PICK n \in T : \A y \in T : ~(<<y, n>> \in R)
  BY <1>2, WFMin
<1>4. \A k \in T : n <= k
  <2> TAKE k \in T
  <2>1. <<k, n>> \notin R /\ k \in Nat /\ n \in Nat
    BY <1>3
  <2>2. k < n => <<k, n>> \in R
    BY <2>1 DEF R
  <2> QED BY <2>1, <2>2
<1> QED BY <1>4

Picked(s) == CHOOSE x \in s : TRUE

Sums(g, U) ==
  \A s \in U : g[s] = IF s = {} THEN 0 ELSE Picked(s) + g[s \ {Picked(s)}]

\* The recursion has a solution for every finite set of integers, by a least
\* counterexample, and the sum is its value.
LEMMA SumSetSums ==
    ASSUME NEW S \in SUBSET Int, IsFiniteSet(S)
    PROVE  \E g \in [SUBSET S -> Int] : Sums(g, SUBSET S) /\ SumSet(S) = g[S]
<1> DEFINE Upto(n) == {s \in SUBSET S : Cardinality(s) <= n}
           G(n) == \E g \in [Upto(n) -> Int] : Sums(g, Upto(n))
           Bad == {n \in Nat : ~G(n)}
<1>0. \A s \in SUBSET S : IsFiniteSet(s) /\ Cardinality(s) \in Nat /\ (Cardinality(s) = 0 <=> s = {})
  BY FS_Subset, FS_CardinalityType, FS_EmptySet
<1>1. \A s \in SUBSET S : s # {} => /\ Picked(s) \in s /\ Picked(s) \in Int
                                    /\ s \ {Picked(s)} \in SUBSET S
                                    /\ Cardinality(s \ {Picked(s)}) = Cardinality(s) - 1
  <2> TAKE s \in SUBSET S
  <2> HAVE s # {}
  <2>1. Picked(s) \in s
    BY DEF Picked
  <2>2. IsFiniteSet(s)
    BY <1>0
  <2> QED BY <2>1, <2>2, FS_RemoveElement
<1>2. G(0)
  <2>1. Upto(0) = {{}}
    <3>1. \A s \in SUBSET S : Cardinality(s) <= 0 <=> s = {}
      BY <1>0
    <3>2. {} \in SUBSET S
      OBVIOUS
    <3> QED BY <3>1, <3>2
  <2>2. [s \in Upto(0) |-> 0] \in [Upto(0) -> Int]
    OBVIOUS
  <2>3. Sums([s \in Upto(0) |-> 0], Upto(0))
    BY <2>1 DEF Sums
  <2> QED BY <2>2, <2>3
<1>3. ASSUME NEW n \in Nat, G(n) PROVE G(n + 1)
  <2>1. PICK g \in [Upto(n) -> Int] : Sums(g, Upto(n))
    BY <1>3
  <2> DEFINE h == [s \in Upto(n + 1) |-> IF s = {} THEN 0 ELSE Picked(s) + g[s \ {Picked(s)}]]
  <2>2. \A s \in Upto(n + 1) : s # {} => s \ {Picked(s)} \in Upto(n)
    BY <1>0, <1>1
  <2>3. h \in [Upto(n + 1) -> Int]
    <3> SUFFICES ASSUME NEW s \in Upto(n + 1)
                 PROVE  (IF s = {} THEN 0 ELSE Picked(s) + g[s \ {Picked(s)}]) \in Int
      OBVIOUS
    <3>1. s # {} => Picked(s) \in Int /\ g[s \ {Picked(s)}] \in Int
      <4> HIDE DEF Upto
      <4>1. s \in SUBSET S
        BY DEF Upto
      <4> QED BY <4>1, <2>2, <1>1
    <3> QED BY <3>1
  <2>4. \A s \in Upto(n) : s \in Upto(n + 1) /\ h[s] = g[s]
    BY <2>1, <1>0 DEF Sums
  <2>5. Sums(h, Upto(n + 1))
    BY <2>2, <2>4, <2>3 DEF Sums
  <2> QED BY <2>3, <2>5
<1>4. Bad = {}
  <2> SUFFICES ASSUME Bad # {} PROVE FALSE
    OBVIOUS
  <2>1. PICK n \in Bad : \A k \in Bad : n <= k
    BY Least
  <2>2. n \in Nat /\ ~G(n)
    OBVIOUS
  <2>3. n # 0
    BY <1>2, <2>2
  <2>4. n - 1 \in Nat /\ n - 1 \notin Bad
    <3> HIDE DEF Bad
    <3>1. n - 1 \in Nat /\ ~(n <= n - 1)
      BY <2>2, <2>3
    <3> QED BY <2>1, <3>1
  <2>5. G(n - 1)
    BY <2>4
  <2>6. G((n - 1) + 1)
    <3> HIDE DEF G
    <3> QED BY <1>3, <2>4, <2>5
  <2>7. (n - 1) + 1 = n
    BY <2>2
  <2> QED BY <2>2, <2>6, <2>7
<1>5. G(Cardinality(S))
  BY <1>4, FS_CardinalityType
<1>6. Upto(Cardinality(S)) = SUBSET S
  BY FS_Subset
<1>7. PICK g \in [SUBSET S -> Int] : Sums(g, SUBSET S)
  BY <1>5, <1>6
<1> DEFINE Iter(f) == f = [s \in SUBSET S |-> IF s = {} THEN 0
                              ELSE Picked(s) + f[s \ {Picked(s)}]]
           iter == CHOOSE f : Iter(f)
<1>8. Iter(g)
  BY <1>7 DEF Sums
<1>9. Iter(iter)
  BY <1>8
<1>10. SumSet(S) = iter[S]
  BY DEF SumSet, FoldSet, MapThenFoldSet, Picked
<1>11. {n \in Nat : \E s \in SUBSET S : Cardinality(s) = n /\ iter[s] \notin Int} = {}
  <2> DEFINE T == {n \in Nat : \E s \in SUBSET S : Cardinality(s) = n /\ iter[s] \notin Int}
  <2> HIDE DEF iter
  <2> SUFFICES ASSUME T # {} PROVE FALSE
    OBVIOUS
  <2>1. PICK n \in T : \A k \in T : n <= k
    BY Least
  <2>2. PICK s \in SUBSET S : Cardinality(s) = n /\ iter[s] \notin Int
    OBVIOUS
  <2>3. iter[s] = IF s = {} THEN 0 ELSE Picked(s) + iter[s \ {Picked(s)}]
    BY <1>9
  <2>4. s # {}
    BY <2>2, <2>3
  <2>5. iter[s \ {Picked(s)}] \in Int
    <3>1. /\ s \ {Picked(s)} \in SUBSET S
          /\ Cardinality(s \ {Picked(s)}) = n - 1 /\ n - 1 \in Nat
      <4>1. Cardinality(s) = n /\ Cardinality(s) \in Nat /\ Cardinality(s) # 0
        BY <2>2, <2>4, <1>0
      <4>2. /\ s \ {Picked(s)} \in SUBSET S
            /\ Cardinality(s \ {Picked(s)}) = Cardinality(s) - 1
        BY <2>4, <1>1
      <4> QED BY <4>1, <4>2
    <3>2. ~(n <= n - 1)
      BY <3>1
    <3>3. n - 1 \notin T
      <4> HIDE DEF T
      <4> QED BY <2>1, <3>2
    <3> QED BY <3>1, <3>3
  <2>6. s # {} => Picked(s) \in Int
    BY <1>1
  <2> QED BY <2>2, <2>3, <2>4, <2>5, <2>6
<1>12. iter \in [SUBSET S -> Int]
  <2> HIDE DEF iter
  <2>1. \A s \in SUBSET S : iter[s] \in Int
    <3> TAKE s \in SUBSET S
    <3>1. Cardinality(s) \in Nat
      BY <1>0
    <3> QED BY <1>11, <3>1
  <2>2. iter = [s \in SUBSET S |-> iter[s]]
    BY <1>9
  <2> QED BY <2>1, <2>2
<1>13. Sums(iter, SUBSET S)
  <2> HIDE DEF iter
  <2> QED BY <1>9 DEF Sums
<1> QED BY <1>10, <1>12, <1>13

LEMMA SumSetTyped ==
    ASSUME NEW S \in SUBSET Int, IsFiniteSet(S)
    PROVE  SumSet(S) \in Int
<1>1. PICK g \in [SUBSET S -> Int] : Sums(g, SUBSET S) /\ SumSet(S) = g[S]
  BY SumSetSums
<1> QED BY <1>1

LEMMA FromBitsTyped ==
    ASSUME NEW ones \in SUBSET (0 .. 2 * W - 1)
    PROVE  FromBits(ones) \in Int
<1> DEFINE S == {2^k : k \in ones}
           power == [k \in ones |-> 2^k]
<1>1. 2 * W - 1 \in Int
  BY WidthAssumption
<1>2. IsFiniteSet(0 .. 2 * W - 1)
  BY <1>1, FS_Interval
<1>3. IsFiniteSet(ones)
  BY <1>2, FS_Subset
<1>4. S \in SUBSET Int
  <2>1. \A k \in Nat : 2^k \in Int
    OBVIOUS
  <2>2. ones \subseteq Nat
    BY <1>1
  <2> QED BY <2>1, <2>2
<1>5. power \in Surjection(ones, S)
  BY DEF Surjection
<1>6. IsFiniteSet(S)
  BY <1>3, <1>5, FS_Surjection
<1> QED BY <1>4, <1>6, SumSetTyped DEF FromBits

LEMMA BitwiseTyped ==
    \A x, y : And(x, y) \in Int /\ Or(x, y) \in Int /\ Xor(x, y) \in Int
BY FromBitsTyped DEF And, Or, Xor

-----------------------------------------------------------------------------
(***************************************************************************)
(* Accesses: what each leaves of the machine it is given.                  *)
(***************************************************************************)

\* Neither flags nor core have changed.
Quiet(k, w) == w.f = k.f /\ w.core = k.core

LEMMA ReturnsFacts ==
    ASSUME NEW k \in Machines, NEW x \in Int
    PROVE  LET w == Returns(k, x) IN
           /\ w \in Machines /\ Quiet(k, w) /\ w.r = k.r /\ w.left = k.left
           /\ Runs(k) => w.out = x
           /\ ~Runs(k) => w = k
BY DEF Returns, Machines, Quiet, Runs

LEMMA SetsFacts ==
    ASSUME NEW k \in Machines, NEW q \in 0 .. 7, NEW x \in Int
    PROVE  LET w == Sets(k, q, x) IN
           /\ w \in Machines /\ Quiet(k, w) /\ w.left = k.left /\ w.out = k.out
           /\ Runs(k) => w.r = [k.r EXCEPT ![q] = x % 2^(2 * W)]
           /\ ~Runs(k) => w = k
BY WordFacts DEF Sets, Machines, Quiet, Runs

LEMMA FlaggedFacts ==
    ASSUME NEW k \in Machines, NEW f \in Flags
    PROVE  LET w == Flagged(k, f) IN
           /\ w \in Machines /\ w.left = k.left /\ w.out = k.out /\ w.r = k.r /\ w.core = k.core
           /\ Runs(k) => w.f = f
           /\ ~Runs(k) => w = k
BY DEF Flagged, Machines, Runs

LEMMA LeavesFacts ==
    ASSUME NEW k \in Machines, NEW how \in Reasons \ {"no"}, k.out \in Long
    PROVE  LET w == Leaves(k, how) IN
           /\ w \in Machines /\ Quiet(k, w) /\ w.r = k.r /\ w.out = k.out /\ ~Runs(w)
           /\ Runs(k) => w.left = how
           /\ ~Runs(k) => w = k
BY DEF Leaves, Machines, Quiet, Runs

LEMMA AbortsFacts ==
    ASSUME NEW k \in Machines, NEW a \in Long, NEW how \in Reasons \ {"no"}
    PROVE  LET w == Aborts(k, a, how) IN
           /\ w \in Machines /\ Quiet(k, w) /\ w.r = k.r /\ ~Runs(w)
           /\ Runs(k) => w.left = how
           /\ ~Runs(k) => w = k
<1> DEFINE v == Returns(k, a)
<1>1. /\ v \in Machines /\ Quiet(k, v) /\ v.r = k.r /\ v.left = k.left
      /\ Runs(k) => v.out = a
      /\ ~Runs(k) => v = k
  BY ReturnsFacts, WordFacts
<1>2. v.out \in Long
  BY <1>1 DEF Machines
<1> HIDE DEF v
<1>3. /\ Leaves(v, how) \in Machines /\ Quiet(v, Leaves(v, how)) /\ Leaves(v, how).r = v.r
      /\ ~Runs(Leaves(v, how))
      /\ Runs(v) => Leaves(v, how).left = how
      /\ ~Runs(v) => Leaves(v, how) = v
  BY <1>1, <1>2, LeavesFacts
<1>4. Aborts(k, a, how) = Leaves(v, how)
  BY DEF Aborts, v
<1> QED BY <1>1, <1>3, <1>4 DEF Quiet, Runs

\* The state the accesses of a step depend on.
Surroundings == routine \in Routines

\* A text has words in it, whatever is fetched.
LEMMA TextTyped ==
    ASSUME Surroundings, NEW a, InText(a)
    PROVE  routine.text[Text(a)] \in TextWords
BY RoutinesAssumption DEF Surroundings, InText

LEMMA Read16Facts ==
    ASSUME Surroundings, NEW k \in Machines, NEW addr \in Int
    PROVE  LET w == Read16(k, addr) IN
           /\ w \in Machines /\ Quiet(k, w) /\ w.r = k.r
           /\ Runs(w) => Runs(k) /\ w.out \in Word /\ Page(addr % 2^W) \notin absent
           /\ Runs(k) /\ w.left = "fault" => Page(addr % 2^W) \in absent
           /\ ~Runs(k) => w = k
<1> DEFINE a == addr % 2^W
           w == Read16(k, addr)
<1>1. a \in Word /\ a \in Long
  BY WordFacts
<1> HIDE DEF a
<1>2. CASE Page(a) \in absent
  <2>1. w = Aborts(k, a, "fault")
    BY <1>2 DEF Read16, a
  <2> QED BY <1>1, <1>2, <2>1, AbortsFacts DEF Reasons, a
<1>3. CASE Page(a) \notin absent /\ a \in Cells
  <2>1. w = Returns(k, k.core[a]) /\ k.core[a] \in Word
    BY <1>3 DEF Read16, a, Machines
  <2> HIDE DEF w
  <2>2. k.core[a] \in Int
    BY <2>1, WordFacts
  <2> QED BY <1>3, <2>1, <2>2, ReturnsFacts DEF Runs, a, w
<1>4. CASE Page(a) \notin absent /\ a \notin Cells /\ a % 2 = 0 /\ InText(a)
  <2> DEFINE x == routine.text[Text(a)].n % 2^W
  <2>1. w = Returns(k, x)
    BY <1>4 DEF Read16, a
  <2>2. x \in Word
    BY <1>4, TextTyped, WordFacts DEF TextWords
  <2> HIDE DEF w, x
  <2>3. x \in Int
    BY <2>2, WordFacts
  <2>4. /\ w \in Machines /\ Quiet(k, w) /\ w.r = k.r /\ w.left = k.left
        /\ Runs(k) => w.out = x
        /\ ~Runs(k) => w = k
    BY <2>1, <2>3, ReturnsFacts
  <2>5. /\ Runs(w) => Runs(k) /\ w.out \in Word /\ Page(a) \notin absent
        /\ Runs(k) => w.left # "fault"
    BY <1>4, <2>2, <2>4 DEF Runs
  <2> QED BY <2>4, <2>5 DEF a, w
<1>5. CASE Page(a) \notin absent /\ a \notin Cells /\ ~(a % 2 = 0 /\ InText(a))
  <2>1. w = Aborts(k, a, "bus")
    BY <1>5 DEF Read16, a
  <2> QED BY <1>1, <2>1, AbortsFacts DEF Reasons
<1> QED BY <1>2, <1>3, <1>4, <1>5

\* A store that faults leaves everything as it was.
LEMMA Write16Facts ==
    ASSUME NEW k \in Machines, NEW addr \in Int, NEW x \in Int
    PROVE  LET w == Write16(k, addr, x) IN
           /\ w \in Machines /\ w.f = k.f /\ w.r = k.r
           /\ Runs(k) /\ w.left = "fault" => Quiet(k, w) /\ Page(addr % 2^W) \in absent
           /\ ~Runs(k) => w = k
<1> DEFINE a == addr % 2^W
           w == Write16(k, addr, x)
<1>1. a \in Word /\ a \in Long /\ x % 2^W \in Word
  BY WordFacts
<1> HIDE DEF a
<1>2. CASE Page(a) \in absent
  <2>1. w = Aborts(k, a, "fault")
    BY <1>2 DEF Write16, a
  <2> QED BY <1>1, <1>2, <2>1, AbortsFacts DEF Reasons, Quiet, a
<1>3. CASE Page(a) \notin absent /\ a \notin Cells
  <2>1. w = Aborts(k, a, "bus")
    BY <1>3 DEF Write16, a
  <2> HIDE DEF w
  <2>2. w \in Machines /\ w.f = k.f /\ w.r = k.r /\ (Runs(k) => w.left = "bus") /\ (~Runs(k) => w = k)
    BY <1>1, <2>1, AbortsFacts DEF Reasons, Quiet
  <2> QED BY <2>2 DEF w
<1>4. CASE Page(a) \notin absent /\ a \in Cells
  <2> DEFINE y == x % 2^W
  <2>1. w = IF Runs(k) THEN [k EXCEPT !.core[a] = y] ELSE k
    BY <1>4 DEF Write16, a
  <2>2. y \in Word
    BY <1>1
  <2> HIDE DEF w, y
  <2>3. w \in Machines /\ w.f = k.f /\ w.r = k.r /\ w.left = k.left /\ (~Runs(k) => w = k)
    BY <1>4, <2>1, <2>2 DEF Machines, Runs
  <2> QED BY <2>3 DEF Runs, w
<1> QED BY <1>2, <1>3, <1>4

LEMMA Read8Facts ==
    ASSUME Surroundings, NEW k \in Machines, NEW addr \in Int
    PROVE  LET w == Read8(k, addr) IN
           /\ w \in Machines /\ Quiet(k, w) /\ w.r = k.r
           /\ Runs(w) => Runs(k) /\ w.out \in Word
                         /\ Page((addr - (addr % 2)) % 2^W) \notin absent
           /\ ~Runs(k) => w = k
<1> DEFINE v == Read16(k, addr - (addr % 2))
           x == IF addr % 2 = 1 THEN v.out \div ByteSize ELSE v.out % ByteSize
<1>1. addr - (addr % 2) \in Int
  OBVIOUS
<1>2. /\ v \in Machines /\ Quiet(k, v) /\ v.r = k.r
      /\ Runs(v) => Runs(k) /\ v.out \in Word /\ Page((addr - (addr % 2)) % 2^W) \notin absent
      /\ ~Runs(k) => v = k
  BY <1>1, Read16Facts
<1>3. Read8(k, addr) = Returns(v, x)
  BY DEF Read8
<1> HIDE DEF v
<1>4. v.out \in Int
  BY <1>2 DEF Machines
<1>5. x \in Int /\ (v.out \in Word => x \in Word)
  BY <1>4, Powers DEF Word
<1> HIDE DEF x
<1>6. /\ Returns(v, x) \in Machines /\ Quiet(v, Returns(v, x))
      /\ Returns(v, x).r = v.r /\ Returns(v, x).left = v.left
      /\ Runs(v) => Returns(v, x).out = x
      /\ ~Runs(v) => Returns(v, x) = v
  BY <1>2, <1>5, ReturnsFacts
<1> QED BY <1>2, <1>3, <1>5, <1>6 DEF Quiet, Runs

LEMMA Write8Facts ==
    ASSUME Surroundings, NEW k \in Machines, NEW addr \in Int, NEW x \in Int
    PROVE  LET w == Write8(k, addr, x) IN
           /\ w \in Machines /\ w.f = k.f /\ w.r = k.r
           /\ Runs(k) /\ w.left = "fault" =>
                  Quiet(k, w) /\ Page((addr - (addr % 2)) % 2^W) \in absent
           /\ ~Runs(k) => w = k
<1> DEFINE a == addr - (addr % 2)
           v == Read16(k, a)
           b == x % ByteSize
           y == IF addr % 2 = 1 THEN b * ByteSize + (v.out % ByteSize)
                ELSE (v.out \div ByteSize) * ByteSize + b
           w == Write8(k, addr, x)
<1>1. a \in Int
  OBVIOUS
<1> HIDE DEF a
<1>2. /\ v \in Machines /\ Quiet(k, v) /\ v.r = k.r
      /\ Runs(v) => Runs(k) /\ Page(a % 2^W) \notin absent
      /\ Runs(k) /\ v.left = "fault" => Page(a % 2^W) \in absent
      /\ ~Runs(k) => v = k
  BY <1>1, Read16Facts
<1>3. w = Write16(v, a, y)
  BY DEF Write8, a
<1> HIDE DEF v
<1>4. v.out \in Int
  BY <1>2 DEF Machines
<1>5. y \in Int
  <2>1. b \in Int /\ v.out % ByteSize \in Int /\ v.out \div ByteSize \in Int
    BY <1>4, WordFacts
  <2>2. \A p, q \in Int : p * q \in Int
    OBVIOUS
  <2> HIDE DEF b
  <2> QED BY <2>1, <2>2, WordFacts
<1> HIDE DEF y
<1>6. /\ w \in Machines /\ w.f = v.f /\ w.r = v.r
      /\ Runs(v) /\ w.left = "fault" => Quiet(v, w) /\ Page(a % 2^W) \in absent
      /\ ~Runs(v) => w = v
  BY <1>1, <1>2, <1>3, <1>5, Write16Facts
<1> HIDE DEF w
<1>7. w.left = "fault" /\ Runs(k) => Page(a % 2^W) \in absent
  BY <1>2, <1>6 DEF Runs
<1>8. /\ w \in Machines /\ w.f = k.f /\ w.r = k.r
      /\ ~Runs(k) => w = k
      /\ Runs(k) /\ w.left = "fault" => Quiet(k, w)
  BY <1>2, <1>6 DEF Quiet, Runs
<1> QED BY <1>7, <1>8 DEF a, w

\* Registers are numbers.
LEMMA RegisterTyped ==
    ASSUME NEW k \in Machines, NEW q \in 0 .. 7
    PROVE  k.r[q] \in Long /\ k.r[q] \in Int
<1>1. k.r[q] \in Long
  BY DEF Machines
<1>2. Long \subseteq Int
  BY WordFacts
<1> QED BY <1>1, <1>2

\* What memread() can read at address a, or memwrite() write, does not fault.
Present(a, l) ==
    IsReg(a) \/ Page((IF l = 2 THEN a ELSE a - (a % 2)) % 2^W) \notin absent

LEMMA MemReadFacts ==
    ASSUME Surroundings, NEW k \in Machines, NEW a \in Int, NEW l \in {1, 2}
    PROVE  LET w == MemRead(k, a, l) IN
           /\ w \in Machines /\ Quiet(k, w) /\ w.r = k.r
           /\ Runs(w) => Runs(k) /\ w.out \in Word /\ Present(a, l)
           /\ ~Runs(k) => w = k
<1> DEFINE w == MemRead(k, a, l)
<1>1. CASE IsReg(a)
  <2> DEFINE x == k.r[a - Pseudo] % 2^Bits(l)
  <2>1. w = Returns(k, x)
    BY <1>1 DEF MemRead
  <2>2. a - Pseudo \in 0 .. 7
    BY <1>1, WordFacts DEF IsReg
  <2>3. k.r[a - Pseudo] \in Int
    BY <2>2, RegisterTyped
  <2>4. 2^Bits(l) = IF l = 2 THEN 2^W ELSE ByteSize
    BY DEF Bits, ByteSize
  <2>5. x \in Word
    BY <2>3, <2>4, Powers DEF Word
  <2> HIDE DEF w, x
  <2>6. x \in Int
    BY <2>5, WordFacts
  <2>7. /\ w \in Machines /\ Quiet(k, w) /\ w.r = k.r /\ w.left = k.left
        /\ Runs(k) => w.out = x
        /\ ~Runs(k) => w = k
    BY <2>1, <2>6, ReturnsFacts
  <2>8. Runs(w) => Runs(k) /\ w.out \in Word /\ Present(a, l)
    BY <1>1, <2>5, <2>7 DEF Runs, Present
  <2> QED BY <2>7, <2>8 DEF w
<1>2. CASE ~IsReg(a) /\ l = 2
  <2>1. w = Read16(k, a)
    BY <1>2 DEF MemRead
  <2> QED BY <1>2, <2>1, Read16Facts DEF Present
<1>3. CASE ~IsReg(a) /\ l = 1
  <2>1. w = Read8(k, a)
    BY <1>3 DEF MemRead
  <2> HIDE DEF w
  <2>2. /\ w \in Machines /\ Quiet(k, w) /\ w.r = k.r
        /\ Runs(w) => Runs(k) /\ w.out \in Word
                      /\ Page((a - (a % 2)) % 2^W) \notin absent
        /\ ~Runs(k) => w = k
    BY <2>1, Read8Facts
  <2> QED BY <1>3, <2>2 DEF Present, w
<1> QED BY <1>1, <1>2, <1>3

LEMMA MemWriteFacts ==
    ASSUME Surroundings, NEW k \in Machines, NEW a \in Int, NEW l \in {1, 2}, NEW x \in Int
    PROVE  LET w == MemWrite(k, a, l, x) IN
           /\ w \in Machines /\ w.f = k.f
           /\ Runs(k) /\ w.left = "fault" => Quiet(k, w) /\ w.r = k.r /\ ~Present(a, l)
           /\ ~Runs(k) => w = k
<1> DEFINE w == MemWrite(k, a, l, x)
<1>1. CASE IsReg(a)
  <2> DEFINE old == k.r[a - Pseudo] % 2^W
             y == IF l = 2 THEN x ELSE (old \div ByteSize) * ByteSize + x
  <2>1. w = Sets(k, a - Pseudo, y)
    BY <1>1 DEF MemWrite
  <2>2. a - Pseudo \in 0 .. 7
    BY <1>1, WordFacts DEF IsReg
  <2>3. k.r[a - Pseudo] \in Int
    BY <2>2, RegisterTyped
  <2>4. old \div ByteSize \in Int
    BY <2>3, Powers
  <2>5. \A p, q \in Int : p * q \in Int
    OBVIOUS
  <2> HIDE DEF old
  <2>6. y \in Int
    BY <2>4, <2>5, WordFacts
  <2> HIDE DEF w, y
  <2>7. /\ w \in Machines /\ Quiet(k, w) /\ w.left = k.left
        /\ ~Runs(k) => w = k
    BY <2>1, <2>2, <2>6, SetsFacts
  <2> QED BY <2>7 DEF w, Runs, Quiet
<1>2. CASE ~IsReg(a) /\ l = 2
  <2>1. w = Write16(k, a, x)
    BY <1>2 DEF MemWrite
  <2> QED BY <1>2, <2>1, Write16Facts DEF Present
<1>3. CASE ~IsReg(a) /\ l = 1
  <2>1. w = Write8(k, a, x)
    BY <1>3 DEF MemWrite
  <2> QED BY <1>3, <2>1, Write8Facts DEF Present
<1> QED BY <1>1, <1>2, <1>3

LEMMA Fetch16Facts ==
    ASSUME Surroundings, NEW k \in Machines
    PROVE  LET w == Fetch16(k) IN
           /\ w \in Machines /\ Quiet(k, w)
           /\ \A q \in 0 .. SP : w.r[q] = k.r[q]
           /\ Runs(w) => Runs(k) /\ w.out \in Word
           /\ ~Runs(k) => w = k
<1> DEFINE v == Read16(k, k.r[PC])
           w == Fetch16(k)
<1>1. PC \in 0 .. 7 /\ k.r[PC] \in Int /\ k.r[PC] + 2 \in Int
  BY RegisterTyped DEF PC
<1>2. /\ v \in Machines /\ Quiet(k, v) /\ v.r = k.r
      /\ Runs(v) => Runs(k) /\ v.out \in Word
      /\ ~Runs(k) => v = k
  BY <1>1, Read16Facts
<1>3. PICK p \in 0 .. 7, x \in Int :
          p = PC /\ x = k.r[PC] + 2 /\ w = Sets(v, p, x)
  BY <1>1 DEF Fetch16
<1> HIDE DEF v, w
<1>4. /\ w \in Machines /\ Quiet(v, w) /\ w.left = v.left /\ w.out = v.out
      /\ Runs(v) => w.r = [v.r EXCEPT ![p] = x % 2^(2 * W)]
      /\ ~Runs(v) => w = v
  BY <1>2, <1>3, SetsFacts, SMTT(60)
<1>5. \A q \in 0 .. SP : w.r[q] = k.r[q]
  BY <1>2, <1>3, <1>4 DEF SP, PC, Machines
<1> QED BY <1>2, <1>4, <1>5 DEF w, Quiet, Runs

LEMMA PushFacts ==
    ASSUME Surroundings, NEW k \in Machines, NEW x \in Int
    PROVE  LET w == Push(k, x) IN
           /\ w \in Machines /\ w.f = k.f
           /\ Runs(k) /\ w.left = "fault" =>
                  Quiet(k, w) /\ w.r = [k.r EXCEPT ![SP] = (k.r[SP] - 2) % 2^(2 * W)]
           /\ ~Runs(k) => w = k
<1> DEFINE v == Sets(k, SP, k.r[SP] - 2)
           w == Push(k, x)
<1>1. SP \in 0 .. 7 /\ k.r[SP] - 2 \in Int
  BY RegisterTyped DEF SP
<1>2. w = Write16(v, v.r[SP], x)
  BY DEF Push
<1>3. /\ v \in Machines /\ Quiet(k, v) /\ v.left = k.left
      /\ Runs(k) => v.r = [k.r EXCEPT ![SP] = (k.r[SP] - 2) % 2^(2 * W)]
      /\ ~Runs(k) => v = k
  <2>1. PICK p \in 0 .. 7, y \in Int :
            p = SP /\ y = k.r[SP] - 2 /\ v = Sets(k, p, y)
    BY <1>1
  <2> HIDE DEF v
  <2>2. /\ v \in Machines /\ Quiet(k, v) /\ v.left = k.left
        /\ Runs(k) => v.r = [k.r EXCEPT ![p] = y % 2^(2 * W)]
        /\ ~Runs(k) => v = k
    BY <2>1, SetsFacts
  <2> QED BY <2>1, <2>2
<1> HIDE DEF v, w
<1>4. v.r[SP] \in Int
  BY <1>1, <1>3, RegisterTyped
<1>5. /\ w \in Machines /\ w.f = v.f /\ w.r = v.r
      /\ Runs(v) /\ w.left = "fault" => Quiet(v, w)
      /\ ~Runs(v) => w = v
  BY <1>3, <1>2, <1>4, Write16Facts
<1> QED BY <1>3, <1>5 DEF w, Quiet, Runs

LEMMA PopFacts ==
    ASSUME Surroundings, NEW k \in Machines
    PROVE  LET w == Pop(k) IN
           /\ w \in Machines /\ Quiet(k, w)
           /\ Runs(w) => /\ Runs(k) /\ w.out \in Word
                         /\ w.r = [k.r EXCEPT ![SP] = (k.r[SP] + 2) % 2^(2 * W)]
           /\ ~Runs(w) => w.r = k.r
           /\ ~Runs(k) => w = k
<1> DEFINE v == Read16(k, k.r[SP])
           w == Pop(k)
<1>1. SP \in 0 .. 7 /\ k.r[SP] \in Int /\ k.r[SP] + 2 \in Int
  BY RegisterTyped DEF SP
<1>2. /\ v \in Machines /\ Quiet(k, v) /\ v.r = k.r
      /\ Runs(v) => Runs(k) /\ v.out \in Word
      /\ ~Runs(k) => v = k
  BY <1>1, Read16Facts
<1>3. PICK p \in 0 .. 7, x \in Int :
          p = SP /\ x = k.r[SP] + 2 /\ w = Sets(v, p, x)
  BY <1>1 DEF Pop
<1> HIDE DEF v, w
<1>4. /\ w \in Machines /\ Quiet(v, w) /\ w.left = v.left /\ w.out = v.out
      /\ Runs(v) => w.r = [v.r EXCEPT ![p] = x % 2^(2 * W)]
      /\ ~Runs(v) => w = v
  BY <1>2, <1>3, SetsFacts, SMTT(60)
<1> QED BY <1>2, <1>3, <1>4 DEF w, Quiet, Runs

LEMMA DeferredFacts ==
    ASSUME Surroundings, NEW k \in Machines, NEW o
    PROVE  LET w == Deferred(k, o) IN
           /\ w \in Machines /\ Quiet(k, w) /\ w.r = k.r
           /\ Runs(w) => Runs(k) /\ w.out \in Word
           /\ ~Runs(k) => w = k
<1> DEFINE w == Deferred(k, o)
<1>1. k.out \in Int
  BY DEF Machines
<1>4. k.out % 2^W \in Word /\ Word \subseteq Int
  BY <1>1, WordFacts
<1>2. CASE o.mode % 2 = 1
  <2>1. w = Read16(k, k.out)
    BY <1>2 DEF Deferred
  <2> QED BY <1>1, <2>1, Read16Facts
<1>3. CASE o.mode % 2 # 1
  <2>1. w = Returns(k, k.out % 2^W)
    BY <1>3 DEF Deferred
  <2> HIDE DEF w
  <2>2. /\ w \in Machines /\ Quiet(k, w) /\ w.r = k.r /\ w.left = k.left
        /\ Runs(k) => w.out = k.out % 2^W
        /\ ~Runs(k) => w = k
    BY <1>4, <2>1, ReturnsFacts
  <2> QED BY <1>4, <2>2 DEF w, Runs
<1> QED BY <1>2, <1>3

\* From k to w the registers but PC have moved for operand o, or not yet.
MovedFor(k, w, o, l) ==
    \A q \in 0 .. SP : \E x \in MovesFor(o, l, q) : w.r[q] = (k.r[q] + x) % 2^(2 * W)

LEMMA NotMoved ==
    ASSUME NEW k \in Machines, NEW w, NEW o, NEW l, \A q \in 0 .. SP : w.r[q] = k.r[q]
    PROVE  MovedFor(k, w, o, l)
<1> SUFFICES ASSUME NEW q \in 0 .. SP
             PROVE  \E x \in MovesFor(o, l, q) : w.r[q] = (k.r[q] + x) % 2^(2 * W)
  BY DEF MovedFor
<1>1. 0 \in MovesFor(o, l, q)
  BY DEF MovesFor
<1>2. k.r[q] \in Long
  BY RegisterTyped DEF SP
<1>3. k.r[q] = (k.r[q] + 0) % 2^(2 * W)
  BY <1>2, WordFacts
<1> QED BY <1>1, <1>3

LEMMA StrideMoved ==
    ASSUME NEW k \in Machines, NEW w, NEW o \in Operands, NEW l, NEW x,
           \/ o.mode \in {2, 3} /\ x = Stride(o, l)
           \/ o.mode \in {4, 5} /\ x = -Stride(o, l),
           w.r = [k.r EXCEPT ![o.reg] = (k.r[o.reg] + x) % 2^(2 * W)]
    PROVE  MovedFor(k, w, o, l)
<1> SUFFICES ASSUME NEW q \in 0 .. SP
             PROVE  \E y \in MovesFor(o, l, q) : w.r[q] = (k.r[q] + y) % 2^(2 * W)
  BY DEF MovedFor
<1>1. CASE q = o.reg
  <2>1. x \in MovesFor(o, l, q)
    BY <1>1 DEF MovesFor
  <2>2. w.r[q] = (k.r[q] + x) % 2^(2 * W)
    BY <1>1 DEF SP, Machines
  <2> QED BY <2>1, <2>2
<1>2. CASE q # o.reg
  <2>1. 0 \in MovesFor(o, l, q)
    BY DEF MovesFor
  <2>2. w.r[q] = k.r[q] /\ k.r[q] \in Long
    BY <1>2, RegisterTyped DEF SP, Machines
  <2>3. k.r[q] = (k.r[q] + 0) % 2^(2 * W)
    BY <2>2, WordFacts
  <2> QED BY <2>1, <2>2, <2>3
<1> QED BY <1>1, <1>2

LEMMA AgetFacts ==
    ASSUME Surroundings, NEW k \in Machines, NEW o \in Operands, NEW l \in {1, 2}
    PROVE  LET w == Aget(k, o, l) IN
           /\ w \in Machines /\ Quiet(k, w) /\ MovedFor(k, w, o, l)
           /\ Runs(w) => Runs(k) /\ w.out \in Word
           /\ ~Runs(k) => w = k
<1> DEFINE base == k.r[o.reg]
           w == Aget(k, o, l)
<1>1. o.reg \in 0 .. 7 /\ o.mode \in 0 .. 7 /\ base \in Int /\ Stride(o, l) \in Int
  BY RegisterTyped DEF Operands, Stride
<1> HIDE DEF base
<1>2. CASE o.mode \in {0, 1}
  <2> DEFINE x == IF o.mode = 0 THEN Pseudo + o.reg ELSE base % 2^W
  <2>1. w = Returns(k, x)
    BY <1>2 DEF Aget, base
  <2>2. x \in Word /\ Word \subseteq Int
    BY <1>1, WordFacts
  <2> HIDE DEF w, x
  <2>3. /\ w \in Machines /\ Quiet(k, w) /\ w.r = k.r /\ w.left = k.left
        /\ Runs(k) => w.out = x
        /\ ~Runs(k) => w = k
    BY <2>1, <2>2, ReturnsFacts
  <2>4. MovedFor(k, w, o, l)
    BY <2>3, NotMoved
  <2> QED BY <2>2, <2>3, <2>4 DEF w, Runs
<1>3. CASE o.mode \in {2, 3}
  <2> DEFINE v == Returns(k, base)
             u == Sets(v, o.reg, base + Stride(o, l))
  <2>1. w = Deferred(u, o)
    BY <1>3 DEF Aget, base
  <2>2. /\ v \in Machines /\ Quiet(k, v) /\ v.r = k.r /\ v.left = k.left
        /\ ~Runs(k) => v = k
    BY <1>1, ReturnsFacts
  <2> HIDE DEF v
  <2>3. /\ u \in Machines /\ Quiet(v, u) /\ u.left = v.left
        /\ Runs(v) => u.r = [v.r EXCEPT ![o.reg] = (base + Stride(o, l)) % 2^(2 * W)]
        /\ ~Runs(v) => u = v
    <3>1. PICK p \in 0 .. 7, x \in Int :
              p = o.reg /\ x = base + Stride(o, l) /\ u = Sets(v, p, x)
      BY <1>1
    <3>2. v \in Machines
      BY <2>2
    <3> HIDE DEF u
    <3>3. /\ u \in Machines /\ Quiet(v, u) /\ u.left = v.left
          /\ Runs(v) => u.r = [v.r EXCEPT ![p] = x % 2^(2 * W)]
          /\ ~Runs(v) => u = v
      BY <3>1, <3>2, SetsFacts, SMTT(60)
    <3> QED BY <3>1, <3>3
  <2> HIDE DEF u, w
  <2>4. /\ w \in Machines /\ Quiet(u, w) /\ w.r = u.r
        /\ Runs(w) => Runs(u) /\ w.out \in Word
        /\ ~Runs(u) => w = u
    BY <2>1, <2>3, DeferredFacts
  <2>5. MovedFor(k, w, o, l)
    <3>1. CASE Runs(k)
      <4>1. w.r = [k.r EXCEPT ![o.reg] = (k.r[o.reg] + Stride(o, l)) % 2^(2 * W)]
        BY <2>2, <2>3, <2>4, <3>1 DEF Runs, base
      <4> QED BY <1>3, <4>1, StrideMoved
    <3>2. CASE ~Runs(k)
      <4>1. w.r = k.r
        BY <2>2, <2>3, <2>4, <3>2
      <4> QED BY <4>1, NotMoved
    <3> QED BY <3>1, <3>2
  <2> QED BY <2>2, <2>3, <2>4, <2>5 DEF w, Quiet, Runs
<1>4. CASE o.mode \in {4, 5}
  <2> DEFINE v == Sets(k, o.reg, base - Stride(o, l))
             u == Returns(v, v.r[o.reg])
  <2>1. w = Deferred(u, o)
    BY <1>4 DEF Aget, base
  <2>2. /\ v \in Machines /\ Quiet(k, v) /\ v.left = k.left
        /\ Runs(k) => v.r = [k.r EXCEPT ![o.reg] = (base - Stride(o, l)) % 2^(2 * W)]
        /\ ~Runs(k) => v = k
    <3>1. PICK p \in 0 .. 7, x \in Int :
              p = o.reg /\ x = base - Stride(o, l) /\ v = Sets(k, p, x)
      BY <1>1
    <3> HIDE DEF v
    <3>2. /\ v \in Machines /\ Quiet(k, v) /\ v.left = k.left
          /\ Runs(k) => v.r = [k.r EXCEPT ![p] = x % 2^(2 * W)]
          /\ ~Runs(k) => v = k
      BY <3>1, SetsFacts, SMTT(60)
    <3> QED BY <3>1, <3>2
  <2> HIDE DEF v
  <2>3. v.r[o.reg] \in Int
    BY <1>1, <2>2, RegisterTyped
  <2>4. /\ u \in Machines /\ Quiet(v, u) /\ u.r = v.r /\ u.left = v.left
        /\ ~Runs(v) => u = v
    BY <2>2, <2>3, ReturnsFacts
  <2> HIDE DEF u, w
  <2>5. /\ w \in Machines /\ Quiet(u, w) /\ w.r = u.r
        /\ Runs(w) => Runs(u) /\ w.out \in Word
        /\ ~Runs(u) => w = u
    BY <2>1, <2>4, DeferredFacts
  <2>6. MovedFor(k, w, o, l)
    <3>1. CASE Runs(k)
      <4>1. base - Stride(o, l) = k.r[o.reg] + (-Stride(o, l))
        BY <1>1 DEF base
      <4>2. w.r = [k.r EXCEPT ![o.reg] = (k.r[o.reg] + (-Stride(o, l))) % 2^(2 * W)]
        BY <2>2, <2>4, <2>5, <3>1, <4>1
      <4> QED BY <1>4, <4>2, StrideMoved
    <3>2. CASE ~Runs(k)
      <4>1. w.r = k.r
        BY <2>2, <2>4, <2>5, <3>2
      <4> QED BY <4>1, NotMoved
    <3> QED BY <3>1, <3>2
  <2> QED BY <2>2, <2>4, <2>5, <2>6 DEF w, Quiet, Runs
<1>5. CASE o.mode \in {6, 7}
  <2> DEFINE v == Fetch16(k)
             u == Returns(v, v.out + v.r[o.reg])
  <2>1. w = Deferred(u, o)
    BY <1>5 DEF Aget
  <2>2. /\ v \in Machines /\ Quiet(k, v)
        /\ \A q \in 0 .. SP : v.r[q] = k.r[q]
        /\ Runs(v) => Runs(k)
        /\ ~Runs(k) => v = k
    BY Fetch16Facts
  <2> HIDE DEF v
  <2>3. v.out + v.r[o.reg] \in Int
    <3>1. v.out \in Int
      BY <2>2 DEF Machines
    <3> QED BY <1>1, <2>2, <3>1, RegisterTyped
  <2>4. /\ u \in Machines /\ Quiet(v, u) /\ u.r = v.r /\ u.left = v.left
        /\ ~Runs(v) => u = v
    BY <2>2, <2>3, ReturnsFacts
  <2> HIDE DEF u, w
  <2>5. /\ w \in Machines /\ Quiet(u, w) /\ w.r = u.r
        /\ Runs(w) => Runs(u) /\ w.out \in Word
        /\ ~Runs(u) => w = u
    BY <2>1, <2>4, DeferredFacts
  <2>6. MovedFor(k, w, o, l)
    BY <2>2, <2>4, <2>5, NotMoved
  <2> QED BY <2>2, <2>4, <2>5, <2>6 DEF w, Quiet, Runs
<1> QED BY <1>1, <1>2, <1>3, <1>4, <1>5

-----------------------------------------------------------------------------
(***************************************************************************)
(* What the instructions compute has a value and flags.                    *)
(***************************************************************************)
Results == [val : Int, f : Flags, store : BOOLEAN]
LongResults == [hi : Int, lo : Int, f : Flags, store : BOOLEAN]

LEMMA ResultTyped ==
    ASSUME NEW val \in Int, NEW n \in BOOLEAN, NEW z \in BOOLEAN,
           NEW v \in BOOLEAN, NEW c \in BOOLEAN
    PROVE  /\ Result(val, n, z, v, c) \in Results
           /\ FlagsOnly(Result(val, n, z, v, c)) \in Results
BY DEF Result, FlagsOnly, Results, Flags

LEMMA SignTyped == \A x, l : Sign(x, l) \in BOOLEAN
BY DEF Sign, Bit

LEMMA WidthTyped ==
    ASSUME NEW l \in {1, 2}
    PROVE  2^Bits(l) \in Nat \ {0} /\ SignBit(l) \in Int /\ 2^W \in Nat \ {0}
<1>1. CASE l = 2
  BY <1>1, Powers DEF Bits, SignBit
<1>2. CASE l = 1
  <2>1. CASE W = 8
    BY <1>2, <2>1 DEF Bits, SignBit
  <2>2. CASE W = 16
    BY <1>2, <2>2 DEF Bits, SignBit
  <2> QED BY <2>1, <2>2, WidthAssumption
<1> QED BY <1>1, <1>2

LEMMA LogicalTyped ==
    ASSUME NEW x \in Int, NEW l, NEW f \in Flags
    PROVE  Logical(x, l, f) \in Results /\ FlagsOnly(Logical(x, l, f)) \in Results
BY ResultTyped, SignTyped DEF Logical, Flags

LEMMA CompareTyped ==
    ASSUME NEW a \in Int, NEW b \in Int, NEW l \in {1, 2}, NEW f
    PROVE  CMP(a, b, l, f) \in Results
<1> DEFINE d == (a - b) % 2^Bits(l)
           n == Sign(d, l)
           z == d = 0
           v == Sign(a, l) # Sign(b, l) /\ Sign(b, l) = Sign(d, l)
           c == a < b
<1>0. PICK M \in Nat \ {0} : M = 2^Bits(l)
  BY WidthTyped
<1>1. d \in Int
  BY <1>0
<1>2. n \in BOOLEAN /\ z \in BOOLEAN /\ v \in BOOLEAN /\ c \in BOOLEAN
  BY SignTyped
<1>3. CMP(a, b, l, f) = FlagsOnly(Result(d, n, z, v, c))
  BY DEF CMP
<1> HIDE DEF d, n, z, v, c
<1> QED BY <1>1, <1>2, <1>3, ResultTyped

LEMMA Computed2Typed ==
    ASSUME NEW op \in TwoOperands, NEW a \in Word, NEW b \in Word,
           NEW l \in {1, 2}, NEW f \in Flags
    PROVE  Computed2(op, a, b, l, f) \in Results
<1>1. a \in Int /\ b \in Int
  BY WordFacts
<1>2. PICK M \in Nat \ {0} : M = 2^Bits(l)
  BY WidthTyped
<1>3. PICK N \in Nat \ {0} : N = 2^W
  BY WidthTyped
<1>5. CMP(a, b, l, f) \in Results
  BY <1>1, CompareTyped
<1>6. BIT(a, b, l, f) \in Results
  BY LogicalTyped, BitwiseTyped DEF BIT
<1>7. BIC(a, b, l, f) \in Results
  BY LogicalTyped, BitwiseTyped DEF BIC
<1>8. BIS(a, b, l, f) \in Results
  BY LogicalTyped, BitwiseTyped DEF BIS
<1>9. ADD(a, b, l, f) \in Results
  <2> DEFINE u == (a + b) % 2^W
             n == Sign(u, 2)
             z == u = 0
             v == Sign(a, 2) = Sign(b, 2) /\ Sign(b, 2) # Sign(u, 2)
             c == a + b >= 2^W
  <2>1. u \in Int
    BY <1>1, <1>3
  <2>2. n \in BOOLEAN /\ z \in BOOLEAN /\ v \in BOOLEAN /\ c \in BOOLEAN
    BY SignTyped
  <2>3. ADD(a, b, l, f) = Result(u, n, z, v, c)
    BY DEF ADD
  <2> HIDE DEF u, n, z, v, c
  <2> QED BY <2>1, <2>2, <2>3, ResultTyped
<1>10. SUB(a, b, l, f) \in Results
  <2> DEFINE d == (b - a) % 2^W
             n == Sign(d, 2)
             z == d = 0
             v == Sign(a, 2) # Sign(b, 2) /\ Sign(a, 2) = Sign(d, 2)
             c == a > b
  <2>1. d \in Int
    BY <1>1, <1>3
  <2>2. n \in BOOLEAN /\ z \in BOOLEAN /\ v \in BOOLEAN /\ c \in BOOLEAN
    BY SignTyped
  <2>3. SUB(a, b, l, f) = Result(d, n, z, v, c)
    BY DEF SUB
  <2> HIDE DEF d, n, z, v, c
  <2> QED BY <2>1, <2>2, <2>3, ResultTyped
<1> QED BY <1>5, <1>6, <1>7, <1>8, <1>9, <1>10 DEF Computed2, TwoOperands

LEMMA Computed1Typed ==
    ASSUME NEW op \in OneOperand, NEW x \in Word, NEW l \in {1, 2}, NEW f \in Flags
    PROVE  Computed1(op, x, l, f) \in Results
<1>1. x \in Int /\ f.c \in BOOLEAN /\ f.z \in BOOLEAN
  BY WordFacts DEF Flags
<1>2. PICK M \in Nat \ {0} : M = 2^Bits(l)
  BY WidthTyped
<1>3. PICK N \in Nat \ {0} : N = 2^W
  BY WidthTyped
<1>4. SignBit(l) \in Int
  BY WidthTyped
<1>5. \A y \in Int : y % M \in Int /\ y \div 2 \in Int
  OBVIOUS
<1>6. COM(x, l, f) \in Results
  BY ResultTyped, SignTyped, BitwiseTyped DEF COM
<1>7. INC(x, l, f) \in Results
  <2> DEFINE u == (x + 1) % 2^Bits(l)
             n == Sign(u, l)
             z == u = 0
             v == Sign(u, l)
             c == f.c
  <2>1. u \in Int
    BY <1>1, <1>2
  <2>2. n \in BOOLEAN /\ z \in BOOLEAN /\ v \in BOOLEAN /\ c \in BOOLEAN
    BY <1>1, SignTyped
  <2>3. INC(x, l, f) = Result(u, n, z, v, c)
    BY DEF INC
  <2> HIDE DEF u, n, z, v, c
  <2> QED BY <2>1, <2>2, <2>3, ResultTyped
<1>8. DEC(x, l, f) \in Results
  <2> DEFINE u == (x - 1) % 2^Bits(l)
             n == Sign(u, l)
             z == u = 0
             v == u = SignBit(l) - 1
             c == f.c
  <2>1. u \in Int
    BY <1>1, <1>2
  <2>2. n \in BOOLEAN /\ z \in BOOLEAN /\ v \in BOOLEAN /\ c \in BOOLEAN
    BY <1>1, SignTyped
  <2>3. DEC(x, l, f) = Result(u, n, z, v, c)
    BY DEF DEC
  <2> HIDE DEF u, n, z, v, c
  <2> QED BY <2>1, <2>2, <2>3, ResultTyped
<1>9. NEG(x, l, f) \in Results
  <2> DEFINE u == (-x) % 2^Bits(l)
             n == Sign(u, l)
             z == u = 0
             v == u = 2^(W - 1)
             c == u # 0
  <2>1. u \in Int
    BY <1>1, <1>2
  <2>2. n \in BOOLEAN /\ z \in BOOLEAN /\ v \in BOOLEAN /\ c \in BOOLEAN
    BY <1>1, SignTyped
  <2>3. NEG(x, l, f) = Result(u, n, z, v, c)
    BY DEF NEG
  <2> HIDE DEF u, n, z, v, c
  <2> QED BY <2>1, <2>2, <2>3, ResultTyped
<1>10. ADC(x, l, f) \in Results
  <2> DEFINE u == IF f.c THEN (x + 1) % 2^Bits(l) ELSE x
             n == Sign(u, l)
             z == u = 0
             v == f.c /\ x = 2^(W - 1) - 1
             c == f.c /\ x = 2^W - 1
  <2>1. u \in Int
    BY <1>1, <1>2
  <2>2. n \in BOOLEAN /\ z \in BOOLEAN /\ v \in BOOLEAN /\ c \in BOOLEAN
    BY <1>1, SignTyped
  <2>3. ADC(x, l, f) = [Result(u, n, z, v, c) EXCEPT !.store = f.c]
    BY DEF ADC
  <2> HIDE DEF u, n, z, v, c
  <2>4. Result(u, n, z, v, c) \in Results
    BY <2>1, <2>2, ResultTyped
  <2> QED BY <1>1, <2>3, <2>4 DEF Results
<1>11. SBC(x, l, f) \in Results
  <2> DEFINE d == x - (IF f.c THEN 1 ELSE 0)
             u == d % 2^Bits(l)
             n == Sign(d, 2)
             z == d = 0
             v == x = 2^(W - 1)
             c == f.c /\ x = 0
  <2>1. d \in Int
    BY <1>1
  <2>2. u \in Int
    BY <1>2, <2>1
  <2>3. n \in BOOLEAN /\ z \in BOOLEAN /\ v \in BOOLEAN /\ c \in BOOLEAN
    BY <1>1, SignTyped
  <2>4. SBC(x, l, f) = Result(u, n, z, v, c)
    BY DEF SBC
  <2> HIDE DEF d, u, n, z, v, c
  <2> QED BY <2>2, <2>3, <2>4, ResultTyped
<1>12. TST(x, l, f) \in Results
  BY <1>1, ResultTyped, SignTyped DEF TST
<1>13. ROR(x, l, f) \in Results
  <2> DEFINE u == x \div 2 + (IF f.c THEN SignBit(l) ELSE 0)
             c == x % 2 = 1
             n == Sign(u, l)
             z == f.z \/ u = 0
             v == Sign(u, l) # c
  <2>1. u \in Int
    BY <1>1, <1>4, <1>5
  <2>2. n \in BOOLEAN /\ z \in BOOLEAN /\ v \in BOOLEAN /\ c \in BOOLEAN
    BY <1>1, SignTyped
  <2>3. ROR(x, l, f) = Result(u, n, z, v, c)
    BY DEF ROR
  <2> HIDE DEF u, c, n, z, v
  <2> QED BY <2>1, <2>2, <2>3, ResultTyped
<1>14. ROL(x, l, f) \in Results
  <2> DEFINE s == 2 * x + (IF f.c THEN 1 ELSE 0)
             u == IF l = 2 THEN s ELSE s % 2^Bits(1)
             n == Sign(u, l)
             z == f.z \/ u = 0
             v == Sign(u, l) # Sign(x, l)
             c == Sign(x, l)
  <2>1. s \in Int
    BY <1>1
  <2>2. 2^Bits(1) \in Nat \ {0}
    BY WidthTyped
  <2>3. u \in Int
    BY <2>1, <2>2
  <2>4. n \in BOOLEAN /\ z \in BOOLEAN /\ v \in BOOLEAN /\ c \in BOOLEAN
    BY <1>1, SignTyped
  <2>5. ROL(x, l, f) = Result(u, n, z, v, c)
    BY DEF ROL
  <2> HIDE DEF s, u, n, z, v, c
  <2> QED BY <2>3, <2>4, <2>5, ResultTyped
<1>15. ASR(x, l, f) \in Results
  <2> DEFINE u == x \div 2 + (IF Sign(x, l) THEN SignBit(l) ELSE 0)
             c == u % 2 = 1
             n == Sign(u, l)
             z == u = 0
             v == Sign(u, l) # c
  <2>1. u \in Int
    BY <1>1, <1>4, <1>5
  <2>2. n \in BOOLEAN /\ z \in BOOLEAN /\ v \in BOOLEAN /\ c \in BOOLEAN
    BY <1>1, SignTyped
  <2>3. ASR(x, l, f) = Result(u, n, z, v, c)
    BY DEF ASR
  <2> HIDE DEF u, c, n, z, v
  <2> QED BY <2>1, <2>2, <2>3, ResultTyped
<1>16. ASL(x, l, f) \in Results
  <2> DEFINE u == (2 * x) % 2^Bits(l)
             n == Sign(u, l)
             z == u = 0
             v == Sign(u, l) # Sign(x, l)
             c == Sign(x, l)
  <2>1. u \in Int
    BY <1>1, <1>2
  <2>2. n \in BOOLEAN /\ z \in BOOLEAN /\ v \in BOOLEAN /\ c \in BOOLEAN
    BY <1>1, SignTyped
  <2>3. ASL(x, l, f) = Result(u, n, z, v, c)
    BY DEF ASL
  <2> HIDE DEF u, n, z, v, c
  <2> QED BY <2>1, <2>2, <2>3, ResultTyped
<1>17. SWAB(x, l, f) \in Results
  <2>1. PICK b \in Nat \ {0} : b = 2^(W \div 2)
    BY WordFacts DEF ByteSize
  <2>2. PICK u \in Int : u = x \div b + (x % b) * b
    BY <1>1
  <2> QED BY <1>1, <2>1, <2>2, ResultTyped, SignTyped DEF SWAB
<1> QED BY <1>6, <1>7, <1>8, <1>9, <1>10, <1>11, <1>12, <1>13, <1>14, <1>15, <1>16, <1>17
       DEF Computed1, OneOperand

-----------------------------------------------------------------------------
(***************************************************************************)
(* An instruction that has been left does nothing more.                    *)
(***************************************************************************)
LEMMA LeftFacts ==
    ASSUME NEW k, ~Runs(k), NEW a, NEW x, NEW f, NEW q, NEW l
    PROVE  /\ Returns(k, x) = k /\ Sets(k, q, x) = k /\ Flagged(k, f) = k
           /\ Leaves(k, x) = k
           /\ Write16(k, a, x) = k /\ MemWrite(k, a, l, x) = k
<1>1. \A y : Returns(k, y) = k /\ Leaves(k, y) = k /\ \A z : Sets(k, y, z) = k
  BY DEF Returns, Leaves, Sets
<1>2. \A y, z : Aborts(k, y, z) = k
  BY <1>1 DEF Aborts
<1>3. \A y : Read16(k, y) = k
  BY <1>1, <1>2 DEF Read16
<1>4. \A y, z : Write16(k, y, z) = k
  BY <1>2 DEF Write16
<1>5. Write8(k, a, x) = k
  BY <1>3, <1>4 DEF Write8
<1>6. MemWrite(k, a, l, x) = k
  BY <1>1, <1>4, <1>5 DEF MemWrite
<1> QED BY <1>1, <1>4, <1>6 DEF Flagged

-----------------------------------------------------------------------------
(***************************************************************************)
(* How far the registers have moved, and what an abort must leave.         *)
(***************************************************************************)
MovedByStack(k, w, i) ==
    \A q \in 0 .. SP : \E x \in MovesByStack(i, q) : w.r[q] = (k.r[q] + x) % 2^(2 * W)

\* From k, where the instruction i began, to w.
Backable(k, w, i) ==
    \A q \in 0 .. SP : \E x \in Moves(i, q) : w.r[q] = (k.r[q] + x) % 2^(2 * W)

Undoable(k, w, i) ==
    /\ w.core = k.core
    /\ Backable(k, w, i)
    /\ i.op \in {"ADC", "SBC", "ROR", "ROL"} => w.f.c = k.f.c
    /\ i.op = "SXT" => w.f.n = k.f.n

LEMMA NotStacked ==
    ASSUME NEW k \in Machines, NEW w, NEW i, \A q \in 0 .. SP : w.r[q] = k.r[q]
    PROVE  MovedByStack(k, w, i)
<1> SUFFICES ASSUME NEW q \in 0 .. SP
             PROVE  \E x \in MovesByStack(i, q) : w.r[q] = (k.r[q] + x) % 2^(2 * W)
  BY DEF MovedByStack
<1>1. 0 \in MovesByStack(i, q)
  BY DEF MovesByStack
<1>2. k.r[q] \in Long
  BY RegisterTyped DEF SP
<1>3. k.r[q] = (k.r[q] + 0) % 2^(2 * W)
  BY <1>2, WordFacts
<1> QED BY <1>1, <1>3

LEMMA MovesAreNumbers ==
    ASSUME NEW o, NEW l \in {1, 2}, NEW i, NEW q
    PROVE  MovesFor(o, l, q) \subseteq Int /\ MovesByStack(i, q) \subseteq Int
<1>1. Stride(o, l) \in Int /\ -Stride(o, l) \in Int
  BY DEF Stride
<1> QED BY <1>1 DEF MovesFor, MovesByStack

\* The source, the destination, then the stack.
LEMMA MovedInTurn ==
    ASSUME NEW k \in Machines, NEW i \in TextWords, NEW u, NEW v, NEW w,
           MovedFor(k, u, i.s, i.l), MovedFor(u, v, i.d, i.l), MovedByStack(v, w, i)
    PROVE  Backable(k, w, i)
<1> SUFFICES ASSUME NEW q \in 0 .. SP
             PROVE  \E x \in Moves(i, q) : w.r[q] = (k.r[q] + x) % 2^(2 * W)
  BY DEF Backable
<1>1. PICK x \in MovesFor(i.s, i.l, q) : u.r[q] = (k.r[q] + x) % 2^(2 * W)
  BY DEF MovedFor
<1>2. PICK y \in MovesFor(i.d, i.l, q) : v.r[q] = (u.r[q] + y) % 2^(2 * W)
  BY DEF MovedFor
<1>3. PICK z \in MovesByStack(i, q) : w.r[q] = (v.r[q] + z) % 2^(2 * W)
  BY DEF MovedByStack
<1>4. i.l \in {1, 2}
  BY DEF TextWords
<1>5. x \in Int /\ y \in Int /\ z \in Int
  BY <1>4, MovesAreNumbers
<1>6. PICK r \in Int : r = k.r[q]
  BY RegisterTyped DEF SP
<1>7. v.r[q] = (r + x + y) % 2^(2 * W)
  BY <1>1, <1>2, <1>5, <1>6, SumOfMoves
<1>8. PICK p \in Int : p = r + x
  BY <1>5, <1>6
<1>9. w.r[q] = (((p + y) % 2^(2 * W)) + z) % 2^(2 * W)
  BY <1>3, <1>7, <1>8
<1>10. w.r[q] = (p + y + z) % 2^(2 * W) /\ p + y + z = r + (x + y + z)
  <2>1. w.r[q] = (p + y + z) % 2^(2 * W)
    BY <1>5, <1>9, SumOfMoves
  <2>2. p + y + z = r + (x + y + z)
    BY <1>5, <1>6, <1>8
  <2> QED BY <2>1, <2>2
<1>11. x + y + z \in Moves(i, q)
  BY DEF Moves
<1> QED BY <1>6, <1>10, <1>11

\* An instruction with one operand, and one with none.
LEMMA MovedOnce ==
    ASSUME NEW k \in Machines, NEW i \in TextWords, NEW v \in Machines, NEW w,
           MovedFor(k, v, i.d, i.l), \A q \in 0 .. SP : w.r[q] = v.r[q]
    PROVE  Backable(k, w, i)
<1>1. MovedFor(k, k, i.s, i.l)
  BY NotMoved
<1>2. MovedByStack(v, w, i)
  BY NotStacked
<1> QED BY <1>1, <1>2, MovedInTurn

LEMMA MovedNever ==
    ASSUME NEW k \in Machines, NEW i \in TextWords, NEW w, \A q \in 0 .. SP : w.r[q] = k.r[q]
    PROVE  Backable(k, w, i)
<1>1. MovedFor(k, k, i.d, i.l)
  BY NotMoved
<1> QED BY <1>1, MovedOnce

-----------------------------------------------------------------------------
(***************************************************************************)
(* The instructions one by one.  Each takes a machine that has fetched it  *)
(* to one of Machines, and where it ends in a fault it can be undone.      *)
(***************************************************************************)
Proper(k, w, i) ==
    /\ w \in Machines
    /\ w.left = "fault" /\ i.op # "MARK" => Undoable(k, w, i)

Prepared(k, i) ==
    k \in Machines /\ Runs(k) /\ k.out \in Word /\ i \in TextWords

\* What an instruction finds that computes a value and stores it where its
\* destination was read: the store cannot fault.
LEMMA StoredFacts ==
    ASSUME Surroundings, NEW k \in Machines, NEW a \in Int, NEW l \in {1, 2},
           NEW x \in Results, Present(a, l)
    PROVE  LET w == Stored(k, a, l, x) IN
           /\ w \in Machines
           /\ Runs(k) => w.left # "fault"
<1> DEFINE v == Flagged(k, x.f)
           w == Stored(k, a, l, x)
<1>1. x.f \in Flags /\ x.val \in Int
  BY DEF Results
<1>2. v \in Machines /\ v.left = k.left
  BY <1>1, FlaggedFacts
<1>3. w = IF x.store THEN MemWrite(v, a, l, x.val) ELSE v
  BY DEF Stored
<1> HIDE DEF v, w
<1>4. /\ MemWrite(v, a, l, x.val) \in Machines
      /\ Runs(v) => MemWrite(v, a, l, x.val).left # "fault"
  BY <1>1, <1>2, MemWriteFacts
<1> QED BY <1>2, <1>3, <1>4 DEF w, Runs

LEMMA StoredLeft ==
    ASSUME NEW k, ~Runs(k), NEW a, NEW l, NEW x
    PROVE  Stored(k, a, l, x) = k
BY LeftFacts DEF Stored

LEMMA UnaryProper ==
    ASSUME Surroundings, NEW k, NEW i, Prepared(k, i), i.op \in OneOperand
    PROVE  Proper(k, Unary(k, i), i)
<1> DEFINE a == Aget(k, i.d, i.l)
           x == MemRead(a, a.out, i.l)
           c == Computed1(i.op, x.out, i.l, k.f)
           w == Unary(k, i)
<1>1. k \in Machines /\ Runs(k) /\ i \in TextWords /\ i.d \in Operands /\ i.l \in {1, 2} /\ k.f \in Flags
  BY DEF Prepared, TextWords, Machines
<1>2. /\ a \in Machines /\ Quiet(k, a) /\ MovedFor(k, a, i.d, i.l)
      /\ Runs(a) => a.out \in Word
  BY <1>1, AgetFacts
<1> HIDE DEF a
<1>3. a.out \in Int
  BY <1>2 DEF Machines
<1>4. /\ x \in Machines /\ Quiet(a, x) /\ x.r = a.r
      /\ Runs(x) => x.out \in Word /\ Present(a.out, i.l)
  BY <1>1, <1>2, <1>3, MemReadFacts
<1>5. w = Stored(x, a.out, i.l, c)
  BY DEF Unary, a
<1> HIDE DEF x, w
<1>6. CASE Runs(x)
  <2>1. c \in Results
    BY <1>1, <1>4, <1>6, Computed1Typed
  <2> HIDE DEF c
  <2>2. w \in Machines /\ w.left # "fault"
    BY <1>1, <1>3, <1>4, <1>5, <1>6, <2>1, StoredFacts
  <2> QED BY <2>2 DEF Proper, w
<1>7. CASE ~Runs(x)
  <2>1. w = x
    BY <1>5, <1>7, StoredLeft
  <2>2. Backable(k, w, i)
    BY <1>1, <1>2, <1>4, <2>1, MovedOnce
  <2> QED BY <1>2, <1>4, <2>1, <2>2 DEF Proper, Undoable, Quiet, w
<1> QED BY <1>6, <1>7

LEMMA BinaryProper ==
    ASSUME Surroundings, NEW k, NEW i, Prepared(k, i), i.op \in TwoOperands
    PROVE  Proper(k, Binary(k, i), i)
<1> DEFINE s == Aget(k, i.s, i.l)
           x == MemRead(s, s.out, i.l)
           d == Aget(x, i.d, i.l)
           y == MemRead(d, d.out, i.l)
           c == Computed2(i.op, x.out, y.out, i.l, k.f)
           w == Binary(k, i)
<1>1. /\ k \in Machines /\ Runs(k) /\ i \in TextWords /\ i.s \in Operands /\ i.d \in Operands
      /\ i.l \in {1, 2} /\ k.f \in Flags
  BY DEF Prepared, TextWords, Machines
<1>2. s \in Machines /\ Quiet(k, s) /\ MovedFor(k, s, i.s, i.l)
  BY <1>1, AgetFacts
<1> HIDE DEF s
<1>3. s.out \in Int
  BY <1>2 DEF Machines
<1>4. /\ x \in Machines /\ Quiet(s, x) /\ x.r = s.r
      /\ Runs(x) => x.out \in Word
  BY <1>1, <1>2, <1>3, MemReadFacts
<1> HIDE DEF x
<1>5. /\ d \in Machines /\ Quiet(x, d) /\ MovedFor(x, d, i.d, i.l)
      /\ Runs(d) => Runs(x)
  BY <1>1, <1>4, AgetFacts
<1> HIDE DEF d
<1>6. d.out \in Int
  BY <1>5 DEF Machines
<1>7. /\ y \in Machines /\ Quiet(d, y) /\ y.r = d.r
      /\ Runs(y) => Runs(d) /\ y.out \in Word /\ Present(d.out, i.l)
  BY <1>1, <1>5, <1>6, MemReadFacts
<1>8. w = Stored(y, d.out, i.l, c)
  BY DEF Binary, s, x, d
<1> HIDE DEF y, w
<1>9. CASE Runs(y)
  <2>1. c \in Results
    BY <1>1, <1>4, <1>5, <1>7, <1>9, Computed2Typed
  <2> HIDE DEF c
  <2>2. w \in Machines /\ w.left # "fault"
    BY <1>1, <1>6, <1>7, <1>8, <1>9, <2>1, StoredFacts
  <2> QED BY <2>2 DEF Proper, w
<1>10. CASE ~Runs(y)
  <2>1. w = y
    BY <1>8, <1>10, StoredLeft
  <2>2. MovedFor(k, x, i.s, i.l)
    BY <1>2, <1>4 DEF MovedFor
  <2>3. MovedByStack(d, w, i)
    BY <1>5, <1>7, <2>1, NotStacked
  <2>4. Backable(k, w, i)
    BY <1>1, <1>5, <2>2, <2>3, MovedInTurn
  <2> QED BY <1>2, <1>4, <1>5, <1>7, <2>1, <2>4 DEF Proper, Undoable, Quiet, w
<1> QED BY <1>9, <1>10

\* CLR has set its flags before it looks for its operand, and needs none of them.
LEMMA ClearProper ==
    ASSUME Surroundings, NEW k, NEW i, Prepared(k, i), i.op = "CLR"
    PROVE  Proper(k, Clear(k, i), i)
<1> DEFINE v == Flagged(k, CLR(i.l, k.f).f)
           a == Aget(v, i.d, i.l)
           w == Clear(k, i)
<1>1. /\ k \in Machines /\ Runs(k) /\ i \in TextWords /\ i.d \in Operands /\ i.l \in {1, 2}
      /\ CLR(i.l, k.f).f \in Flags
  BY DEF Prepared, TextWords, CLR, Result, Flags
<1>2. v \in Machines /\ v.left = k.left /\ v.r = k.r /\ v.core = k.core
  BY <1>1, FlaggedFacts
<1> HIDE DEF v
<1>3. a \in Machines /\ Quiet(v, a) /\ MovedFor(v, a, i.d, i.l)
  BY <1>1, <1>2, AgetFacts
<1>4. w = MemWrite(a, a.out, i.l, 0)
  BY DEF Clear, v
<1> HIDE DEF a, w
<1>5. a.out \in Int /\ 0 \in Int
  BY <1>3 DEF Machines
<1>6. /\ w \in Machines
      /\ Runs(a) /\ w.left = "fault" => Quiet(a, w) /\ w.r = a.r
      /\ ~Runs(a) => w = a
  BY <1>1, <1>3, <1>4, <1>5, MemWriteFacts, ZenonT(60)
<1>7. ASSUME w.left = "fault" PROVE Undoable(k, w, i)
  <2>1. w.core = a.core /\ w.r = a.r
    BY <1>6, <1>7 DEF Quiet
  <2>2. MovedFor(k, a, i.d, i.l)
    BY <1>2, <1>3 DEF MovedFor
  <2>3. Backable(k, w, i)
    BY <1>1, <1>3, <2>1, <2>2, MovedOnce
  <2> QED BY <1>1, <1>2, <1>3, <2>1, <2>3 DEF Undoable, Quiet
<1> QED BY <1>6, <1>7 DEF Proper, w

LEMMA MoveProper ==
    ASSUME Surroundings, NEW k, NEW i, Prepared(k, i), i.op = "MOV"
    PROVE  Proper(k, Move(k, i), i)
<1> DEFINE s == Aget(k, i.s, i.l)
           x == MemRead(s, s.out, i.l)
           d == Aget(x, i.d, i.l)
           c == Logical(x.out, i.l, k.f).f
           f == Flagged(d, c)
           e == IF Sign(x.out, 1) THEN x.out + 2^W - ByteSize ELSE x.out
           w == Move(k, i)
<1>1. /\ k \in Machines /\ Runs(k) /\ i \in TextWords /\ i.s \in Operands /\ i.d \in Operands
      /\ i.l \in {1, 2} /\ k.f \in Flags
  BY DEF Prepared, TextWords, Machines
<1>2. s \in Machines /\ Quiet(k, s) /\ MovedFor(k, s, i.s, i.l)
  BY <1>1, AgetFacts
<1> HIDE DEF s
<1>3. s.out \in Int
  BY <1>2 DEF Machines
<1>4. x \in Machines /\ Quiet(s, x) /\ x.r = s.r
  BY <1>1, <1>2, <1>3, MemReadFacts
<1>5. x.out \in Int
  BY <1>4 DEF Machines
<1> HIDE DEF x
<1>6. d \in Machines /\ Quiet(x, d) /\ MovedFor(x, d, i.d, i.l)
  BY <1>1, <1>4, AgetFacts
<1>7. d.out \in Int
  BY <1>6 DEF Machines
<1> HIDE DEF d
<1>8. c \in Flags
  BY <1>1, <1>5, LogicalTyped DEF Results
<1>9. /\ f \in Machines /\ f.left = d.left /\ f.r = d.r /\ f.core = d.core
      /\ ~Runs(d) => f = d
  BY <1>6, <1>8, FlaggedFacts
<1>10. e \in Int
  BY <1>5, Powers
<1>11. w = IF IsReg(d.out) /\ i.l = 1 THEN MemWrite(f, d.out, 2, e) ELSE MemWrite(f, d.out, i.l, x.out)
  BY DEF Move, s, x, d
<1> HIDE DEF c, f, e, w
<1>12. /\ w \in Machines
       /\ Runs(f) /\ w.left = "fault" => Quiet(f, w) /\ w.r = f.r
       /\ ~Runs(f) => w = f
  BY <1>1, <1>5, <1>7, <1>9, <1>10, <1>11, MemWriteFacts, ZenonT(60)
<1>13. ASSUME w.left = "fault" PROVE Undoable(k, w, i)
  <2>1. w.core = d.core /\ w.r = d.r
    BY <1>9, <1>12, <1>13 DEF Quiet
  <2>2. MovedFor(k, x, i.s, i.l)
    BY <1>2, <1>4 DEF MovedFor
  <2>3. MovedByStack(d, w, i)
    BY <1>6, <2>1, NotStacked
  <2>4. Backable(k, w, i)
    BY <1>1, <1>6, <2>2, <2>3, MovedInTurn
  <2> QED BY <1>1, <1>2, <1>4, <1>6, <2>1, <2>4 DEF Undoable, Quiet
<1> QED BY <1>12, <1>13 DEF Proper, w

\* SXT has changed Z and V when its store faults, not the N it reads again.
LEMMA SignExtendProper ==
    ASSUME Surroundings, NEW k, NEW i, Prepared(k, i), i.op = "SXT"
    PROVE  Proper(k, SignExtend(k, i), i)
<1> DEFINE x == SXT(0, i.l, k.f)
           a == Aget(k, i.d, i.l)
           c == [x.f EXCEPT !.z = x.f.z \/ k.f.z]
           v == Flagged(a, c)
           u == MemWrite(v, a.out, i.l, x.val)
           w == SignExtend(k, i)
<1>1. /\ k \in Machines /\ Runs(k) /\ i \in TextWords /\ i.d \in Operands
      /\ i.l \in {1, 2} /\ k.f \in Flags
  BY DEF Prepared, TextWords, Machines
<1>2. x.val \in Int /\ x.f \in Flags /\ x.f.n = k.f.n
  BY <1>1, Powers DEF SXT, Result, Flags
<1> HIDE DEF x
<1>3. c \in Flags /\ c.n = k.f.n
  BY <1>2 DEF Flags
<1> HIDE DEF c
<1>4. a \in Machines /\ Quiet(k, a) /\ MovedFor(k, a, i.d, i.l)
  BY <1>1, AgetFacts
<1> HIDE DEF a
<1>5. a.out \in Int
  BY <1>4 DEF Machines
<1>6. /\ v \in Machines /\ v.left = a.left /\ v.r = a.r /\ v.core = a.core
      /\ Runs(a) => v.f = c
      /\ ~Runs(a) => v = a
  BY <1>3, <1>4, FlaggedFacts
<1> HIDE DEF v
<1>7. /\ u \in Machines
      /\ Runs(v) /\ u.left = "fault" => Quiet(v, u) /\ u.r = v.r
      /\ ~Runs(v) => u = v
  BY <1>1, <1>2, <1>5, <1>6, MemWriteFacts, ZenonT(60)
<1>8. w = Flagged(u, x.f)
  BY DEF SignExtend, v, a, c, x
<1> HIDE DEF u, w
<1>9. w \in Machines /\ w.left = u.left /\ (~Runs(u) => w = u)
  BY <1>2, <1>7, <1>8, FlaggedFacts
<1>10. ASSUME w.left = "fault" PROVE Undoable(k, w, i)
  <2>1. w = u /\ u.left = "fault"
    BY <1>9, <1>10 DEF Runs
  <2>2. w.core = v.core /\ w.r = v.r /\ w.f.n = v.f.n
    BY <1>7, <2>1 DEF Quiet
  <2>3. v.f.n = k.f.n
    BY <1>3, <1>4, <1>6 DEF Quiet
  <2>4. Backable(k, w, i)
    BY <1>1, <1>4, <1>6, <2>2, MovedOnce
  <2> QED BY <1>1, <1>4, <1>6, <2>2, <2>3, <2>4 DEF Undoable, Quiet
<1> QED BY <1>9, <1>10 DEF Proper, w

LEMMA ExclusiveOrProper ==
    ASSUME Surroundings, NEW k, NEW i, Prepared(k, i), i.op = "XOR"
    PROVE  Proper(k, ExclusiveOr(k, i), i)
<1> DEFINE d == Aget(k, i.d, 2)
           y == MemRead(d, d.out, 2)
           c == XOR(k.r[i.s.reg], y.out, k.f)
           w == ExclusiveOr(k, i)
<1>1. /\ k \in Machines /\ Runs(k) /\ i \in TextWords /\ i.d \in Operands
      /\ i.l = 2 /\ 2 \in {1, 2} /\ k.f \in Flags
  BY DEF Prepared, TextWords, Machines, Bytewise
<1>2. d \in Machines /\ Quiet(k, d) /\ MovedFor(k, d, i.d, i.l)
  BY <1>1, AgetFacts
<1> HIDE DEF d
<1>3. d.out \in Int
  BY <1>2 DEF Machines
<1>4. /\ y \in Machines /\ Quiet(d, y) /\ y.r = d.r
      /\ Runs(y) => Present(d.out, 2)
  BY <1>1, <1>2, <1>3, MemReadFacts
<1>5. c \in Results
  <2>1. k.f.c \in BOOLEAN
    BY <1>1 DEF Flags
  <2> QED BY <2>1, ResultTyped, SignTyped, BitwiseTyped DEF XOR
<1>6. w = Stored(y, d.out, 2, c)
  BY DEF ExclusiveOr, d
<1> HIDE DEF y, c, w
<1>7. CASE Runs(y)
  <2>1. w \in Machines /\ w.left # "fault"
    BY <1>1, <1>3, <1>4, <1>5, <1>6, <1>7, StoredFacts
  <2> QED BY <2>1 DEF Proper, w
<1>8. CASE ~Runs(y)
  <2>1. w = y
    BY <1>6, <1>8, StoredLeft
  <2>2. Backable(k, w, i)
    BY <1>1, <1>2, <1>4, <2>1, MovedOnce
  <2> QED BY <1>2, <1>4, <2>1, <2>2 DEF Proper, Undoable, Quiet, w
<1> QED BY <1>7, <1>8

LEMMA JMPProper ==
    ASSUME Surroundings, NEW k, NEW i, Prepared(k, i), i.op = "JMP"
    PROVE  Proper(k, JMP(k, i), i)
<1> DEFINE d == Aget(k, i.d, 2)
           w == JMP(k, i)
<1>1. /\ k \in Machines /\ i \in TextWords /\ i.d \in Operands /\ i.l = 2 /\ 2 \in {1, 2}
      /\ PC \in 0 .. 7
  BY DEF Prepared, TextWords, Bytewise, PC
<1>2. /\ d \in Machines /\ Quiet(k, d) /\ MovedFor(k, d, i.d, i.l)
      /\ Runs(d) => d.out \in Word
  BY <1>1, AgetFacts
<1>3. w = IF Runs(d) /\ IsReg(d.out) THEN Leaves(d, "invalid") ELSE Sets(d, PC, d.out)
  BY DEF JMP
<1> HIDE DEF d, w
<1>4. CASE Runs(d) /\ IsReg(d.out)
  <2>1. d.out \in Long /\ "invalid" \in Reasons \ {"no"}
    BY <1>2, <1>4, WordFacts DEF Reasons
  <2>2. w \in Machines /\ w.left = "invalid"
    BY <1>2, <1>3, <1>4, <2>1, LeavesFacts
  <2> QED BY <2>2 DEF Proper, w
<1>5. CASE ~(Runs(d) /\ IsReg(d.out))
  <2>1. d.out \in Int
    BY <1>2 DEF Machines
  <2>2. w = Sets(d, PC, d.out)
    BY <1>3, <1>5
  <2>3. /\ w \in Machines /\ Quiet(d, w) /\ w.left = d.left
        /\ ~Runs(d) => w = d
    BY <1>1, <1>2, <2>1, <2>2, SetsFacts
  <2>4. ASSUME w.left = "fault" PROVE Undoable(k, w, i)
    <3>1. w = d
      BY <2>3, <2>4 DEF Runs
    <3>2. Backable(k, w, i)
      BY <1>1, <1>2, <3>1, MovedOnce
    <3> QED BY <1>1, <1>2, <3>1, <3>2 DEF Undoable, Quiet
  <2> QED BY <2>3, <2>4 DEF Proper, w
<1> QED BY <1>4, <1>5

\* A push or a pop has moved SP by a word.
LEMMA Stacked ==
    ASSUME NEW k \in Machines, NEW w, NEW i, NEW x \in Int, x \in MovesByStack(i, SP),
           w.r = [k.r EXCEPT ![SP] = (k.r[SP] + x) % 2^(2 * W)]
    PROVE  MovedByStack(k, w, i)
<1> SUFFICES ASSUME NEW q \in 0 .. SP
             PROVE  \E y \in MovesByStack(i, q) : w.r[q] = (k.r[q] + y) % 2^(2 * W)
  BY DEF MovedByStack
<1>1. CASE q = SP
  <2>1. w.r[q] = (k.r[q] + x) % 2^(2 * W)
    BY <1>1 DEF SP, Machines
  <2> QED BY <1>1, <2>1
<1>2. CASE q # SP
  <2>1. 0 \in MovesByStack(i, q)
    BY DEF MovesByStack
  <2>2. w.r[q] = k.r[q] /\ k.r[q] \in Long
    BY <1>2, RegisterTyped DEF SP, Machines
  <2>3. k.r[q] = (k.r[q] + 0) % 2^(2 * W)
    BY <2>2, WordFacts
  <2> QED BY <2>1, <2>2, <2>3
<1> QED BY <1>1, <1>2

\* What a push leaves, for an instruction that pushes a word.
LEMMA Pushed ==
    ASSUME Surroundings, NEW k \in Machines, NEW x \in Int, NEW i, i.op \in {"JSR", "MFPI"}
    PROVE  LET w == Push(k, x) IN
           /\ w \in Machines
           /\ w.left = "fault" => Quiet(k, w) /\ MovedByStack(k, w, i)
<1> DEFINE w == Push(k, x)
<1>1. /\ w \in Machines
      /\ Runs(k) /\ w.left = "fault" =>
             Quiet(k, w) /\ w.r = [k.r EXCEPT ![SP] = (k.r[SP] - 2) % 2^(2 * W)]
      /\ ~Runs(k) => w = k
  BY PushFacts
<1> HIDE DEF w
<1>2. CASE Runs(k) /\ w.left = "fault"
  <2>1. -2 \in Int /\ -2 \in MovesByStack(i, SP)
    BY DEF MovesByStack
  <2>2. k.r[SP] - 2 = k.r[SP] + (-2)
    BY RegisterTyped DEF SP
  <2>3. w.r = [k.r EXCEPT ![SP] = (k.r[SP] + (-2)) % 2^(2 * W)]
    BY <1>1, <1>2, <2>2
  <2>4. MovedByStack(k, w, i)
    BY <2>1, <2>3, Stacked
  <2> QED BY <1>1, <1>2, <2>4 DEF w
<1>3. CASE ~Runs(k)
  <2>1. MovedByStack(k, w, i)
    BY <1>1, <1>3, NotStacked
  <2> QED BY <1>1, <1>3, <2>1 DEF w, Quiet
<1> QED BY <1>1, <1>2, <1>3 DEF w

LEMMA JSRProper ==
    ASSUME Surroundings, NEW k, NEW i, Prepared(k, i), i.op = "JSR"
    PROVE  Proper(k, JSR(k, i), i)
<1> DEFINE q == i.s.reg
           d == Aget(k, i.d, 2)
           u == Push(d, d.r[q])
           v == Sets(u, q, u.r[PC])
           w == JSR(k, i)
<1>1. /\ k \in Machines /\ i \in TextWords /\ i.d \in Operands /\ i.l = 2 /\ 2 \in {1, 2}
      /\ PC \in 0 .. 7 /\ q \in 0 .. 7
  BY DEF Prepared, TextWords, Operands, Bytewise, PC
<1> HIDE DEF q
<1>2. /\ d \in Machines /\ Quiet(k, d) /\ MovedFor(k, d, i.d, i.l)
      /\ Runs(d) => d.out \in Word
  BY <1>1, AgetFacts
<1>3. w = IF Runs(d) /\ IsReg(d.out) THEN Leaves(d, "invalid") ELSE Sets(v, PC, d.out)
  BY DEF JSR, q
<1> HIDE DEF d, w
<1>4. CASE Runs(d) /\ IsReg(d.out)
  <2>1. d.out \in Long /\ "invalid" \in Reasons \ {"no"}
    BY <1>2, <1>4, WordFacts DEF Reasons
  <2>2. w \in Machines /\ w.left = "invalid"
    BY <1>2, <1>3, <1>4, <2>1, LeavesFacts
  <2> QED BY <2>2 DEF Proper, w
<1>5. CASE ~(Runs(d) /\ IsReg(d.out))
  <2>1. d.out \in Int /\ d.r[q] \in Int
    BY <1>1, <1>2, RegisterTyped DEF Machines
  <2>2. u \in Machines /\ (u.left = "fault" => Quiet(d, u) /\ MovedByStack(d, u, i))
    BY <1>2, <2>1, Pushed
  <2> HIDE DEF u
  <2>3. u.r[PC] \in Int
    BY <1>1, <2>2, RegisterTyped
  <2>4. v \in Machines /\ v.left = u.left /\ (~Runs(u) => v = u)
    BY <1>1, <2>2, <2>3, SetsFacts
  <2> HIDE DEF v
  <2>5. w = Sets(v, PC, d.out)
    BY <1>3, <1>5
  <2>6. w \in Machines /\ w.left = v.left /\ (~Runs(v) => w = v)
    BY <1>1, <2>1, <2>4, <2>5, SetsFacts, ZenonT(60)
  <2>7. ASSUME w.left = "fault" PROVE Undoable(k, w, i)
    <3>1. w = u /\ u.left = "fault"
      BY <2>4, <2>6, <2>7 DEF Runs
    <3>2. MovedFor(k, k, i.s, i.l)
      BY <1>1, NotMoved
    <3>3. Backable(k, w, i)
      BY <1>1, <1>2, <2>2, <3>1, <3>2, MovedInTurn
    <3> QED BY <1>1, <1>2, <2>2, <3>1, <3>3 DEF Undoable, Quiet
  <2> QED BY <2>6, <2>7 DEF Proper, w
<1> QED BY <1>4, <1>5

LEMMA RTSProper ==
    ASSUME Surroundings, NEW k, NEW i, Prepared(k, i), i.op = "RTS"
    PROVE  Proper(k, RTS(k, i), i)
<1> DEFINE q == i.d.reg
           v == Sets(k, PC, k.r[q])
           u == Pop(v)
           w == RTS(k, i)
<1>1. /\ k \in Machines /\ i \in TextWords /\ PC \in 0 .. 7 /\ q \in 0 .. 7 /\ Runs(k)
  BY DEF Prepared, TextWords, Operands, PC
<1>2. PICK x \in Int : v = Sets(k, PC, x)
  BY <1>1, RegisterTyped
<1>5. w = Sets(u, q, u.out)
  BY DEF RTS
<1> HIDE DEF q, v
<1>3. /\ v \in Machines /\ Quiet(k, v)
      /\ v.r = [k.r EXCEPT ![PC] = x % 2^(2 * W)]
  BY <1>1, <1>2, SetsFacts
<1>4. /\ u \in Machines /\ Quiet(v, u)
      /\ ~Runs(u) => u.r = v.r
  BY <1>3, PopFacts
<1> HIDE DEF u, w
<1>6. u.out \in Int
  BY <1>4 DEF Machines
<1>7. w \in Machines /\ w.left = u.left /\ (~Runs(u) => w = u)
  BY <1>1, <1>4, <1>5, <1>6, SetsFacts
<1>8. ASSUME w.left = "fault" PROVE Undoable(k, w, i)
  <2>1. w = u /\ w.r = v.r
    BY <1>4, <1>7, <1>8 DEF Runs
  <2>2. \A p \in 0 .. SP : w.r[p] = k.r[p]
    BY <1>1, <1>3, <2>1 DEF SP, PC, Machines
  <2>3. Backable(k, w, i)
    BY <1>1, <2>2, MovedNever
  <2> QED BY <1>1, <1>3, <1>4, <2>1, <2>3 DEF Undoable, Quiet
<1> QED BY <1>7, <1>8 DEF Proper, w

LEMMA MARKProper ==
    ASSUME Surroundings, NEW k, NEW i, Prepared(k, i), i.op = "MARK"
    PROVE  Proper(k, MARK(k, i), i)
<1> DEFINE v == Sets(k, SP, k.r[PC] + 2 * i.n)
           t == Sets(v, PC, k.r[5])
           u == Pop(t)
           s == Sets(u, 5, u.out)
           w == MARK(k, i)
<1>1. /\ k \in Machines /\ PC \in 0 .. 7 /\ SP \in 0 .. 7 /\ 5 \in 0 .. 7 /\ i.n \in Int
  BY DEF Prepared, TextWords, SP, PC
<1>2. k.r[PC] \in Int /\ k.r[5] \in Int
  BY <1>1, RegisterTyped
<1>3. k.r[PC] + 2 * i.n \in Int
  BY <1>1, <1>2
<1>4. v \in Machines
  BY <1>1, <1>3, SetsFacts
<1> HIDE DEF v
<1>5. t \in Machines
  BY <1>1, <1>2, <1>4, SetsFacts
<1> HIDE DEF t
<1>6. u \in Machines /\ (Runs(u) => u.out \in Word)
  BY <1>5, PopFacts
<1> HIDE DEF u
<1>7. u.out \in Int
  BY <1>6 DEF Machines
<1>8. s \in Machines /\ s.out = u.out /\ s.left = u.left
  BY <1>1, <1>6, <1>7, SetsFacts, ZenonT(60)
<1>9. w = Leaves(s, "invalid")
  BY DEF MARK, s, u, t, v
<1> HIDE DEF s, w
<1>10. s.out \in Long
  BY <1>6, <1>8, WordFacts DEF Machines, Runs
<1>11. w \in Machines
  BY <1>8, <1>9, <1>10, LeavesFacts DEF Reasons
<1> QED BY <1>11 DEF Proper, w

LEMMA MovedTyped ==
    ASSUME NEW x, NEW c \in BOOLEAN
    PROVE  Moved(x, c) \in Flags
<1> DEFINE n == Sign(x, 2)
           z == x = 0
<1>1. n \in BOOLEAN /\ z \in BOOLEAN
  BY SignTyped
<1>2. Moved(x, c) = [n |-> n, z |-> z, v |-> FALSE, c |-> c]
  BY DEF Moved
<1> HIDE DEF n, z
<1> QED BY <1>1, <1>2 DEF Flags

LEMMA MFPIProper ==
    ASSUME Surroundings, NEW k, NEW i, Prepared(k, i), i.op = "MFPI"
    PROVE  Proper(k, MFPI(k, i), i)
<1> DEFINE d == Aget(k, i.d, 2)
           y == IF d.out = Pseudo + SP THEN Returns(d, d.r[SP] % 2^(2 * W)) ELSE Read16(d, d.out)
           u == Push(y, y.out)
           c == Moved(y.out, TRUE)
           w == MFPI(k, i)
<1>1. /\ k \in Machines /\ i \in TextWords /\ i.d \in Operands /\ i.l = 2 /\ 2 \in {1, 2}
      /\ SP \in 0 .. 7
  BY DEF Prepared, TextWords, Bytewise, SP
<1>2. /\ d \in Machines /\ Quiet(k, d) /\ MovedFor(k, d, i.d, i.l)
      /\ Runs(d) => d.out \in Word
  BY <1>1, AgetFacts
<1>3. w = IF Runs(d) /\ IsReg(d.out) /\ d.out # Pseudo + SP THEN Leaves(d, "invalid")
          ELSE Flagged(u, c)
  BY DEF MFPI
<1> HIDE DEF d, w
<1>4. CASE Runs(d) /\ IsReg(d.out) /\ d.out # Pseudo + SP
  <2>1. d.out \in Long /\ "invalid" \in Reasons \ {"no"}
    BY <1>2, <1>4, WordFacts DEF Reasons
  <2>2. w \in Machines /\ w.left = "invalid"
    BY <1>2, <1>3, <1>4, <2>1, LeavesFacts
  <2> QED BY <2>2 DEF Proper, w
<1>5. CASE ~(Runs(d) /\ IsReg(d.out) /\ d.out # Pseudo + SP)
  <2>1. y \in Machines /\ Quiet(d, y) /\ y.r = d.r
    <3>1. d.out \in Int
      BY <1>2 DEF Machines
    <3>2. PICK x \in Int : x = d.r[SP] % 2^(2 * W)
      BY <1>1, <1>2, RegisterTyped, WordFacts
    <3>3. y = IF d.out = Pseudo + SP THEN Returns(d, x) ELSE Read16(d, d.out)
      BY <3>2
    <3> HIDE DEF y
    <3> QED BY <1>2, <3>1, <3>3, ReturnsFacts, Read16Facts
  <2> HIDE DEF y
  <2>2. y.out \in Int
    BY <2>1 DEF Machines
  <2>3. u \in Machines /\ (u.left = "fault" => Quiet(y, u) /\ MovedByStack(y, u, i))
    BY <1>1, <2>1, <2>2, Pushed
  <2> HIDE DEF u
  <2>4. c \in Flags
    BY MovedTyped
  <2>5. w = Flagged(u, c)
    BY <1>3, <1>5
  <2>6. w \in Machines /\ w.left = u.left /\ (~Runs(u) => w = u)
    BY <2>3, <2>4, <2>5, FlaggedFacts
  <2>7. ASSUME w.left = "fault" PROVE Undoable(k, w, i)
    <3>1. w = u /\ u.left = "fault"
      BY <2>6, <2>7 DEF Runs
    <3>2. MovedFor(k, k, i.s, i.l) /\ MovedFor(k, y, i.d, i.l)
      BY <1>1, <1>2, <2>1, NotMoved DEF MovedFor
    <3>3. Backable(k, w, i)
      BY <1>1, <2>1, <2>3, <3>1, <3>2, MovedInTurn
    <3> QED BY <1>1, <1>2, <2>1, <2>3, <3>1, <3>3 DEF Undoable, Quiet
  <2> QED BY <2>6, <2>7 DEF Proper, w
<1> QED BY <1>4, <1>5

LEMMA MTPIProper ==
    ASSUME Surroundings, NEW k, NEW i, Prepared(k, i), i.op = "MTPI"
    PROVE  Proper(k, MTPI(k, i), i)
<1> DEFINE d == Aget(k, i.d, 2)
           y == Pop(d)
           u == IF IsReg(d.out) THEN Sets(y, d.out - Pseudo, y.out) ELSE Write16(y, d.out, y.out)
           c == Moved(y.out, FALSE)
           w == MTPI(k, i)
<1>1. /\ k \in Machines /\ i \in TextWords /\ i.d \in Operands /\ i.l = 2 /\ 2 \in {1, 2}
      /\ SP \in 0 .. 7
  BY DEF Prepared, TextWords, Bytewise, SP
<1>2. d \in Machines /\ Quiet(k, d) /\ MovedFor(k, d, i.d, i.l)
  BY <1>1, AgetFacts
<1>3. w = Flagged(u, c)
  BY DEF MTPI
<1> HIDE DEF d, w
<1>4. /\ y \in Machines /\ Quiet(d, y)
      /\ Runs(y) => y.r = [d.r EXCEPT ![SP] = (d.r[SP] + 2) % 2^(2 * W)]
      /\ ~Runs(y) => y.r = d.r
  BY <1>2, PopFacts
<1> HIDE DEF y
<1>5. y.out \in Int /\ d.out \in Int
  BY <1>2, <1>4 DEF Machines
<1>6. /\ u \in Machines
      /\ u.left = "fault" => Quiet(y, u) /\ u.r = y.r
  <2>1. CASE IsReg(d.out)
    <3>1. d.out - Pseudo \in 0 .. 7
      BY <2>1, WordFacts DEF IsReg
    <3>2. PICK p \in 0 .. 7 : u = Sets(y, p, y.out)
      BY <2>1, <3>1
    <3> HIDE DEF u
    <3>3. /\ u \in Machines /\ u.left = y.left /\ (~Runs(y) => u = y)
      BY <1>4, <1>5, <3>2, SetsFacts
    <3> QED BY <3>3 DEF Runs, Quiet
  <2>2. CASE ~IsReg(d.out)
    <3>1. u = Write16(y, d.out, y.out)
      BY <2>2
    <3> HIDE DEF u
    <3>2. /\ u \in Machines /\ u.r = y.r
          /\ Runs(y) /\ u.left = "fault" => Quiet(y, u)
          /\ ~Runs(y) => u = y
      BY <1>4, <1>5, <3>1, Write16Facts
    <3> QED BY <3>2 DEF Quiet
  <2> QED BY <2>1, <2>2
<1> HIDE DEF u
<1>7. c \in Flags
  BY MovedTyped
<1> HIDE DEF c
<1>8. w \in Machines /\ w.left = u.left /\ (~Runs(u) => w = u)
  BY <1>3, <1>6, <1>7, FlaggedFacts
<1>9. ASSUME w.left = "fault" PROVE Undoable(k, w, i)
  <2>1. w = u /\ Quiet(y, w) /\ w.r = y.r
    BY <1>6, <1>8, <1>9 DEF Runs
  <2>2. MovedFor(k, k, i.s, i.l)
    BY <1>1, NotMoved
  <2>3. MovedByStack(d, w, i)
    <3>1. CASE Runs(y)
      <4>1. 2 \in Int /\ 2 \in MovesByStack(i, SP)
        BY DEF MovesByStack
      <4>2. w.r = [d.r EXCEPT ![SP] = (d.r[SP] + 2) % 2^(2 * W)]
        BY <1>4, <2>1, <3>1
      <4> QED BY <1>2, <4>1, <4>2, Stacked
    <3>2. CASE ~Runs(y)
      <4>1. w.r = d.r
        BY <1>4, <2>1, <3>2
      <4> QED BY <1>2, <4>1, NotStacked
    <3> QED BY <3>1, <3>2
  <2>4. Backable(k, w, i)
    BY <1>1, <1>2, <2>2, <2>3, MovedInTurn
  <2> QED BY <1>1, <1>2, <1>4, <2>1, <2>4 DEF Undoable, Quiet
<1> QED BY <1>8, <1>9 DEF Proper, w

\* Branches, SOB and the flags' instructions make no access that could fault.
LEMMA DisplacedTyped ==
    ASSUME NEW k \in Machines, NEW words \in Int
    PROVE  Displaced(k, words) \in Machines /\ Displaced(k, words).left = k.left
<1>1. PICK q \in 0 .. 7 : q = PC
  BY DEF PC
<1>2. k.r[q] \in Int
  BY RegisterTyped
<1>3. PICK x \in Int : x = k.r[q] + 2 * words
  BY <1>2
<1> DEFINE w == Displaced(k, words)
<1>4. w = Sets(k, q, x)
  BY <1>1, <1>3 DEF Displaced
<1> HIDE DEF w
<1>5. w \in Machines /\ w.left = k.left
  BY <1>4, SetsFacts
<1> QED BY <1>5 DEF w

LEMMA BranchProper ==
    ASSUME NEW k, NEW i, Prepared(k, i)
    PROVE  Proper(k, Branch(k, i), i)
<1>1. k \in Machines /\ k.left = "no" /\ i.n \in Int
  BY DEF Prepared, Runs, TextWords
<1>2. Branch(k, i) \in {k, Displaced(k, i.n)}
  BY DEF Branch
<1> QED BY <1>1, <1>2, DisplacedTyped DEF Proper

LEMMA SOBProper ==
    ASSUME NEW k, NEW i, Prepared(k, i)
    PROVE  Proper(k, SOB(k, i), i)
<1> DEFINE q == i.s.reg
           w == Sets(k, q, k.r[q] - 1)
<1>1. k \in Machines /\ k.left = "no" /\ -i.n \in Int /\ q \in 0 .. 7
  BY DEF Prepared, Runs, TextWords, Operands
<1>2. k.r[q] \in Int
  BY <1>1, RegisterTyped
<1>3. PICK x \in Int : x = k.r[q] - 1
  BY <1>2
<1>4. SOB(k, i) \in {w, Displaced(w, -i.n)}
  BY DEF SOB
<1>5. w = Sets(k, q, x)
  BY <1>3
<1> HIDE DEF w, q
<1>6. w \in Machines /\ w.left = "no"
  BY <1>1, <1>5, SetsFacts
<1>7. Displaced(w, -i.n) \in Machines /\ Displaced(w, -i.n).left = "no"
  BY <1>1, <1>6, DisplacedTyped
<1> QED BY <1>4, <1>6, <1>7 DEF Proper

LEMMA SetFlagsProper ==
    ASSUME NEW k, NEW i, Prepared(k, i)
    PROVE  Proper(k, SetFlags(k, i), i)
<1> DEFINE Put(old, bit) == IF Bit(i.n, bit) THEN Bit(i.n, 4) ELSE old
           n == Put(k.f.n, 3)
           z == Put(k.f.z, 2)
           v == Put(k.f.v, 1)
           c == Put(k.f.c, 0)
           w == SetFlags(k, i)
<1>1. k \in Machines /\ k.left = "no" /\ k.f \in Flags
  BY DEF Prepared, Runs, Machines
<1>2. \A x, j : Bit(x, j) \in BOOLEAN
  BY DEF Bit
<1>3. \A old \in BOOLEAN : \A bit : Put(old, bit) \in BOOLEAN
  BY <1>2
<1>4. n \in BOOLEAN /\ z \in BOOLEAN /\ v \in BOOLEAN /\ c \in BOOLEAN
  <2> HIDE DEF Put
  <2> QED BY <1>1, <1>3 DEF Flags
<1>5. w = Flagged(k, [n |-> n, z |-> z, v |-> v, c |-> c])
  BY DEF SetFlags
<1> HIDE DEF n, z, v, c, w
<1>6. [n |-> n, z |-> z, v |-> v, c |-> c] \in Flags
  BY <1>4 DEF Flags
<1>7. w \in Machines /\ w.left = "no"
  BY <1>1, <1>5, <1>6, FlaggedFacts
<1> QED BY <1>7 DEF Proper, w

-----------------------------------------------------------------------------
(***************************************************************************)
(* The instructions on whole registers.                                    *)
(***************************************************************************)
LEMMA RegistersTyped ==
    ASSUME NEW hi \in Int, NEW lo \in Int, NEW n \in BOOLEAN, NEW z \in BOOLEAN,
           NEW v \in BOOLEAN, NEW c \in BOOLEAN
    PROVE  /\ Registers(hi, lo, n, z, v, c) \in LongResults
           /\ FlagsOnly(Registers(hi, lo, n, z, v, c)) \in LongResults
BY DEF Registers, FlagsOnly, LongResults, Flags

\* The powers that a register is shifted by.
LEMMA ShiftPowers == \A k \in 0 .. 2 * W : 2^k \in Nat \ {0}
<1> DEFINE P(k) == 2^k \in Nat \ {0}
<1>1. /\ P(0) /\ P(1) /\ P(2) /\ P(3) /\ P(4) /\ P(5) /\ P(6) /\ P(7)
      /\ P(8) /\ P(9) /\ P(10) /\ P(11) /\ P(12) /\ P(13) /\ P(14) /\ P(15)
      /\ P(16)
  OBVIOUS
<1>2. /\ P(17) /\ P(18) /\ P(19) /\ P(20) /\ P(21) /\ P(22) /\ P(23) /\ P(24)
      /\ P(25) /\ P(26) /\ P(27) /\ P(28) /\ P(29) /\ P(30) /\ P(31) /\ P(32)
  OBVIOUS
<1> HIDE DEF P
<1>3. ASSUME NEW k \in 0 .. 32 PROVE P(k)
  <2>1. CASE k \in 0 .. 16
    <3>1. \/ k = 0 \/ k = 1 \/ k = 2 \/ k = 3 \/ k = 4 \/ k = 5 \/ k = 6 \/ k = 7
          \/ k = 8 \/ k = 9 \/ k = 10 \/ k = 11 \/ k = 12 \/ k = 13 \/ k = 14 \/ k = 15
          \/ k = 16
      BY <2>1
    <3> QED BY <1>1, <3>1
  <2>2. CASE k \in 17 .. 32
    <3>1. \/ k = 17 \/ k = 18 \/ k = 19 \/ k = 20 \/ k = 21 \/ k = 22 \/ k = 23 \/ k = 24
          \/ k = 25 \/ k = 26 \/ k = 27 \/ k = 28 \/ k = 29 \/ k = 30 \/ k = 31 \/ k = 32
      BY <2>2
    <3> QED BY <1>2, <3>1
  <2> QED BY <2>1, <2>2
<1>4. 0 .. 2 * W \subseteq 0 .. 32
  BY WidthAssumption
<1>5. \A k \in 0 .. 2 * W : P(k)
  BY <1>3, <1>4
<1> QED BY <1>5 DEF P

LEMMA ExtendedTyped ==
    /\ \A x \in Int : Extended(x) \in Int
    /\ \A x \in Word \ {0} : Extended(x) # 0
<1>1. \A x \in Int : Extended(x) \in Int
  BY Powers DEF Extended, SignedLong
<1>2. ASSUME NEW x \in Word \ {0} PROVE Extended(x) # 0
  <2>1. x \in Int /\ x # 0 /\ x < 2^(2 * W - 1)
    BY Powers DEF Word
  <2>2. PICK y \in Nat \ {0} : y = 2^(W - 1)
    BY Powers
  <2>3. (x % y) - y # 0
    BY <2>1
  <2>4. SignedLong(x) = x
    BY <2>1, Powers DEF SignedLong
  <2> QED BY <2>1, <2>2, <2>3, <2>4 DEF Extended
<1> QED BY <1>1, <1>2

LEMMA QuotientTyped ==
    ASSUME NEW a \in Int, NEW b \in Int, b # 0
    PROVE  Quotient(a, b) \in Int
<1>1. PICK x \in Int : x = IF a < 0 THEN -a ELSE a
  OBVIOUS
<1>2. PICK y \in Nat \ {0} : y = IF b < 0 THEN -b ELSE b
  OBVIOUS
<1>3. x \div y \in Int
  OBVIOUS
<1>4. Quotient(a, b) = IF (a < 0) # (b < 0) THEN -(x \div y) ELSE x \div y
  BY <1>1, <1>2 DEF Quotient
<1> QED BY <1>3, <1>4

LEMMA MULTyped ==
    ASSUME NEW a \in Int, NEW b \in Int
    PROVE  MUL(a, b) \in LongResults
<1> DEFINE d == Extended(a) * Extended(b)
           hi == (d \div 2^W) % 2^W
           lo == d % 2^W
           n == d < 0
           z == d = 0
           v == FALSE
           c == d >= 2^(W - 1) - 1 \/ d < -(2^(W - 1))
<1>1. d \in Int
  BY ExtendedTyped
<1>2. n \in BOOLEAN /\ z \in BOOLEAN /\ v \in BOOLEAN /\ c \in BOOLEAN
  OBVIOUS
<1>3. MUL(a, b) = Registers(hi, lo, n, z, v, c)
  BY DEF MUL
<1> HIDE DEF d, n, z, v, c
<1>4. hi \in Int /\ lo \in Int
  BY <1>1, Powers
<1> HIDE DEF hi, lo
<1> QED BY <1>1, <1>2, <1>3, <1>4, RegistersTyped

LEMMA PairedTyped == \A hi, lo : Paired(hi, lo) \in Int
BY BitwiseTyped DEF Paired

LEMMA DIVTyped ==
    ASSUME NEW hi \in Int, NEW lo \in Int, NEW b \in Word
    PROVE  DIV(hi, lo, b) \in LongResults
<1> DEFINE src == SignedLong(Paired(hi, lo))
           dst == Quotient(src, Extended(b))
           n == dst < 0
           z == dst = 0
           p == dst % 2^W
           q == (src - Extended(b) * dst) % 2^W
           no == FALSE
           yes == TRUE
<1>1. src \in Int /\ Extended(b) \in Int
  BY PairedTyped, ExtendedTyped, WordFacts, Powers DEF SignedLong
<1>2. n \in BOOLEAN /\ z \in BOOLEAN /\ no \in BOOLEAN /\ yes \in BOOLEAN
  OBVIOUS
<1>3. \/ DIV(hi, lo, b) = FlagsOnly(Registers(hi, lo, no, yes, yes, yes))
      \/ DIV(hi, lo, b) = FlagsOnly(Registers(hi, lo, no, no, yes, no))
      \/ DIV(hi, lo, b) = FlagsOnly(Registers(hi, lo, n, no, yes, no))
      \/ b # 0 /\ DIV(hi, lo, b) = Registers(p, q, n, z, no, no)
  BY DEF DIV
<1>4. ASSUME b # 0 PROVE p \in Int /\ q \in Int
  <2>1. PICK e \in Int : e = Extended(b) /\ e # 0
    BY <1>1, <1>4, ExtendedTyped
  <2>2. dst \in Int
    BY <1>1, <2>1, QuotientTyped
  <2>3. PICK x \in Int, y \in Int : x = dst /\ y = src - e * dst
    <3> HIDE DEF src, dst
    <3> QED BY <1>1, <2>1, <2>2
  <2>4. p = x % 2^W /\ q = y % 2^W
    BY <2>1, <2>3
  <2> HIDE DEF p, q
  <2> QED BY <2>4, Powers
<1> HIDE DEF n, z, p, q, no, yes
<1> QED BY <1>2, <1>3, <1>4, RegistersTyped

LEMMA ShiftTyped ==
    ASSUME NEW x \in Int, NEW k \in 0 .. 2 * W, NEW ones \in Int, NEW negative, NEW u
    PROVE  ArithmeticRight(x, k, ones, negative, u) \in Int
<1>1. 2^k \in Nat \ {0}
  BY ShiftPowers
<1>2. x \div 2^k \in Int
  BY <1>1
<1>3. ShiftedRight(x, k, u) \in Int
  BY <1>2 DEF ShiftedRight
<1> QED BY <1>3, BitwiseTyped DEF ArithmeticRight

LEMMA TestedTyped == \A x, k : \A u \in BOOLEAN : Tested(x, k, u) \in BOOLEAN
<1>1. \A x, k : Bit(x, k) \in BOOLEAN
  BY DEF Bit
<1> QED BY <1>1 DEF Tested

LEMMA CountTyped ==
    ASSUME NEW count \in Int
    PROVE  LET n == count % (4 * W)
               k == IF n >= 2 * W THEN 4 * W - n ELSE n
           IN k \in 0 .. 2 * W
<1>1. CASE W = 8
  BY <1>1
<1>2. CASE W = 16
  BY <1>2
<1> QED BY <1>1, <1>2, WidthAssumption

LEMMA ASHTyped ==
    ASSUME NEW x \in Int, NEW count \in Int, NEW u \in BOOLEAN
    PROVE  ASH(x, count, u) \in LongResults
<1> DEFINE m0 == count % (4 * W)
           right == m0 >= 2 * W
           k == IF right THEN 4 * W - m0 ELSE m0
           s == IF right THEN ArithmeticRight(x, k, 2^W - 1, Sign(x, 2), u)
                ELSE ((x % 2^W) * 2^k) % 2^W
           n == Sign(s, 2)
           z == s = 0
           v == Sign(s, 2) # Sign(x, 2)
           c == Tested(x, IF right THEN k - 1 ELSE W - k, u)
<1>1. ASH(x, count, u) = Registers(s, 0, n, z, v, c)
  BY DEF ASH
<1>2. n \in BOOLEAN /\ z \in BOOLEAN /\ v \in BOOLEAN /\ c \in BOOLEAN
  BY SignTyped, TestedTyped
<1>3. k \in 0 .. 2 * W
  BY CountTyped
<1> HIDE DEF k, right, n, z, v, c
<1>4. 2^W - 1 \in Int /\ x % 2^W \in Int /\ 2^W \in Nat \ {0}
  BY Powers
<1>5. ArithmeticRight(x, k, 2^W - 1, Sign(x, 2), u) \in Int
  BY <1>3, <1>4, ShiftTyped
<1>6. ((x % 2^W) * 2^k) % 2^W \in Int
  BY <1>3, <1>4, ShiftPowers
<1>7. s \in Int /\ 0 \in Int
  BY <1>5, <1>6
<1> HIDE DEF s
<1> QED BY <1>1, <1>2, <1>7, RegistersTyped

LEMMA ASHCTyped ==
    ASSUME NEW hi \in Int, NEW lo \in Int, NEW count \in Int, NEW u \in BOOLEAN
    PROVE  ASHC(hi, lo, count, u) \in LongResults
<1> DEFINE x == Paired(hi, lo)
           m0 == count % (4 * W)
           right == m0 >= 2 * W
           k == IF right THEN 4 * W - m0 ELSE m0
           s == IF right THEN ArithmeticRight(x, k, 2^(2 * W) - 1, Bit(x, 2 * W - 1), u)
                ELSE (x * 2^k) % 2^(2 * W)
           p == (s \div 2^W) % 2^W
           q == s % 2^W
           n == Bit(s, 2 * W - 1)
           z == s = 0
           v == Bit(s, 2 * W - 1) # Bit(x, 2 * W - 1)
           c == Tested(x, IF right THEN k - 1 ELSE 2 * W - k, u)
<1>1. ASHC(hi, lo, count, u) = Registers(p, q, n, z, v, c)
  BY DEF ASHC
<1>2. \A y, j : Bit(y, j) \in BOOLEAN
  BY DEF Bit
<1>3. n \in BOOLEAN /\ z \in BOOLEAN /\ v \in BOOLEAN /\ c \in BOOLEAN
  BY <1>2, TestedTyped
<1>4. k \in 0 .. 2 * W /\ x \in Int
  BY CountTyped, PairedTyped
<1> HIDE DEF k, right, x, n, z, v, c
<1>5. 2^(2 * W) - 1 \in Int /\ 2^(2 * W) \in Nat \ {0} /\ 2^W \in Nat \ {0}
  BY Powers
<1>6. ArithmeticRight(x, k, 2^(2 * W) - 1, Bit(x, 2 * W - 1), u) \in Int
  BY <1>4, <1>5, ShiftTyped
<1>7. (x * 2^k) % 2^(2 * W) \in Int
  BY <1>4, <1>5, ShiftPowers
<1>8. s \in Int
  BY <1>6, <1>7
<1> HIDE DEF s
<1>9. p \in Int /\ q \in Int
  BY <1>5, <1>8
<1> HIDE DEF p, q
<1> QED BY <1>1, <1>3, <1>9, RegistersTyped

LEMMA OddOfTyped == \A q \in 0 .. 7 : OddOf(q) \in 0 .. 7
BY DEF OddOf

LongOps == {"MUL", "DIV", "ASH", "ASHC"}

LEMMA Long2Typed ==
    ASSUME NEW op \in LongOps, NEW k \in Machines, NEW q \in 0 .. 7, NEW x \in Word,
           NEW u \in BOOLEAN
    PROVE  Long2(op, k, q, x, u) \in LongResults
<1>1. PICK p \in 0 .. 7 : p = OddOf(q)
  BY OddOfTyped
<1>2. k.r[q] \in Int /\ k.r[p] \in Int /\ x \in Int
  BY RegisterTyped, WordFacts
<1>3. MUL(k.r[q], x) \in LongResults
  BY <1>2, MULTyped
<1>4. DIV(k.r[q], k.r[p], x) \in LongResults
  BY <1>2, DIVTyped
<1>5. ASH(k.r[q], x, u) \in LongResults
  BY <1>2, ASHTyped
<1>6. ASHC(k.r[q], k.r[p], x, u) \in LongResults
  BY <1>2, ASHCTyped
<1> QED BY <1>1, <1>3, <1>4, <1>5, <1>6 DEF Long2, LongOps

LEMMA Extended2Proper ==
    ASSUME Surroundings, NEW k, NEW i, Prepared(k, i), i.op \in LongOps, NEW u \in BOOLEAN
    PROVE  Proper(k, Extended2(k, i, u), i)
<1> DEFINE q == i.s.reg
           p == OddOf(q)
           d == Aget(k, i.d, 2)
           y == MemRead(d, d.out, 2)
           x == Long2(i.op, k, q, y.out, u)
           v == Flagged(y, x.f)
           w == Extended2(k, i, u)
<1>1. /\ k \in Machines /\ i \in TextWords /\ i.d \in Operands /\ i.l = 2 /\ 2 \in {1, 2}
      /\ q \in 0 .. 7 /\ i.op \notin {"ADC", "SBC", "ROR", "ROL", "SXT"}
  BY DEF Prepared, TextWords, Operands, Bytewise, LongOps
<1>2. p \in 0 .. 7
  BY <1>1, OddOfTyped
<1>3. d \in Machines /\ Quiet(k, d) /\ MovedFor(k, d, i.d, i.l)
  BY <1>1, AgetFacts
<1> HIDE DEF d
<1>4. d.out \in Int
  BY <1>3 DEF Machines
<1>5. /\ y \in Machines /\ Quiet(d, y) /\ y.r = d.r
      /\ Runs(y) => y.out \in Word
  BY <1>1, <1>3, <1>4, MemReadFacts
<1>6. /\ w = Leaves(k, "invalid") \/ w = v \/ (Runs(y) /\ w = Sets(v, q, x.hi))
         \/ (Runs(y) /\ w = Sets(v, q, x.lo)) \/ (Runs(y) /\ w = Sets(Sets(v, q, x.hi), p, x.lo))
  BY DEF Extended2, d
<1> HIDE DEF q, p, y, x, v, w
<1>7. CASE w = Leaves(k, "invalid")
  <2>1. k.out \in Long /\ "invalid" \in Reasons \ {"no"} /\ Runs(k)
    BY WordFacts DEF Prepared, Reasons
  <2>2. w \in Machines /\ w.left = "invalid"
    BY <1>1, <1>7, <2>1, LeavesFacts
  <2> QED BY <2>2 DEF Proper, w
<1>8. CASE w = v /\ ~Runs(y)
  <2>1. w = y
    BY <1>8, LeftFacts DEF v
  <2>2. Backable(k, w, i)
    BY <1>1, <1>3, <1>5, <2>1, MovedOnce
  <2> QED BY <1>1, <1>3, <1>5, <2>1, <2>2 DEF Proper, Undoable, Quiet, w
<1>9. CASE w # Leaves(k, "invalid") /\ Runs(y)
  <2>1. x \in LongResults
    BY <1>1, <1>5, <1>9, Long2Typed DEF x
  <2>2. x.hi \in Int /\ x.lo \in Int /\ x.f \in Flags
    BY <2>1 DEF LongResults
  <2>3. v \in Machines /\ v.left = "no"
    BY <1>5, <1>9, <2>2, FlaggedFacts DEF v, Runs
  <2> DEFINE a == Sets(v, q, x.hi)
             b == Sets(v, q, x.lo)
             c == Sets(a, p, x.lo)
  <2>4. a \in Machines /\ a.left = "no" /\ b \in Machines /\ b.left = "no"
    BY <1>1, <2>2, <2>3, SetsFacts
  <2>5. w \in {v, a, b, c}
    BY <1>6, <1>9
  <2> HIDE DEF a, b
  <2>6. c \in Machines /\ c.left = "no"
    BY <1>2, <2>2, <2>4, SetsFacts
  <2> HIDE DEF c
  <2>7. w \in Machines /\ w.left = "no"
    BY <2>3, <2>4, <2>5, <2>6
  <2> QED BY <2>7 DEF Proper, w
<1> QED BY <1>6, <1>7, <1>8, <1>9

-----------------------------------------------------------------------------
(***************************************************************************)
(* A step, and the specification.                                          *)
(***************************************************************************)
\* The instructions that have a function of their own.
SingleOps == {"MOV", "JSR", "XOR", "SOB", "CLR", "SXT", "JMP", "MARK", "MFPI", "MTPI",
              "RTS", "CCC"}

LEMMA ExecutedProper ==
    ASSUME Surroundings, NEW k, NEW i, Prepared(k, i), NEW u \in BOOLEAN
    PROVE  Proper(k, Executed(k, i, u), i)
<1> DEFINE w == Executed(k, i, u)
<1> USE DEF TwoOperands, OneOperand, Branches, LongOps, SingleOps
<1>1. CASE i.op = "MOV"
  <2>1. w = Move(k, i)
    BY <1>1 DEF Executed
  <2> QED BY <1>1, <2>1, MoveProper
<1>2. CASE i.op = "JSR"
  <2>1. w = JSR(k, i)
    BY <1>2 DEF Executed
  <2> QED BY <1>2, <2>1, JSRProper
<1>3. CASE i.op = "XOR"
  <2>1. w = ExclusiveOr(k, i)
    BY <1>3 DEF Executed
  <2> QED BY <1>3, <2>1, ExclusiveOrProper
<1>4. CASE i.op = "SOB"
  <2>1. w = SOB(k, i)
    BY <1>4 DEF Executed
  <2> QED BY <1>4, <2>1, SOBProper
<1>5. CASE i.op = "CLR"
  <2>1. w = Clear(k, i)
    BY <1>5 DEF Executed
  <2> QED BY <1>5, <2>1, ClearProper
<1>6. CASE i.op = "SXT"
  <2>1. w = SignExtend(k, i)
    BY <1>6 DEF Executed
  <2> QED BY <1>6, <2>1, SignExtendProper
<1>7. CASE i.op = "JMP"
  <2>1. w = JMP(k, i)
    BY <1>7 DEF Executed
  <2> QED BY <1>7, <2>1, JMPProper
<1>8. CASE i.op = "MARK"
  <2>1. w = MARK(k, i)
    BY <1>8 DEF Executed
  <2> QED BY <1>8, <2>1, MARKProper
<1>9. CASE i.op = "MFPI"
  <2>1. w = MFPI(k, i)
    BY <1>9 DEF Executed
  <2> QED BY <1>9, <2>1, MFPIProper
<1>10. CASE i.op = "MTPI"
  <2>1. w = MTPI(k, i)
    BY <1>10 DEF Executed
  <2> QED BY <1>10, <2>1, MTPIProper
<1>11. CASE i.op = "RTS"
  <2>1. w = RTS(k, i)
    BY <1>11 DEF Executed
  <2> QED BY <1>11, <2>1, RTSProper
<1>12. CASE i.op = "CCC"
  <2>1. w = SetFlags(k, i)
    BY <1>12 DEF Executed
  <2> QED BY <1>12, <2>1, SetFlagsProper
<1>13. CASE i.op \in TwoOperands
  <2>1. w = Binary(k, i)
    BY <1>13 DEF Executed
  <2> QED BY <1>13, <2>1, BinaryProper
<1>14. CASE i.op \in OneOperand
  <2>1. w = Unary(k, i)
    BY <1>14 DEF Executed
  <2> QED BY <1>14, <2>1, UnaryProper
<1>15. CASE i.op \in LongOps
  <2>1. w = Extended2(k, i, u)
    BY <1>15 DEF Executed
  <2> QED BY <1>15, <2>1, Extended2Proper
<1>16. CASE i.op \in Branches
  <2>1. w = Branch(k, i)
    BY <1>16 DEF Executed
  <2> QED BY <1>16, <2>1, BranchProper
<1>17. CASE i.op \notin SingleOps \cup TwoOperands \cup OneOperand \cup LongOps \cup Branches
  <2>1. w = Leaves(k, "invalid")
    BY <1>17 DEF Executed
  <2>2. k \in Machines /\ k.out \in Long /\ Runs(k)
    BY WordFacts DEF Prepared
  <2> HIDE DEF w
  <2>3. w \in Machines /\ w.left = "invalid"
    BY <2>1, <2>2, LeavesFacts DEF Reasons
  <2> QED BY <2>3 DEF Proper, w
<1> QED BY <1>1, <1>2, <1>3, <1>4, <1>5, <1>6, <1>7, <1>8, <1>9,
           <1>10, <1>11, <1>12, <1>13, <1>14, <1>15, <1>16, <1>17

\* What a step makes of the machine: either the fetch has faulted, or it is
\* what the instruction leaves.
LEMMA StepFacts ==
    ASSUME TypeOK, Step
    PROVE  LET i == routine.text[Text(m.r[PC] % 2^W)] IN
           /\ m' \in Machine
           /\ m'.left = "fault" /\ i.op # "MARK" => Undoable(m, m', i)
<1> DEFINE i == routine.text[Text(m.r[PC] % 2^W)]
           j == [m EXCEPT !.pc = m.r[PC]]
           k == Fetch16(j)
<1>1. Surroundings /\ m \in Machine /\ Runs(m) /\ PC \in 0 .. 7
  BY DEF TypeOK, Surroundings, Step, PC
<1>2. i \in TextWords
  BY <1>1, TextTyped DEF Step, Ended
<1>3. j \in Machines /\ j.r = m.r /\ j.f = m.f /\ j.core = m.core /\ Runs(j)
  BY <1>1, WordFacts DEF Machine, Machines, Runs, Reasons
<1>4. /\ k \in Machines /\ Quiet(j, k)
      /\ \A q \in 0 .. SP : k.r[q] = m.r[q]
      /\ Runs(k) => k.out \in Word
  BY <1>1, <1>3, Fetch16Facts
<1>5. PICK u \in BOOLEAN : m' = Settled(IF Runs(k) THEN Executed(k, i, u) ELSE k)
  BY DEF Step
<1> DEFINE w == IF Runs(k) THEN Executed(k, i, u) ELSE k
<1> HIDE DEF j, k, i
<1>6. /\ w \in Machines
      /\ w.left = "fault" /\ i.op # "MARK" => Undoable(m, w, i)
  <2>1. CASE Runs(k)
    <3>1. Proper(k, Executed(k, i, u), i)
      BY <1>1, <1>2, <1>4, <2>1, ExecutedProper DEF Prepared
    <3>2. w \in Machines /\ (w.left = "fault" /\ i.op # "MARK" => Undoable(k, w, i))
      BY <2>1, <3>1 DEF Proper
    <3>3. k.core = m.core /\ k.f = m.f
      BY <1>3, <1>4 DEF Quiet
    <3> HIDE DEF w
    <3>4. Undoable(k, w, i) => Undoable(m, w, i)
      BY <1>4, <3>3 DEF Undoable, Backable
    <3> QED BY <3>2, <3>4
  <2>2. CASE ~Runs(k)
    <3>1. w = k
      BY <2>2
    <3> HIDE DEF w
    <3>2. \A q \in 0 .. SP : w.r[q] = j.r[q]
      BY <1>3, <1>4, <3>1
    <3>3. Backable(j, w, i)
      BY <1>2, <1>3, <3>2, MovedNever
    <3>4. Backable(m, w, i)
      BY <1>3, <3>3 DEF Backable
    <3> QED BY <1>3, <1>4, <3>1, <3>4 DEF Undoable, Quiet
  <2> QED BY <2>1, <2>2
<1>7. m' = Settled(w)
  BY <1>5
<1> HIDE DEF w
<1>8. m' \in Machine
  BY <1>6, <1>7, WordFacts DEF Settled, Machine, Machines, Runs, Reasons
<1>9. m'.left = "fault" => m' = w
  BY <1>6, <1>7 DEF Settled, Machines, Runs
<1> QED BY <1>6, <1>8, <1>9 DEF i

LEMMA InitTyped == Init => TypeOK
<1> SUFFICES ASSUME Init PROVE TypeOK
  OBVIOUS
<1>1. PICK x \in [routine.inputs -> Inputs], b \in BOOLEAN :
          m = [r |-> routine.r, f |-> [n |-> b, z |-> b, v |-> b, c |-> b],
               core |-> [a \in Cells |-> IF a \in routine.inputs THEN x[a] ELSE 0],
               pc |-> 0, out |-> 0, left |-> "no"]
  BY DEF Init
<1>2. routine \in Routines /\ routine.r \in [0 .. 7 -> Long]
  BY RoutinesAssumption DEF Init
<1>3. [a \in Cells |-> IF a \in routine.inputs THEN x[a] ELSE 0] \in [Cells -> Word]
  BY InputsAssumption, WordFacts
<1>4. m \in Machine
  BY <1>1, <1>2, <1>3, WordFacts DEF Machine, Flags
<1>5. start = m /\ backup = m.r /\ absent = {} /\ evictions = 0
  BY DEF Init
<1>6. backup \in [0 .. 7 -> Long] /\ evictions \in 0 .. MaxEvictions
  BY <1>4, <1>5, EvictionsAssumption DEF Machine
<1> QED BY <1>2, <1>4, <1>5, <1>6 DEF TypeOK

\* The type invariant: R[] keeps its 32 bits, core its words, whatever an
\* instruction computes and wherever it is left; a fault names a page.
THEOREM TypeCorrect == Spec => []TypeOK
<1>1. Init => TypeOK
  BY InitTyped
<1>2. TypeOK /\ [Next]_vars => TypeOK'
  <2> SUFFICES ASSUME TypeOK, [Next]_vars PROVE TypeOK'
    OBVIOUS
  <2>1. CASE Step
    <3>1. m' \in Machine
      BY <2>1, StepFacts
    <3>2. m.r \in [0 .. 7 -> Long]
      BY DEF TypeOK, Machine
    <3> QED BY <2>1, <3>1, <3>2 DEF TypeOK, Step, Machine, Pages
  <2>2. CASE Resolve
    <3>1. [backup EXCEPT ![PC] = m.pc] \in [0 .. 7 -> Long]
      BY DEF TypeOK, Machine, PC
    <3>2. m' \in Machine
      BY <2>2, <3>1, WordFacts DEF Resolve, TypeOK, Machine
    <3> QED BY <2>2, <3>2 DEF TypeOK, Resolve, Machine, Pages
  <2>3. CASE Evict
    BY <2>3, EvictionsAssumption DEF Evict, TypeOK, Machine, Pages
  <2>4. CASE UNCHANGED vars
    BY <2>4 DEF vars, TypeOK, Machine, Pages
  <2> QED BY <2>1, <2>2, <2>3, <2>4 DEF Next, Exited
<1> QED BY <1>1, <1>2, PTL DEF Spec

\* An instruction that faults, at whichever of its accesses, can be undone by a
\* kernel that backs its registers up: the operations of step() come in an order
\* that stores last, and no instruction spoils a flag it reads.
THEOREM AbortsUndone == Spec => AbortUndoable
<1> DEFINE i == routine.text[Text(m.r[PC] % 2^W)]
           A == m.left = "no" /\ m'.left = "fault" =>
                    (i.op # "MARK" =>
                    /\ m'.core = m.core
                    /\ \A q \in 0 .. SP :
                           \E x \in Moves(i, q) : m'.r[q] = (m.r[q] + x) % 2^(2 * W)
                    /\ i.op \in {"ADC", "SBC", "ROR", "ROL"} => m'.f.c = m.f.c
                    /\ i.op = "SXT" => m'.f.n = m.f.n)
<1>1. TypeOK /\ [Next]_vars => [A]_vars
  <2> SUFFICES ASSUME TypeOK, Next, m.left = "no", m'.left = "fault" PROVE A
    OBVIOUS
  <2>1. Step
    BY DEF Next, Resolve, Evict, Exited, vars
  <2>2. i.op # "MARK" => Undoable(m, m', i)
    BY <2>1, StepFacts
  <2> HIDE DEF i
  <2> QED BY <2>2 DEF Undoable, Backable
<1>2. Spec => [][A]_vars
  BY <1>1, TypeCorrect, PTL DEF Spec
<1> QED BY <1>2 DEF AbortUndoable

-----------------------------------------------------------------------------
(***************************************************************************)
(* What the condition codes and the carries between words mean, for all    *)
(* operands.                                                               *)
(***************************************************************************)

\* The sign of a word or a byte divides its range in two halves.
LEMMA SignDivides ==
    ASSUME NEW l \in {1, 2}
    PROVE  \E h \in Nat \ {0} : /\ SignBit(l) = h /\ 2^Bits(l) = 2 * h
                                /\ \A x \in 0 .. 2 * h - 1 : Sign(x, l) <=> x >= h
<1>1. CASE W = 8 /\ l = 1
  <2>1. Bits(l) = 4
    BY <1>1 DEF Bits
  <2> QED BY <2>1 DEF SignBit, Sign, Bit
<1>2. CASE W = 8 /\ l = 2
  <2>1. Bits(l) = 8
    BY <1>2 DEF Bits
  <2> QED BY <2>1 DEF SignBit, Sign, Bit
<1>3. CASE W = 16 /\ l = 1
  <2>1. Bits(l) = 8
    BY <1>3 DEF Bits
  <2> QED BY <2>1 DEF SignBit, Sign, Bit
<1>4. CASE W = 16 /\ l = 2
  <2>1. Bits(l) = 16
    BY <1>4 DEF Bits
  <2> QED BY <2>1 DEF SignBit, Sign, Bit
<1> QED BY <1>1, <1>2, <1>3, <1>4, WidthAssumption

\* The number a word or a byte stands for.
Signed(x, l) == IF Sign(x, l) THEN x - 2^Bits(l) ELSE x

LEMMA ComparedFlags ==
    ASSUME NEW h \in Nat \ {0}, NEW a \in 0 .. 2 * h - 1, NEW b \in 0 .. 2 * h - 1,
           NEW d, d = (a - b) % (2 * h)
    PROVE  /\ d \in 0 .. 2 * h - 1
           /\ d = IF a >= b THEN a - b ELSE a - b + 2 * h
<1>1. PICK M \in Nat \ {0} : M = 2 * h
  OBVIOUS
<1>2. a - b \in Int /\ -M < a - b /\ a - b < M
  BY <1>1
<1>3. \A x \in Int : -M < x /\ x < M => x % M = IF x >= 0 THEN x ELSE x + M
  OBVIOUS
<1>4. d = IF a - b >= 0 THEN a - b ELSE a - b + M
  BY <1>1, <1>2, <1>3
<1> QED BY <1>1, <1>4

\* A conditional branch behind a comparison decides as the two numbers compare,
\* words or bytes, signed or unsigned: the flags that CMP sets and the conditions
\* that step() tests fit, for every pair of operands.
THEOREM BranchesCompare ==
    \A l \in {1, 2} : \A a, b \in 0 .. 2^Bits(l) - 1 : \A f \in Flags :
        LET c == CMP(a, b, l, f).f
            sa == Signed(a, l)
            sb == Signed(b, l)
        IN /\ Taken("BEQ", c) <=> a = b
           /\ Taken("BNE", c) <=> a # b
           /\ Taken("BLT", c) <=> sa < sb
           /\ Taken("BGE", c) <=> sa >= sb
           /\ Taken("BLE", c) <=> sa <= sb
           /\ Taken("BGT", c) <=> sa > sb
           /\ Taken("BCS", c) <=> a < b
           /\ Taken("BCC", c) <=> a >= b
           /\ Taken("BLOS", c) <=> a <= b
           /\ Taken("BHI", c) <=> a > b
           /\ Taken("BVS", c) <=> sa - sb \notin -SignBit(l) .. SignBit(l) - 1
           /\ Taken("BVC", c) <=> sa - sb \in -SignBit(l) .. SignBit(l) - 1
<1> TAKE l \in {1, 2}
<1> TAKE a, b \in 0 .. 2^Bits(l) - 1
<1> TAKE f \in Flags
<1> DEFINE d == (a - b) % 2^Bits(l)
           c == CMP(a, b, l, f).f
           sa == Signed(a, l)
           sb == Signed(b, l)
<1>1. PICK h \in Nat \ {0} : /\ SignBit(l) = h /\ 2^Bits(l) = 2 * h
                             /\ \A x \in 0 .. 2 * h - 1 : Sign(x, l) <=> x >= h
  BY SignDivides
<1>2. a \in 0 .. 2 * h - 1 /\ b \in 0 .. 2 * h - 1
  BY <1>1
<1>3. d \in 0 .. 2 * h - 1 /\ d = IF a >= b THEN a - b ELSE a - b + 2 * h
  BY <1>1, <1>2, ComparedFlags
<1>4. /\ c.n <=> Sign(d, l)
      /\ c.z <=> d = 0
      /\ c.v <=> (Sign(a, l) # Sign(b, l) /\ Sign(b, l) = Sign(d, l))
      /\ c.c <=> a < b
  BY DEF CMP, FlagsOnly, Result
<1>5. /\ Taken("BEQ", c) <=> c.z
      /\ Taken("BNE", c) <=> ~c.z
      /\ Taken("BLT", c) <=> ~(c.n <=> c.v)
      /\ Taken("BGE", c) <=> (c.n <=> c.v)
      /\ Taken("BLE", c) <=> (~(c.n <=> c.v) \/ c.z)
      /\ Taken("BGT", c) <=> ((c.n <=> c.v) /\ ~c.z)
      /\ Taken("BCS", c) <=> c.c
      /\ Taken("BCC", c) <=> ~c.c
      /\ Taken("BLOS", c) <=> (c.c \/ c.z)
      /\ Taken("BHI", c) <=> (~c.c /\ ~c.z)
      /\ Taken("BVS", c) <=> c.v
      /\ Taken("BVC", c) <=> ~c.v
  <2>1. c \in Flags
    <3>1. CMP(a, b, l, f) \in Results
      BY CompareTyped
    <3> QED BY <3>1 DEF Results
  <2> HIDE DEF c
  <2>2. c.n \in BOOLEAN /\ c.v \in BOOLEAN
    BY <2>1 DEF Flags
  <2> QED BY <2>2 DEF Taken
<1> HIDE DEF d, c
<1>6. /\ Sign(a, l) <=> a >= h
      /\ Sign(b, l) <=> b >= h
      /\ Sign(d, l) <=> d >= h
  BY <1>1, <1>2, <1>3
<1>7. /\ sa = IF a >= h THEN a - 2 * h ELSE a
      /\ sb = IF b >= h THEN b - 2 * h ELSE b
  BY <1>1, <1>6 DEF Signed
<1> HIDE DEF sa, sb
<1>8. /\ c.n <=> d >= h
      /\ c.v <=> (~(a >= h <=> b >= h) /\ (b >= h <=> d >= h))
      /\ c.z <=> d = 0
      /\ c.c <=> a < b
  <2>1. \A x, y : Sign(x, y) \in BOOLEAN
    BY DEF Sign, Bit
  <2>2. c.v <=> (~(Sign(a, l) <=> Sign(b, l)) /\ (Sign(b, l) <=> Sign(d, l)))
    BY <1>4, <2>1
  <2> QED BY <1>4, <1>6, <2>2
<1>9. /\ c.z <=> a = b
      /\ c.v <=> (sa - sb < -h \/ sa - sb > h - 1)
      /\ ~(c.n <=> c.v) <=> sa < sb
  <2>1. /\ d = 0 <=> a = b
        /\ (~(a >= h <=> b >= h) /\ (b >= h <=> d >= h)) <=> (sa - sb < -h \/ sa - sb > h - 1)
        /\ ~(d >= h <=> (~(a >= h <=> b >= h) /\ (b >= h <=> d >= h))) <=> sa < sb
    BY <1>2, <1>3, <1>7
  <2> QED BY <1>8, <2>1
<1>10. /\ (sa - sb < -h \/ sa - sb > h - 1) <=> sa - sb \notin -h .. h - 1
       /\ sa = sb <=> a = b
       /\ sa \in Int /\ sb \in Int
  BY <1>2, <1>7
<1>11. /\ Taken("BLE", c) <=> sa <= sb
       /\ Taken("BGT", c) <=> sa > sb
  BY <1>5, <1>9, <1>10
<1> QED BY <1>1, <1>2, <1>5, <1>8, <1>9, <1>10, <1>11 DEF c, sa, sb

\* V and C say of a sum and of a difference whether it has left the signed range
\* and the unsigned one, for any two words.
THEOREM OverflowsTold ==
    \A a, b \in Word : \A f \in Flags :
        LET s == ADD(a, b, 2, f).f
            d == SUB(a, b, 2, f).f
            sa == Signed(a, 2)
            sb == Signed(b, 2)
        IN /\ s.v <=> sa + sb \notin -SignBit(2) .. SignBit(2) - 1
           /\ s.c <=> a + b \notin Word
           /\ d.v <=> sb - sa \notin -SignBit(2) .. SignBit(2) - 1
           /\ d.c <=> b - a \notin Word
<1> TAKE a, b \in Word
<1> TAKE f \in Flags
<1> DEFINE s == ADD(a, b, 2, f).f
           d == SUB(a, b, 2, f).f
           u == (a + b) % 2^W
           e == (b - a) % 2^W
           sa == Signed(a, 2)
           sb == Signed(b, 2)
<1>1. Bits(2) = W
  BY DEF Bits
<1>2. PICK h \in Nat \ {0} : /\ SignBit(2) = h /\ 2^W = 2 * h
                             /\ \A x \in 0 .. 2 * h - 1 : Sign(x, 2) <=> x >= h
  BY <1>1, SignDivides
<1>3. a \in 0 .. 2 * h - 1 /\ b \in 0 .. 2 * h - 1 /\ Word = 0 .. 2 * h - 1
  BY <1>2 DEF Word
<1>4. e \in 0 .. 2 * h - 1 /\ e = IF b >= a THEN b - a ELSE b - a + 2 * h
  BY <1>2, <1>3, ComparedFlags
<1>5. u \in 0 .. 2 * h - 1 /\ u = IF a + b < 2 * h THEN a + b ELSE a + b - 2 * h
  <2>1. PICK M \in Nat \ {0} : M = 2 * h
    OBVIOUS
  <2>2. \A x \in Int : 0 <= x /\ x < 2 * M => x % M = IF x < M THEN x ELSE x - M
    OBVIOUS
  <2>3. PICK x \in Int : x = a + b /\ 0 <= x /\ x < 2 * M
    BY <1>3, <2>1
  <2>4. u = x % M
    BY <1>2, <2>1, <2>3
  <2> HIDE DEF u
  <2>5. u = IF x < M THEN x ELSE x - M
    BY <2>2, <2>3, <2>4
  <2> QED BY <1>3, <2>1, <2>3, <2>5
<1>6. /\ s.v <=> (Sign(a, 2) = Sign(b, 2) /\ Sign(b, 2) # Sign(u, 2))
      /\ s.c <=> a + b >= 2^W
      /\ d.v <=> (Sign(a, 2) # Sign(b, 2) /\ Sign(a, 2) = Sign(e, 2))
      /\ d.c <=> a > b
  BY DEF ADD, SUB, Result
<1> HIDE DEF s, d, u, e
<1>7. /\ Sign(a, 2) <=> a >= h
      /\ Sign(b, 2) <=> b >= h
      /\ Sign(u, 2) <=> u >= h
      /\ Sign(e, 2) <=> e >= h
  BY <1>2, <1>3, <1>4, <1>5
<1>8. /\ s.v <=> ((a >= h <=> b >= h) /\ ~(b >= h <=> u >= h))
      /\ d.v <=> (~(a >= h <=> b >= h) /\ (a >= h <=> e >= h))
  <2>1. \A x, y : Sign(x, y) \in BOOLEAN
    BY DEF Sign, Bit
  <2>2. /\ s.v <=> ((Sign(a, 2) <=> Sign(b, 2)) /\ ~(Sign(b, 2) <=> Sign(u, 2)))
        /\ d.v <=> (~(Sign(a, 2) <=> Sign(b, 2)) /\ (Sign(a, 2) <=> Sign(e, 2)))
    BY <1>6, <2>1
  <2> QED BY <1>7, <2>2
<1>9. /\ sa = IF a >= h THEN a - 2 * h ELSE a
      /\ sb = IF b >= h THEN b - 2 * h ELSE b
  BY <1>1, <1>2, <1>7 DEF Signed
<1> HIDE DEF sa, sb
<1>10. /\ ((a >= h <=> b >= h) /\ ~(b >= h <=> u >= h)) <=> sa + sb \notin -h .. h - 1
       /\ (~(a >= h <=> b >= h) /\ (a >= h <=> e >= h)) <=> sb - sa \notin -h .. h - 1
  BY <1>3, <1>4, <1>5, <1>9
<1>11. /\ a + b >= 2^W <=> a + b \notin Word
       /\ a > b <=> b - a \notin Word
  BY <1>2, <1>3
<1> QED BY <1>2, <1>6, <1>8, <1>10, <1>11 DEF s, d, sa, sb

\* The number of two words, the upper one first.
Doubled(hi, lo) == 2^W * hi + lo

\* Double words: what the carry or the borrow of the lower words, taken along by
\* ADC and SBC, makes of the upper ones is the sum and the difference of the
\* whole, of any two numbers.
THEOREM CarriesChain ==
    \A a0, a1, b0, b1 \in Word : \A f \in Flags :
        LET sum == ADD(a0, b0, 2, f)
            carried == ADC(b1, 2, sum.f)
            difference == SUB(a0, b0, 2, f)
            borrowed == SBC(b1, 2, difference.f)
            aa == Doubled(a1, a0)
            bb == Doubled(b1, b0)
        IN /\ Doubled(ADD(a1, carried.val, 2, carried.f).val, sum.val) = (aa + bb) % 2^(2 * W)
           /\ Doubled(SUB(a1, borrowed.val, 2, borrowed.f).val, difference.val)
                  = (bb - aa) % 2^(2 * W)
<1> TAKE a0, a1, b0, b1 \in Word
<1> TAKE f \in Flags
<1> DEFINE sum == ADD(a0, b0, 2, f)
           carried == ADC(b1, 2, sum.f)
           difference == SUB(a0, b0, 2, f)
           borrowed == SBC(b1, 2, difference.f)
           t == ADD(a1, carried.val, 2, carried.f)
           s == SUB(a1, borrowed.val, 2, borrowed.f)
<1>1. Bits(2) = W
  BY DEF Bits
<1>2. /\ sum.val = (a0 + b0) % 2^W
      /\ sum.f.c <=> a0 + b0 >= 2^W
      /\ difference.val = (b0 - a0) % 2^W
      /\ difference.f.c <=> a0 > b0
  BY DEF ADD, SUB, Result
<1>3. /\ carried.val = IF sum.f.c THEN (b1 + 1) % 2^W ELSE b1
      /\ borrowed.val = (b1 - (IF difference.f.c THEN 1 ELSE 0)) % 2^W
  BY <1>1 DEF ADC, SBC, Result
<1>4. /\ t.val = (a1 + carried.val) % 2^W
      /\ s.val = (borrowed.val - a1) % 2^W
  BY DEF ADD, SUB, Result
<1> HIDE DEF sum, carried, difference, borrowed, t, s
<1>5. PICK cs \in Int, cd \in Int : /\ cs = IF a0 + b0 >= 2^W THEN 1 ELSE 0
                                    /\ cd = IF a0 > b0 THEN 1 ELSE 0
  OBVIOUS
<1>6. /\ sum.val = a0 + b0 - cs * 2^W
      /\ t.val = (a1 + ((b1 + cs) % 2^W)) % 2^W
      /\ difference.val = b0 - a0 + cd * 2^W
      /\ s.val = (((b1 - cd) % 2^W) - a1) % 2^W
  <2>1. CASE W = 8
    BY <1>2, <1>3, <1>4, <1>5, <2>1 DEF Word
  <2>2. CASE W = 16
    BY <1>2, <1>3, <1>4, <1>5, <2>2 DEF Word
  <2> QED BY <2>1, <2>2, WidthAssumption
<1>7. /\ Doubled(t.val, sum.val) = (Doubled(a1, a0) + Doubled(b1, b0)) % 2^(2 * W)
      /\ Doubled(s.val, difference.val) = (Doubled(b1, b0) - Doubled(a1, a0)) % 2^(2 * W)
  <2>1. CASE W = 8
    BY <1>5, <1>6, <2>1 DEF Word, Doubled
  <2>2. CASE W = 16
    BY <1>5, <1>6, <2>2 DEF Word, Doubled
  <2> QED BY <2>1, <2>2, WidthAssumption
<1> QED BY <1>7 DEF sum, carried, difference, borrowed, t, s


\* A double word negated, doubled and halved by its halves: the borrow of NEG, the
\* bits that ASL and ROR shift out and ROL and ROR take in.
THEOREM HalvesChain ==
    \A hi, lo \in Word : \A f \in Flags :
        LET bb == Doubled(hi, lo)
            negated == NEG(lo, 2, f)
            doubled == ASL(lo, 2, f)
            halved == ROR(hi, 2, [f EXCEPT !.c = FALSE])
        IN /\ Doubled(SBC(NEG(hi, 2, f).val, 2, negated.f).val, negated.val) = (-bb) % 2^(2 * W)
           /\ Doubled(ROL(hi, 2, doubled.f).val % 2^W, doubled.val) = (2 * bb) % 2^(2 * W)
           /\ Doubled(halved.val, ROR(lo, 2, halved.f).val) = bb \div 2
<1> TAKE hi, lo \in Word
<1> TAKE f \in Flags
<1> DEFINE bb == Doubled(hi, lo)
           negated == NEG(lo, 2, f)
           upper == NEG(hi, 2, f)
           borrowed == SBC(upper.val, 2, negated.f)
           doubled == ASL(lo, 2, f)
           rotated == ROL(hi, 2, doubled.f)
           halved == ROR(hi, 2, [f EXCEPT !.c = FALSE])
           rest == ROR(lo, 2, halved.f)
<1>1. Bits(2) = W
  BY DEF Bits
<1>2. PICK h \in Nat \ {0} : /\ SignBit(2) = h /\ 2^W = 2 * h
                             /\ \A x \in 0 .. 2 * h - 1 : Sign(x, 2) <=> x >= h
  BY <1>1, SignDivides
<1>3. Sign(lo, 2) <=> lo >= h
  BY <1>2 DEF Word
<1>4. /\ upper.val = (-hi) % 2^W /\ negated.val = (-lo) % 2^W
      /\ negated.f.c <=> (-lo) % 2^W # 0
      /\ doubled.val = (2 * lo) % 2^W
      /\ doubled.f.c <=> lo >= h
  BY <1>1, <1>3 DEF NEG, ASL, Result
<1>5. /\ borrowed.val = (upper.val - (IF negated.f.c THEN 1 ELSE 0)) % 2^W
      /\ rotated.val = 2 * hi + (IF doubled.f.c THEN 1 ELSE 0)
  BY <1>1 DEF SBC, ROL, Result
<1>6. halved.val = hi \div 2 + 0 /\ (halved.f.c <=> hi % 2 = 1)
  BY DEF ROR, Result, Flags
<1>7. rest.val = lo \div 2 + (IF halved.f.c THEN h ELSE 0)
  BY <1>2 DEF ROR, Result
<1> HIDE DEF negated, upper, borrowed, doubled, rotated, halved, rest
<1>8. Doubled(borrowed.val, negated.val) = (-bb) % 2^(2 * W)
  <2>1. PICK c \in Int : c = IF (-lo) % 2^W # 0 THEN 1 ELSE 0
    OBVIOUS
  <2>2. borrowed.val = (((-hi) % 2^W) - c) % 2^W
    BY <1>4, <1>5, <2>1
  <2>3. CASE W = 8
    BY <1>4, <2>1, <2>2, <2>3 DEF Word, Doubled
  <2>4. CASE W = 16
    BY <1>4, <2>1, <2>2, <2>4 DEF Word, Doubled
  <2> QED BY <2>3, <2>4, WidthAssumption
<1>9. Doubled(rotated.val % 2^W, doubled.val) = (2 * bb) % 2^(2 * W)
  <2>1. PICK c \in Int : c = IF lo >= h THEN 1 ELSE 0
    OBVIOUS
  <2>2. rotated.val = 2 * hi + c
    BY <1>4, <1>5, <2>1
  <2>3. CASE W = 8
    BY <1>2, <1>4, <2>1, <2>2, <2>3 DEF Word, Doubled
  <2>4. CASE W = 16
    BY <1>2, <1>4, <2>1, <2>2, <2>4 DEF Word, Doubled
  <2> QED BY <2>3, <2>4, WidthAssumption
<1>10. Doubled(halved.val, rest.val) = bb \div 2
  <2>1. PICK c \in Int : c = IF hi % 2 = 1 THEN h ELSE 0
    OBVIOUS
  <2>2. rest.val = lo \div 2 + c /\ halved.val = hi \div 2
    <3>1. hi \div 2 \in Int
      BY WordFacts
    <3> QED BY <1>6, <1>7, <2>1, <3>1
  <2>3. CASE W = 8
    BY <1>2, <2>1, <2>2, <2>3 DEF Word, Doubled
  <2>4. CASE W = 16
    BY <1>2, <2>1, <2>2, <2>4 DEF Word, Doubled
  <2> QED BY <2>3, <2>4, WidthAssumption
<1> QED BY <1>8, <1>9, <1>10 DEF bb, negated, upper, borrowed, doubled, rotated, halved, rest

-----------------------------------------------------------------------------
(***************************************************************************)
(* Words as sets of positions.  A sum of powers of two is the same in      *)
(* whatever order it is taken, and every word is such a sum of its ones.   *)
(***************************************************************************)
\* Induction over a set of naturals.
LEMMA Reached ==
    ASSUME NEW T, 0 \in T, \A n \in Nat : n \in T => n + 1 \in T
    PROVE  Nat \subseteq T
<1> DEFINE U == Nat \ T
<1>1. SUFFICES ASSUME U # {} PROVE FALSE
  OBVIOUS
<1>2. PICK n \in U : \A k \in U : n <= k
  BY <1>1, Least
<1> HIDE DEF U
<1>3. n \in Nat /\ n \notin T /\ n # 0
  BY DEF U
<1>4. n - 1 \in Nat /\ ~(n <= n - 1)
  BY <1>3
<1>5. n - 1 \in T
  BY <1>2, <1>4 DEF U
<1> QED BY <1>3, <1>4, <1>5

Same(g, h, U) == \A s \in U : h[s] = g[s]

\* The recursion has no other solution.
LEMMA SumsAgree ==
    ASSUME NEW S \in SUBSET Int, IsFiniteSet(S), NEW T \in SUBSET S,
           NEW g, Sums(g, SUBSET S), NEW h, Sums(h, SUBSET T)
    PROVE  Same(g, h, SUBSET T)
<1> DEFINE D == {n \in Nat : \A s \in SUBSET T : Cardinality(s) <= n => h[s] = g[s]}
<1>0. \A s \in SUBSET T : /\ s \in SUBSET S /\ Cardinality(s) \in Nat
                          /\ (Cardinality(s) = 0 => s = {})
  BY FS_Subset, FS_CardinalityType, FS_EmptySet
<1>1. \A s \in SUBSET T : s # {} => /\ s \ {Picked(s)} \in SUBSET T
                                    /\ Cardinality(s \ {Picked(s)}) = Cardinality(s) - 1
  <2> TAKE s \in SUBSET T
  <2> HAVE s # {}
  <2>1. Picked(s) \in s
    BY DEF Picked
  <2>2. IsFiniteSet(s)
    BY FS_Subset
  <2> QED BY <2>1, <2>2, FS_RemoveElement
<1>2. \A s \in SUBSET T :
          /\ g[s] = IF s = {} THEN 0 ELSE Picked(s) + g[s \ {Picked(s)}]
          /\ h[s] = IF s = {} THEN 0 ELSE Picked(s) + h[s \ {Picked(s)}]
  BY <1>0 DEF Sums
<1>3. 0 \in D
  <2>1. ASSUME NEW s \in SUBSET T, Cardinality(s) <= 0 PROVE h[s] = g[s]
    <3>1. s = {}
      BY <1>0, <2>1
    <3> QED BY <3>1, <1>2
  <2> QED BY <2>1
<1>4. ASSUME NEW n \in Nat, n \in D PROVE n + 1 \in D
  <2>1. ASSUME NEW s \in SUBSET T, Cardinality(s) <= n + 1, s # {} PROVE h[s] = g[s]
    <3>1. Cardinality(s \ {Picked(s)}) <= n /\ s \ {Picked(s)} \in SUBSET T
      BY <1>0, <1>1, <2>1
    <3>2. h[s \ {Picked(s)}] = g[s \ {Picked(s)}]
      BY <1>4, <3>1
    <3> QED BY <1>2, <2>1, <3>2
  <2>2. h[{}] = g[{}]
    BY <1>2
  <2>3. \A s \in SUBSET T : Cardinality(s) <= n + 1 => h[s] = g[s]
    BY <2>1, <2>2
  <2>4. n + 1 \in Nat
    OBVIOUS
  <2> QED BY <2>3, <2>4
<1> HIDE DEF D
<1>5. Nat \subseteq D
  BY <1>3, <1>4, Reached
<1>6. \A s \in SUBSET T : Cardinality(s) \in D /\ Cardinality(s) <= Cardinality(s)
  BY <1>0, <1>5
<1> QED BY <1>6 DEF D, Same

LEMMA SumSetAgrees ==
    ASSUME NEW S \in SUBSET Int, IsFiniteSet(S), NEW T \in SUBSET S,
           NEW g, Sums(g, SUBSET S)
    PROVE  SumSet(T) = g[T]
<1>1. IsFiniteSet(T) /\ T \in SUBSET Int
  BY FS_Subset
<1>2. PICK h \in [SUBSET T -> Int] : Sums(h, SUBSET T) /\ SumSet(T) = h[T]
  BY <1>1, SumSetSums
<1>3. Sums(h, SUBSET T)
  BY <1>2
<1>4. T \in SUBSET T
  OBVIOUS
<1>5. Same(g, h, SUBSET T)
  BY <1>3, SumsAgree
<1> QED BY <1>2, <1>4, <1>5 DEF Same

\* Any element may be taken out of a sum.
LEMMA SumSetTakes ==
    ASSUME NEW S \in SUBSET Int, IsFiniteSet(S)
    PROVE  /\ SumSet({}) = 0
           /\ \A x \in S : SumSet(S) = x + SumSet(S \ {x})
<1>1. PICK g \in [SUBSET S -> Int] : Sums(g, SUBSET S) /\ SumSet(S) = g[S]
  BY SumSetSums
<1>2. \A T \in SUBSET S : SumSet(T) = g[T]
  BY <1>1, SumSetAgrees
<1>3. g[{}] = 0
  BY <1>1 DEF Sums
<1> DEFINE Taken1(s) == \A x \in s : g[s] = x + g[s \ {x}]
           D == {n \in Nat : \A s \in SUBSET S : Cardinality(s) <= n => Taken1(s)}
<1>4. \A s \in SUBSET S : /\ IsFiniteSet(s) /\ Cardinality(s) \in Nat
                          /\ (Cardinality(s) = 0 => s = {})
  BY FS_Subset, FS_CardinalityType, FS_EmptySet
<1>5. 0 \in D
  <2>1. ASSUME NEW s \in SUBSET S, Cardinality(s) <= 0 PROVE Taken1(s)
    <3>1. s = {}
      BY <1>4, <2>1
    <3> QED BY <3>1
  <2> QED BY <2>1
<1>6. ASSUME NEW n \in Nat, n \in D PROVE n + 1 \in D
  <2>1. ASSUME NEW s \in SUBSET S, Cardinality(s) <= n + 1, NEW x \in s
        PROVE  g[s] = x + g[s \ {x}]
    <3> DEFINE p == Picked(s)
    <3>1. p \in s /\ g[s] = p + g[s \ {p}]
      BY <1>1 DEF Picked, Sums
    <3> HIDE DEF p
    <3>2. CASE x = p
      BY <3>1, <3>2
    <3>3. CASE x # p
      <4>1. /\ Cardinality(s \ {p}) <= n /\ s \ {p} \in SUBSET S /\ x \in s \ {p}
            /\ Cardinality(s \ {x}) <= n /\ s \ {x} \in SUBSET S /\ p \in s \ {x}
        BY <1>4, <2>1, <3>1, <3>3, FS_RemoveElement
      <4>2. Taken1(s \ {p}) /\ Taken1(s \ {x})
        BY <1>6, <4>1
      <4>3. /\ g[s \ {p}] = x + g[(s \ {p}) \ {x}]
            /\ g[s \ {x}] = p + g[(s \ {x}) \ {p}]
        BY <4>1, <4>2
      <4>4. (s \ {p}) \ {x} = (s \ {x}) \ {p} /\ (s \ {p}) \ {x} \in SUBSET S
        OBVIOUS
      <4> DEFINE y == g[(s \ {p}) \ {x}]
      <4>5. y \in Int /\ p \in Int /\ x \in Int
        BY <1>1, <3>1, <4>4
      <4>6. g[s] = p + (x + y) /\ g[s \ {x}] = p + y
        BY <3>1, <4>3, <4>4
      <4> HIDE DEF y
      <4> QED BY <4>5, <4>6
    <3> QED BY <3>2, <3>3
  <2>2. \A s \in SUBSET S : Cardinality(s) <= n + 1 => Taken1(s)
    BY <2>1
  <2>3. n + 1 \in Nat
    OBVIOUS
  <2> HIDE DEF Taken1
  <2> QED BY <2>2, <2>3
<1> HIDE DEF D
<1>7. Nat \subseteq D
  BY <1>5, <1>6, Reached
<1>8. Cardinality(S) \in D /\ S \in SUBSET S /\ Cardinality(S) <= Cardinality(S)
  BY <1>4, <1>7
<1>9. Taken1(S)
  BY <1>8 DEF D
<1>10. \A x \in S : S \ {x} \in SUBSET S
  OBVIOUS
<1> QED BY <1>1, <1>2, <1>3, <1>9, <1>10

-----------------------------------------------------------------------------
\* The powers of two up to those of a double word.
LEMMA PowersDouble ==
    /\ 2^0 = 1
    /\ \A k \in 0 .. 2 * W : 2^k \in Nat \ {0}
    /\ \A k \in 0 .. 2 * W - 1 : 2^(k + 1) = 2 * 2^k
<1> DEFINE P(k) == 2^(k + 1) = 2 * 2^k
<1>1. /\ P(0) /\ P(1) /\ P(2) /\ P(3) /\ P(4) /\ P(5) /\ P(6) /\ P(7)
      /\ P(8) /\ P(9) /\ P(10) /\ P(11) /\ P(12) /\ P(13) /\ P(14) /\ P(15)
      /\ P(16)
  OBVIOUS
<1>2. /\ P(17) /\ P(18) /\ P(19) /\ P(20) /\ P(21) /\ P(22) /\ P(23) /\ P(24)
      /\ P(25) /\ P(26) /\ P(27) /\ P(28) /\ P(29) /\ P(30) /\ P(31)
  OBVIOUS
<1> HIDE DEF P
<1>3. ASSUME NEW k \in 0 .. 31 PROVE P(k)
  <2>1. CASE k \in 0 .. 16
    <3>1. \/ k = 0 \/ k = 1 \/ k = 2 \/ k = 3 \/ k = 4 \/ k = 5 \/ k = 6 \/ k = 7
          \/ k = 8 \/ k = 9 \/ k = 10 \/ k = 11 \/ k = 12 \/ k = 13 \/ k = 14 \/ k = 15
          \/ k = 16
      BY <2>1
    <3> QED BY <1>1, <3>1
  <2>2. CASE k \in 17 .. 31
    <3>1. \/ k = 17 \/ k = 18 \/ k = 19 \/ k = 20 \/ k = 21 \/ k = 22 \/ k = 23 \/ k = 24
          \/ k = 25 \/ k = 26 \/ k = 27 \/ k = 28 \/ k = 29 \/ k = 30 \/ k = 31
      BY <2>2
    <3> QED BY <1>2, <3>1
  <2> QED BY <2>1, <2>2
<1>4. \A k \in 0 .. 2 * W - 1 : k \in 0 .. 31
  BY WidthAssumption
<1>5. \A k \in 0 .. 2 * W - 1 : P(k)
  BY <1>3, <1>4
<1>6. 2^0 = 1
  OBVIOUS
<1> QED BY <1>5, <1>6, ShiftPowers DEF P

\* Induction over the positions of the bits.
LEMMA PlacesReached ==
    ASSUME NEW T, 0 \in T, \A n \in 0 .. 2 * W - 1 : n \in T => n + 1 \in T
    PROVE  0 .. 2 * W \subseteq T
<1> DEFINE U == T \cup {n \in Nat : n > 2 * W}
<1>0. 2 * W \in Nat
  BY WidthAssumption
<1>1. 0 \in U
  OBVIOUS
<1>2. ASSUME NEW n \in Nat, n \in U PROVE n + 1 \in U
  BY <1>0, <1>2
<1> HIDE DEF U
<1>3. Nat \subseteq U
  BY <1>1, <1>2, Reached
<1> QED BY <1>0, <1>3 DEF U

\* A higher power is an even multiple of a lower one.
LEMMA PowersDivide ==
    \A k \in 0 .. 2 * W : \A j \in 0 .. k - 1 : \E q \in Nat \ {0} : 2^k = (2 * q) * 2^j
<1> DEFINE P(k, j) == \E q \in Nat \ {0} : 2^k = (2 * q) * 2^j
           T == {k \in 0 .. 2 * W : \A j \in 0 .. k - 1 : P(k, j)}
<1>0. 2 * W \in Nat
  BY WidthAssumption
<1>1. 0 \in T
  BY <1>0
<1>2. ASSUME NEW n \in 0 .. 2 * W - 1, n \in T PROVE n + 1 \in T
  <2>1. ASSUME NEW j \in 0 .. n PROVE P(n + 1, j)
    <3>0. 2^(n + 1) = 2 * 2^n /\ 2^n \in Nat /\ 2^j \in Nat
      BY <1>0, PowersDouble
    <3>1. CASE j = n
      <4>1. 2^(n + 1) = (2 * 1) * 2^j /\ 1 \in Nat \ {0}
        BY <3>0, <3>1
      <4> QED BY <4>1
    <3>2. CASE j # n
      <4>1. PICK q \in Nat \ {0} : 2^n = (2 * q) * 2^j
        BY <1>2, <3>2
      <4>2. 2^(n + 1) = (2 * (2 * q)) * 2^j /\ 2 * q \in Nat \ {0}
        BY <3>0, <4>1
      <4> QED BY <4>2
    <3> QED BY <3>1, <3>2
  <2>2. n + 1 \in 0 .. 2 * W /\ 0 .. (n + 1) - 1 = 0 .. n
    BY <1>0
  <2> HIDE DEF P
  <2> QED BY <2>1, <2>2
<1> HIDE DEF T
<1>3. 0 .. 2 * W \subseteq T
  BY <1>1, <1>2, PlacesReached
<1> QED BY <1>3 DEF T

\* Any one may be taken out of a number.
LEMMA FromBitsTakes ==
    ASSUME NEW K \in SUBSET (0 .. 2 * W - 1)
    PROVE  /\ FromBits({}) = 0 /\ FromBits(K) \in Int
           /\ \A k \in K : FromBits(K) = 2^k + FromBits(K \ {k})
<1> DEFINE S == {2^k : k \in K}
           power == [k \in K |-> 2^k]
<1>0. 2 * W \in Nat /\ \A k \in 0 .. 2 * W - 1 : k \in 0 .. 2 * W /\ 2^k \in Int
  BY WidthAssumption, PowersDouble
<1>1. IsFiniteSet(K)
  <2>1. 0 \in Int /\ 2 * W - 1 \in Int
    BY <1>0
  <2>2. IsFiniteSet(0 .. 2 * W - 1)
    BY <2>1, FS_Interval
  <2> QED BY <2>2, FS_Subset
<1>2. power \in Surjection(K, S)
  BY DEF Surjection
<1>3. IsFiniteSet(S) /\ S \in SUBSET Int
  BY <1>0, <1>1, <1>2, FS_Surjection
<1>4. ASSUME NEW k \in K PROVE {2^j : j \in K \ {k}} = S \ {2^k}
  <2>1. ASSUME NEW j \in K, j # k PROVE 2^j # 2^k
    <3>1. CASE j < k
      <4>0. k \in 0 .. 2 * W /\ j \in 0 .. k - 1
        BY <1>0, <3>1
      <4>1. PICK q \in Nat \ {0} : 2^k = (2 * q) * 2^j
        BY <4>0, PowersDivide
      <4>2. 2^j \in Nat \ {0}
        BY <1>0, PowersDouble
      <4> DEFINE x == 2^j
      <4> HIDE DEF x
      <4>3. (2 * q) * x # x
        BY <4>2 DEF x
      <4> QED BY <4>1, <4>3 DEF x
    <3>2. CASE k < j
      <4>0. j \in 0 .. 2 * W /\ k \in 0 .. j - 1
        BY <1>0, <3>2
      <4>1. PICK q \in Nat \ {0} : 2^j = (2 * q) * 2^k
        BY <4>0, PowersDivide
      <4>2. 2^k \in Nat \ {0}
        BY <1>0, PowersDouble
      <4> DEFINE x == 2^k
      <4> HIDE DEF x
      <4>3. (2 * q) * x # x
        BY <4>2 DEF x
      <4> QED BY <4>1, <4>3 DEF x
    <3>3. j \in Int /\ k \in Int
      OBVIOUS
    <3> QED BY <2>1, <3>1, <3>2, <3>3
  <2> QED BY <2>1
<1>5. FromBits({}) = 0
  <2>1. {2^k : k \in {}} = {}
    OBVIOUS
  <2> QED BY <2>1, <1>3, SumSetTakes DEF FromBits
<1>6. ASSUME NEW k \in K PROVE FromBits(K) = 2^k + FromBits(K \ {k})
  <2>1. 2^k \in S
    OBVIOUS
  <2>2. FromBits(K \ {k}) = SumSet(S \ {2^k})
    BY <1>4 DEF FromBits
  <2>3. FromBits(K) = SumSet(S)
    BY DEF FromBits
  <2> HIDE DEF S
  <2> QED BY <1>3, <2>1, <2>2, <2>3, SumSetTakes
<1> QED BY <1>5, <1>6, FromBitsTyped

\* Quotient and remainder are the only ones, and a multiple comes out of them.
LEMMA Remainders ==
    ASSUME NEW d \in Nat \ {0}, NEW y \in Int
    PROVE  y = d * (y \div d) + (y % d) /\ y % d \in 0 .. d - 1 /\ y \div d \in Int
OBVIOUS

LEMMA RemaindersAgree ==
    ASSUME NEW d \in Nat \ {0}, NEW q \in Int, NEW r \in 0 .. d - 1,
           NEW p \in Int, NEW s \in 0 .. d - 1, d * q + r = d * p + s
    PROVE  q = p /\ r = s
<1>1. CASE q < p
  <2>1. PICK e \in Nat : p = q + 1 + e
    <3>1. p - q - 1 \in Nat /\ p = q + 1 + (p - q - 1)
      BY <1>1
    <3> QED BY <3>1
  <2>2. d * p = d * q + d + d * e /\ d * e >= 0
    BY <2>1
  <2>3. d * q \in Int /\ d * e \in Int
    BY <2>1
  <2> QED BY <2>2, <2>3
<1>2. CASE p < q
  <2>1. PICK e \in Nat : q = p + 1 + e
    <3>1. q - p - 1 \in Nat /\ q = p + 1 + (q - p - 1)
      BY <1>2
    <3> QED BY <3>1
  <2>2. d * q = d * p + d + d * e /\ d * e >= 0
    BY <2>1
  <2>3. d * p \in Int /\ d * e \in Int
    BY <2>1
  <2> QED BY <2>2, <2>3
<1>3. CASE p = q
  BY <1>3
<1> QED BY <1>1, <1>2, <1>3

LEMMA Divided ==
    ASSUME NEW d \in Nat \ {0}, NEW q \in Int, NEW r \in 0 .. d - 1, NEW y, y = d * q + r
    PROVE  y \div d = q /\ y % d = r
<1> DEFINE p == y \div d
           s == y % d
<1>1. y \in Int
  OBVIOUS
<1>2. y = d * p + s /\ s \in 0 .. d - 1 /\ p \in Int
  BY <1>1, Remainders
<1> HIDE DEF p, s
<1>3. q = p /\ r = s
  BY <1>2, RemaindersAgree
<1> QED BY <1>3 DEF p, s

LEMMA DividedSum ==
    ASSUME NEW d \in Nat \ {0}, NEW q \in Int, NEW y \in Int, NEW x, x = d * q + y
    PROVE  x \div d = q + (y \div d) /\ x % d = y % d
<1> DEFINE p == y \div d
           s == y % d
<1>1. y = d * p + s /\ s \in 0 .. d - 1 /\ p \in Int
  BY Remainders
<1> HIDE DEF p, s
<1> DEFINE u == q + p
<1>2. x = d * u + s /\ u \in Int
  BY <1>1
<1> HIDE DEF u
<1>3. x \div d = u /\ x % d = s
  BY <1>1, <1>2, Divided
<1> QED BY <1>3 DEF p, s, u

LEMMA Small ==
    ASSUME NEW d \in Nat \ {0}, NEW y \in 0 .. d - 1
    PROVE  y \div d = 0 /\ y % d = y
<1>1. y = d * 0 + y /\ 0 \in Int
  OBVIOUS
<1> QED BY <1>1, Divided

LEMMA Once ==
    ASSUME NEW d \in Nat \ {0}, NEW y \in 0 .. d - 1, NEW x, x = d + y
    PROVE  x \div d = 1 /\ x % d = y
<1>1. x = d * 1 + y /\ 1 \in Int
  OBVIOUS
<1> QED BY <1>1, Divided

LEMMA Wraps ==
    ASSUME NEW d \in Nat \ {0}, NEW y \in -d .. -1
    PROVE  y % d = y + d
<1> DEFINE r == y + d
           c == -1
<1>1. y = d * c + r /\ r \in 0 .. d - 1 /\ c \in Int
  OBVIOUS
<1> HIDE DEF r, c
<1>2. y \div d = c /\ y % d = r
  BY <1>1, Divided
<1> QED BY <1>2 DEF r

BitsOf(x) == {k \in 0 .. 2 * W - 1 : Bit(x, k)}

\* A number below a power of two has its ones below it; the power added, one more.
LEMMA TopBit ==
    ASSUME NEW n \in 0 .. 2 * W - 1, NEW y \in 0 .. 2^n - 1
    PROVE  /\ BitsOf(y) \subseteq 0 .. n - 1
           /\ BitsOf(2^n + y) = BitsOf(y) \cup {n}
<1>0. 2 * W \in Nat /\ 2^n \in Nat \ {0} /\ n \in 0 .. 2 * W /\ y \in Int /\ n \in Int
  BY WidthAssumption, PowersDouble
<1>1. ASSUME NEW k \in n + 1 .. 2 * W - 1 PROVE ~Bit(y, k) /\ ~Bit(2^n + y, k)
  <2>1. k \in 0 .. 2 * W /\ n \in 0 .. k - 1
    BY <1>0
  <2>2. PICK q \in Nat \ {0} : 2^k = (2 * q) * 2^n
    BY <2>1, PowersDivide
  <2> DEFINE d == 2^k
             x == 2^n
  <2>3. d \in Nat \ {0} /\ x \in Nat \ {0} /\ d = (2 * q) * x /\ y \in 0 .. x - 1
    BY <1>0, <2>1, <2>2, PowersDouble
  <2> HIDE DEF d, x
  <2>4. 0 <= x + y /\ x + y < d /\ 0 <= y /\ y < d
    <3>1. PICK e \in Nat : q = e + 1
      <4>1. q - 1 \in Nat /\ q = (q - 1) + 1
        OBVIOUS
      <4> QED BY <4>1
    <3>2. d = 2 * x + 2 * (e * x) /\ e * x >= 0 /\ e * x \in Int
      BY <2>3, <3>1
    <3> QED BY <2>3, <3>2
  <2> DEFINE z == x + y
  <2>5. z \in 0 .. d - 1 /\ z = d * 0 + z
    BY <2>3, <2>4
  <2>6. y \in 0 .. d - 1 /\ y = d * 0 + y /\ 0 \in Int
    BY <2>3, <2>4
  <2> HIDE DEF z
  <2>7. y \div d = 0 /\ z \div d = 0
    BY <2>3, <2>5, <2>6, Divided, ZenonT(60)
  <2>8. ~((y \div d) % 2 = 1) /\ ~((z \div d) % 2 = 1)
    BY <2>7
  <2> QED BY <2>8 DEF Bit, d, x, z
<1>2. ~Bit(y, n) /\ Bit(2^n + y, n)
  <2> DEFINE d == 2^n
  <2>1. d \in Nat \ {0} /\ y \in 0 .. d - 1
    BY <1>0
  <2> HIDE DEF d
  <2> DEFINE z == d + y
  <2>2. y = d * 0 + y /\ z = d * 1 + y /\ 0 \in Int /\ 1 \in Int
    BY <2>1
  <2> HIDE DEF z
  <2>3. y \div d = 0 /\ z \div d = 1
    BY <2>1, <2>2, Divided
  <2>4. ~((y \div d) % 2 = 1) /\ (z \div d) % 2 = 1
    BY <2>3
  <2> QED BY <2>4 DEF Bit, d, z
<1>3. ASSUME NEW k \in 0 .. n - 1 PROVE Bit(2^n + y, k) <=> Bit(y, k)
  <2>1. PICK q \in Nat \ {0} : 2^n = (2 * q) * 2^k
    BY <1>0, PowersDivide
  <2> DEFINE d == 2^k
  <2>2. k \in 0 .. 2 * W
    BY <1>0
  <2>3. d \in Nat \ {0} /\ 2^n = d * (2 * q) /\ 2 * q \in Int
    BY <2>1, <2>2, PowersDouble
  <2> HIDE DEF d
  <2> DEFINE z == 2^n + y
             p == y \div d
  <2>4. z = d * (2 * q) + y /\ p \in Int
    BY <1>0, <2>3, Remainders
  <2> HIDE DEF z
  <2>5. z \div d = 2 * q + p
    BY <1>0, <2>3, <2>4, DividedSum
  <2> HIDE DEF p
  <2>6. (2 * q + p) % 2 = p % 2
    BY <2>4
  <2>7. (z \div d) % 2 = p % 2
    BY <2>5, <2>6
  <2> QED BY <2>7 DEF Bit, d, z, p
<1>4. \A k \in 0 .. 2 * W - 1 : k \in 0 .. n - 1 \/ k = n \/ k \in n + 1 .. 2 * W - 1
  BY <1>0
<1> DEFINE x == 2^n + y
<1>5. /\ \A k \in n + 1 .. 2 * W - 1 : ~Bit(y, k) /\ ~Bit(x, k)
      /\ ~Bit(y, n) /\ Bit(x, n)
      /\ \A k \in 0 .. n - 1 : Bit(x, k) <=> Bit(y, k)
  BY <1>1, <1>2, <1>3
<1> HIDE DEF x
<1>6. BitsOf(y) \subseteq 0 .. n - 1 /\ BitsOf(x) = BitsOf(y) \cup {n}
  BY <1>4, <1>5 DEF BitsOf
<1> QED BY <1>6 DEF x

\* Numbers below 2^n and sets of positions below n are the same thing.
LEMMA FromBitsBits ==
    ASSUME NEW n \in 0 .. 2 * W, NEW K \in SUBSET (0 .. n - 1)
    PROVE  /\ FromBits(K) \in 0 .. 2^n - 1
           /\ BitsOf(FromBits(K)) = K
<1> DEFINE P(L, k) == FromBits(L) \in 0 .. 2^k - 1 /\ BitsOf(FromBits(L)) = L
           T == {k \in 0 .. 2 * W : \A L \in SUBSET (0 .. k - 1) : P(L, k)}
<1>0. 2 * W \in Nat /\ 2^0 = 1
  BY WidthAssumption, PowersDouble
<1>1. 0 \in T
  <2>1. ASSUME NEW L \in SUBSET (0 .. 0 - 1) PROVE P(L, 0)
    <3>1. L = {}
      OBVIOUS
    <3>2. {} \in SUBSET (0 .. 2 * W - 1)
      OBVIOUS
    <3>3. FromBits({}) = 0
      BY <3>2, FromBitsTakes
    <3>4. BitsOf(0) = {}
      <4>1. ASSUME NEW k \in 0 .. 2 * W - 1 PROVE ~Bit(0, k)
        <5> DEFINE d == 2^k
        <5>1. k \in 0 .. 2 * W
          BY <1>0
        <5>2. d \in Nat \ {0}
          BY <5>1, PowersDouble
        <5> HIDE DEF d
        <5>3. 0 = d * 0 + 0 /\ 0 \in 0 .. d - 1 /\ 0 \in Int
          BY <5>2
        <5>4. 0 \div d = 0
          BY <5>2, <5>3, Divided
        <5>5. ~((0 \div d) % 2 = 1)
          BY <5>4
        <5> QED BY <5>5 DEF Bit, d
      <4> QED BY <4>1 DEF BitsOf
    <3> QED BY <1>0, <3>1, <3>3, <3>4
  <2> HIDE DEF P
  <2> QED BY <1>0, <2>1
<1>2. ASSUME NEW k \in 0 .. 2 * W - 1, k \in T PROVE k + 1 \in T
  <2>0. /\ k \in 0 .. 2 * W /\ k + 1 \in 0 .. 2 * W /\ (k + 1) - 1 = k /\ k \in Int
        /\ 2^(k + 1) = 2 * 2^k /\ 2^k \in Nat
    BY <1>0, PowersDouble
  <2>1. ASSUME NEW L \in SUBSET (0 .. k) PROVE P(L, k + 1)
    <3> DEFINE J == L \ {k}
    <3>1. J \in SUBSET (0 .. k - 1)
      BY <2>0
    <3>2. FromBits(J) \in 0 .. 2^k - 1 /\ BitsOf(FromBits(J)) = J
      BY <1>2, <3>1
    <3>3. CASE k \in L
      <4>1. L \in SUBSET (0 .. 2 * W - 1)
        BY <1>0
      <4>2. FromBits(L) = 2^k + FromBits(J)
        BY <3>3, <4>1, FromBitsTakes
      <4>3. BitsOf(2^k + FromBits(J)) = BitsOf(FromBits(J)) \cup {k}
        BY <3>2, TopBit
      <4>4. J \cup {k} = L
        BY <3>3
      <4>5. BitsOf(FromBits(L)) = L
        <5> HIDE DEF J
        <5> QED BY <3>2, <4>2, <4>3, <4>4
      <4>6. FromBits(L) \in 0 .. 2^(k + 1) - 1
        <5> DEFINE x == FromBits(J)
        <5>1. x \in 0 .. 2^k - 1 /\ FromBits(L) = 2^k + x
          BY <3>2, <4>2
        <5> HIDE DEF x
        <5> QED BY <2>0, <5>1
      <4> QED BY <4>5, <4>6
    <3>4. CASE k \notin L
      <4>1. J = L
        BY <3>4
      <4>2. FromBits(L) \in 0 .. 2^k - 1 /\ BitsOf(FromBits(L)) = L
        <5> HIDE DEF J
        <5> QED BY <3>2, <4>1
      <4> QED BY <2>0, <4>2
    <3> QED BY <3>3, <3>4
  <2> HIDE DEF P
  <2> QED BY <2>0, <2>1
<1> HIDE DEF T
<1>3. 0 .. 2 * W \subseteq T
  BY <1>1, <1>2, PlacesReached
<1> QED BY <1>3 DEF T

LEMMA BitsFromBits ==
    ASSUME NEW n \in 0 .. 2 * W, NEW x \in 0 .. 2^n - 1
    PROVE  BitsOf(x) \subseteq 0 .. n - 1 /\ FromBits(BitsOf(x)) = x
<1> DEFINE P(y, k) == BitsOf(y) \subseteq 0 .. k - 1 /\ FromBits(BitsOf(y)) = y
           T == {k \in 0 .. 2 * W : \A y \in 0 .. 2^k - 1 : P(y, k)}
<1>0. 2 * W \in Nat /\ 2^0 = 1
  BY WidthAssumption, PowersDouble
<1>1. 0 \in T
  <2>1. ASSUME NEW y \in 0 .. 2^0 - 1 PROVE P(y, 0)
    <3>1. y = 0
      BY <1>0
    <3>2. {} \in SUBSET (0 .. 0 - 1) /\ {} \in SUBSET (0 .. 2 * W - 1) /\ 0 \in 0 .. 2 * W
      BY <1>0
    <3>3. FromBits({}) = 0
      BY <3>2, FromBitsTakes
    <3>4. BitsOf(0) = {}
      BY <3>2, <3>3, FromBitsBits
    <3> QED BY <3>1, <3>3, <3>4
  <2> HIDE DEF P
  <2> QED BY <1>0, <2>1
<1>2. ASSUME NEW k \in 0 .. 2 * W - 1, k \in T PROVE k + 1 \in T
  <2>0. /\ k \in 0 .. 2 * W /\ k + 1 \in 0 .. 2 * W /\ (k + 1) - 1 = k /\ k \in Int
        /\ 2^(k + 1) = 2 * 2^k /\ 2^k \in Nat
    BY <1>0, PowersDouble
  <2>1. ASSUME NEW y \in 0 .. 2^(k + 1) - 1 PROVE P(y, k + 1)
    <3>1. CASE y < 2^k
      <4>1. y \in 0 .. 2^k - 1
        BY <2>0, <3>1
      <4>2. P(y, k)
        BY <1>2, <4>1
      <4> QED BY <2>0, <4>2
    <3>2. CASE ~(y < 2^k)
      <4> DEFINE z == y - 2^k
      <4>1. z \in 0 .. 2^k - 1 /\ y = 2^k + z
        BY <2>0, <3>2
      <4> HIDE DEF z
      <4>2. BitsOf(z) \subseteq 0 .. k - 1 /\ FromBits(BitsOf(z)) = z
        BY <1>2, <4>1
      <4>3. BitsOf(y) = BitsOf(z) \cup {k}
        BY <4>1, TopBit
      <4>4. /\ BitsOf(y) \in SUBSET (0 .. 2 * W - 1) /\ BitsOf(y) \subseteq 0 .. k
            /\ BitsOf(y) \ {k} = BitsOf(z) /\ k \in BitsOf(y)
        BY <1>0, <2>0, <4>2, <4>3
      <4>5. FromBits(BitsOf(y)) = 2^k + FromBits(BitsOf(y) \ {k})
        BY <4>4, FromBitsTakes
      <4> QED BY <2>0, <4>1, <4>2, <4>4, <4>5
    <3> QED BY <3>1, <3>2
  <2> HIDE DEF P
  <2> QED BY <2>0, <2>1
<1> HIDE DEF T
<1>3. 0 .. 2 * W \subseteq T
  BY <1>1, <1>2, PlacesReached
<1> QED BY <1>3 DEF T

\* Numbers with no position in common add up to their union.
LEMMA FromBitsAdds ==
    ASSUME NEW X \in SUBSET (0 .. 2 * W - 1), NEW Y \in SUBSET (0 .. 2 * W - 1), X \cap Y = {}
    PROVE  FromBits(X \cup Y) = FromBits(X) + FromBits(Y)
<1> DEFINE P(L, M) == L \cap M = {} => FromBits(L \cup M) = FromBits(L) + FromBits(M)
           T == {k \in 0 .. 2 * W : \A L, M \in SUBSET (0 .. k - 1) : P(L, M)}
<1>0. 2 * W \in Nat
  BY WidthAssumption
<1>1. 0 \in T
  <2>1. ASSUME NEW L \in SUBSET (0 .. 0 - 1), NEW M \in SUBSET (0 .. 0 - 1) PROVE P(L, M)
    <3>1. L = {} /\ M = {} /\ L \cup M = {} /\ {} \in SUBSET (0 .. 2 * W - 1)
      OBVIOUS
    <3>2. FromBits({}) = 0
      BY <3>1, FromBitsTakes
    <3> QED BY <3>1, <3>2
  <2> HIDE DEF P
  <2> QED BY <1>0, <2>1
<1>2. ASSUME NEW k \in 0 .. 2 * W - 1, k \in T PROVE k + 1 \in T
  <2>0. k \in 0 .. 2 * W /\ k + 1 \in 0 .. 2 * W /\ (k + 1) - 1 = k /\ k \in Int /\ 2^k \in Nat
    BY <1>0, PowersDouble
  <2>1. ASSUME NEW L \in SUBSET (0 .. k), NEW M \in SUBSET (0 .. k), L \cap M = {}
        PROVE  FromBits(L \cup M) = FromBits(L) + FromBits(M)
    <3> DEFINE I == L \ {k}
               J == M \ {k}
    <3>1. /\ I \in SUBSET (0 .. k - 1) /\ J \in SUBSET (0 .. k - 1) /\ I \cap J = {}
          /\ (L \cup M) \ {k} = I \cup J
      BY <2>0, <2>1
    <3>2. FromBits(I \cup J) = FromBits(I) + FromBits(J)
      BY <1>2, <3>1
    <3>3. /\ L \in SUBSET (0 .. 2 * W - 1) /\ M \in SUBSET (0 .. 2 * W - 1)
          /\ L \cup M \in SUBSET (0 .. 2 * W - 1)
          /\ I \in SUBSET (0 .. 2 * W - 1) /\ J \in SUBSET (0 .. 2 * W - 1)
      BY <1>0, <2>0
    <3>4. FromBits(I) \in Int /\ FromBits(J) \in Int
      BY <3>3, FromBitsTyped
    <3>5. /\ k \in L => FromBits(L) = 2^k + FromBits(I)
          /\ k \in M => FromBits(M) = 2^k + FromBits(J)
          /\ k \in L \cup M => FromBits(L \cup M) = 2^k + FromBits((L \cup M) \ {k})
      BY <3>3, FromBitsTakes
    <3>6. /\ k \notin L => L = I
          /\ k \notin M => M = J
          /\ k \notin L \cup M => L \cup M = I \cup J
          /\ ~(k \in L /\ k \in M)
      BY <2>1, <3>1
    <3> HIDE DEF I, J
    <3>7. CASE k \in L
      <4>1. FromBits(L \cup M) = 2^k + FromBits(I \cup J) /\ M = J /\ FromBits(L) = 2^k + FromBits(I)
        BY <3>1, <3>5, <3>6, <3>7
      <4> QED BY <2>0, <3>2, <3>4, <4>1
    <3>8. CASE k \in M
      <4>1. FromBits(L \cup M) = 2^k + FromBits(I \cup J) /\ L = I /\ FromBits(M) = 2^k + FromBits(J)
        BY <3>1, <3>5, <3>6, <3>8
      <4> QED BY <2>0, <3>2, <3>4, <4>1
    <3>9. CASE k \notin L \cup M
      <4>1. L \cup M = I \cup J /\ L = I /\ M = J
        BY <3>6, <3>9
      <4> QED BY <3>2, <4>1
    <3> QED BY <3>7, <3>8, <3>9
  <2>2. \A L, M \in SUBSET (0 .. k) : P(L, M)
    BY <2>1
  <2> HIDE DEF P
  <2> QED BY <2>0, <2>2
<1> HIDE DEF T
<1>3. 2 * W \in T
  <2>1. 0 .. 2 * W \subseteq T
    BY <1>1, <1>2, PlacesReached
  <2> QED BY <1>0, <2>1
<1>4. \A L, M \in SUBSET (0 .. 2 * W - 1) : P(L, M)
  BY <1>3 DEF T
<1> QED BY <1>4

\* And, Or and Xor are intersection, union and difference of positions.
LEMMA BitwiseBits ==
    \A x, y : /\ And(x, y) \in Long /\ BitsOf(And(x, y)) = BitsOf(x) \cap BitsOf(y)
              /\ Or(x, y) \in Long /\ BitsOf(Or(x, y)) = BitsOf(x) \cup BitsOf(y)
              /\ Xor(x, y) \in Long
              /\ BitsOf(Xor(x, y)) = (BitsOf(x) \ BitsOf(y)) \cup (BitsOf(y) \ BitsOf(x))
<1> TAKE x, y
<1> DEFINE X == BitsOf(x)
           Y == BitsOf(y)
<1>1. /\ And(x, y) = FromBits(X \cap Y) /\ Or(x, y) = FromBits(X \cup Y)
      /\ Xor(x, y) = FromBits((X \ Y) \cup (Y \ X))
  <2>1. {k \in 0 .. 2 * W - 1 : Bit(x, k) /\ Bit(y, k)} = X \cap Y
    BY DEF BitsOf
  <2>2. {k \in 0 .. 2 * W - 1 : Bit(x, k) \/ Bit(y, k)} = X \cup Y
    BY DEF BitsOf
  <2>3. {k \in 0 .. 2 * W - 1 : Bit(x, k) # Bit(y, k)} = (X \ Y) \cup (Y \ X)
    <3>1. \A k : Bit(x, k) \in BOOLEAN /\ Bit(y, k) \in BOOLEAN
      BY DEF Bit
    <3> QED BY <3>1 DEF BitsOf
  <2> QED BY <2>1, <2>2, <2>3 DEF And, Or, Xor
<1>2. X \in SUBSET (0 .. 2 * W - 1) /\ Y \in SUBSET (0 .. 2 * W - 1)
  BY DEF BitsOf
<1>3. 2 * W \in 0 .. 2 * W
  BY WidthAssumption
<1> HIDE DEF X, Y
<1>4. \A K \in SUBSET (0 .. 2 * W - 1) : FromBits(K) \in Long /\ BitsOf(FromBits(K)) = K
  BY <1>3, FromBitsBits DEF Long
<1>5. /\ X \cap Y \in SUBSET (0 .. 2 * W - 1) /\ X \cup Y \in SUBSET (0 .. 2 * W - 1)
      /\ (X \ Y) \cup (Y \ X) \in SUBSET (0 .. 2 * W - 1)
  BY <1>2
<1>6. /\ And(x, y) \in Long /\ BitsOf(And(x, y)) = X \cap Y
      /\ Or(x, y) \in Long /\ BitsOf(Or(x, y)) = X \cup Y
      /\ Xor(x, y) \in Long /\ BitsOf(Xor(x, y)) = (X \ Y) \cup (Y \ X)
  BY <1>1, <1>4, <1>5
<1> QED BY <1>6 DEF X, Y

\* A number is its positions.
LEMMA LongBits ==
    /\ \A x \in Long : FromBits(BitsOf(x)) = x
    /\ \A x, y \in Long : BitsOf(x) = BitsOf(y) => x = y
<1>1. 2 * W \in 0 .. 2 * W
  BY WidthAssumption
<1>2. \A x \in Long : FromBits(BitsOf(x)) = x
  BY <1>1, BitsFromBits DEF Long
<1> QED BY <1>2

LEMMA BitsAdd ==
    ASSUME NEW x \in Long, NEW y \in Long, BitsOf(x) \cap BitsOf(y) = {}
    PROVE  Or(x, y) = x + y
<1>1. BitsOf(x) \in SUBSET (0 .. 2 * W - 1) /\ BitsOf(y) \in SUBSET (0 .. 2 * W - 1)
  BY DEF BitsOf
<1>2. FromBits(BitsOf(x) \cup BitsOf(y)) = FromBits(BitsOf(x)) + FromBits(BitsOf(y))
  BY <1>1, FromBitsAdds
<1>3. FromBits(BitsOf(x)) = x /\ FromBits(BitsOf(y)) = y
  BY LongBits
<1>4. Or(x, y) \in Long /\ BitsOf(Or(x, y)) = BitsOf(x) \cup BitsOf(y)
  BY BitwiseBits
<1>5. Or(x, y) = FromBits(BitsOf(x) \cup BitsOf(y))
  BY <1>4, LongBits
<1> QED BY <1>2, <1>3, <1>5

\* Ones and carries: what a half adder makes of two numbers.
LEMMA XorAdds ==
    ASSUME NEW x \in Long, NEW y \in Long
    PROVE  x + y = Xor(x, y) + 2 * And(x, y)
<1> DEFINE X == BitsOf(x)
           Y == BitsOf(y)
           S == X \ Y
           T == Y \ X
           U == X \cap Y
<1>1. X \in SUBSET (0 .. 2 * W - 1) /\ Y \in SUBSET (0 .. 2 * W - 1)
  BY DEF BitsOf
<1>2. /\ S \in SUBSET (0 .. 2 * W - 1) /\ T \in SUBSET (0 .. 2 * W - 1)
      /\ U \in SUBSET (0 .. 2 * W - 1)
      /\ S \cap U = {} /\ T \cap U = {} /\ S \cap T = {} /\ X = S \cup U /\ Y = T \cup U
  BY <1>1
<1>3. FromBits(X) = x /\ FromBits(Y) = y
  BY LongBits
<1>4. /\ And(x, y) \in Long /\ BitsOf(And(x, y)) = U
      /\ Xor(x, y) \in Long /\ BitsOf(Xor(x, y)) = S \cup T
  BY BitwiseBits
<1> HIDE DEF S, T, U, X, Y
<1>5. And(x, y) = FromBits(U) /\ Xor(x, y) = FromBits(S \cup T)
  BY <1>4, LongBits
<1>6. /\ FromBits(S \cup U) = FromBits(S) + FromBits(U)
      /\ FromBits(T \cup U) = FromBits(T) + FromBits(U)
      /\ FromBits(S \cup T) = FromBits(S) + FromBits(T)
  BY <1>2, FromBitsAdds
<1>7. FromBits(S) \in Int /\ FromBits(T) \in Int /\ FromBits(U) \in Int
  BY <1>2, FromBitsTyped
<1> QED BY <1>2, <1>3, <1>5, <1>6, <1>7

\* All ones, and what is left of them.
LEMMA OnesBits == \A n \in 0 .. 2 * W : 2^n - 1 \in Long /\ BitsOf(2^n - 1) = 0 .. n - 1
<1> DEFINE T == {k \in 0 .. 2 * W : FromBits(0 .. k - 1) = 2^k - 1}
<1>0. 2 * W \in Nat /\ 2^0 = 1
  BY WidthAssumption, PowersDouble
<1>1. 0 \in T
  <2>1. 0 .. 0 - 1 = {} /\ {} \in SUBSET (0 .. 2 * W - 1)
    OBVIOUS
  <2>2. FromBits({}) = 0
    BY <2>1, FromBitsTakes
  <2> QED BY <1>0, <2>1, <2>2
<1>2. ASSUME NEW k \in 0 .. 2 * W - 1, k \in T PROVE k + 1 \in T
  <2>1. /\ k + 1 \in 0 .. 2 * W /\ (k + 1) - 1 = k /\ 2^(k + 1) = 2 * 2^k /\ 2^k \in Nat
    BY <1>0, PowersDouble
  <2>2. 0 .. k \in SUBSET (0 .. 2 * W - 1) /\ k \in 0 .. k /\ (0 .. k) \ {k} = 0 .. k - 1
    BY <1>0
  <2>3. FromBits(0 .. k) = 2^k + FromBits((0 .. k) \ {k})
    BY <2>2, FromBitsTakes
  <2>4. FromBits(0 .. k) = 2^(k + 1) - 1
    <3>1. FromBits(0 .. k - 1) = 2^k - 1
      BY <1>2
    <3>2. FromBits(0 .. k) = 2^k + (2^k - 1)
      BY <2>2, <2>3, <3>1
    <3> QED BY <2>1, <3>2
  <2> QED BY <2>1, <2>4
<1> HIDE DEF T
<1>3. 0 .. 2 * W \subseteq T
  BY <1>1, <1>2, PlacesReached
<1> TAKE n \in 0 .. 2 * W
<1>4. FromBits(0 .. n - 1) = 2^n - 1
  BY <1>3 DEF T
<1>5. 0 .. n - 1 \in SUBSET (0 .. n - 1)
  OBVIOUS
<1>6. BitsOf(FromBits(0 .. n - 1)) = 0 .. n - 1
  BY <1>5, FromBitsBits
<1>7. 0 .. n - 1 \in SUBSET (0 .. 2 * W - 1) /\ 2 * W \in 0 .. 2 * W
  BY <1>0
<1>8. FromBits(0 .. n - 1) \in Long
  BY <1>7, FromBitsBits DEF Long
<1> QED BY <1>4, <1>6, <1>8

LEMMA OnesLeft ==
    ASSUME NEW n \in 0 .. 2 * W, NEW y \in 0 .. 2^n - 1
    PROVE  /\ Xor(2^n - 1, y) = 2^n - 1 - y /\ Xor(y, 2^n - 1) = 2^n - 1 - y
           /\ BitsOf(2^n - 1 - y) = (0 .. n - 1) \ BitsOf(y)
<1> DEFINE o == 2^n - 1
<1>0. o \in Long /\ BitsOf(o) = 0 .. n - 1 /\ o \in Int
  BY OnesBits DEF Long
<1>1. BitsOf(y) \subseteq 0 .. n - 1 /\ y \in Long
  <2>1. BitsOf(y) \subseteq 0 .. n - 1
    BY BitsFromBits
  <2>2. y \in 0 .. o
    OBVIOUS
  <2>3. y \in Long
    <3> HIDE DEF o
    <3>1. 2^(2 * W) \in Int
      BY Powers
    <3> QED BY <1>0, <2>2, <3>1 DEF Long
  <2> QED BY <2>1, <2>3
<1> DEFINE z == Xor(o, y)
           v == Xor(y, o)
<1> HIDE DEF o
<1>2. /\ z \in Long /\ BitsOf(z) = (0 .. n - 1) \ BitsOf(y)
      /\ v \in Long /\ BitsOf(v) = (0 .. n - 1) \ BitsOf(y)
  <2>1. /\ z \in Long /\ BitsOf(z) = (BitsOf(o) \ BitsOf(y)) \cup (BitsOf(y) \ BitsOf(o))
        /\ v \in Long /\ BitsOf(v) = (BitsOf(y) \ BitsOf(o)) \cup (BitsOf(o) \ BitsOf(y))
    BY BitwiseBits
  <2> QED BY <1>0, <1>1, <2>1
<1>3. v = z
  BY <1>2, LongBits
<1> HIDE DEF z, v
<1>4. BitsOf(z) \cap BitsOf(y) = {} /\ BitsOf(z) \cup BitsOf(y) = BitsOf(o)
  BY <1>0, <1>1, <1>2
<1>5. Or(z, y) = z + y
  BY <1>1, <1>2, <1>4, BitsAdd
<1>6. Or(z, y) = o
  <2>1. Or(z, y) \in Long /\ BitsOf(Or(z, y)) = BitsOf(o)
    BY <1>4, BitwiseBits
  <2> QED BY <1>0, <2>1, LongBits
<1>7. z = o - y
  BY <1>0, <1>1, <1>2, <1>5, <1>6 DEF Long
<1> QED BY <1>2, <1>3, <1>7 DEF o, z, v

-----------------------------------------------------------------------------
\* Shifts.
LEMMA PowersAdd ==
    \A k \in 0 .. 2 * W : \A j \in 0 .. 2 * W - k : 2^(k + j) = 2^k * 2^j
<1> TAKE k \in 0 .. 2 * W
<1> DEFINE T == {j \in 0 .. 2 * W : j <= 2 * W - k => 2^(k + j) = 2^k * 2^j}
<1>0. 2 * W \in Nat /\ 2^0 = 1 /\ k + 0 = k /\ 2^k \in Nat
  BY WidthAssumption, PowersDouble
<1>1. 0 \in T
  BY <1>0
<1>2. ASSUME NEW j \in 0 .. 2 * W - 1, j \in T PROVE j + 1 \in T
  <2>1. CASE j + 1 <= 2 * W - k
    <3>1. k + j \in 0 .. 2 * W - 1 /\ (k + j) + 1 = k + (j + 1) /\ j <= 2 * W - k /\ j \in 0 .. 2 * W
      BY <1>0, <2>1
    <3>2. 2^((k + j) + 1) = 2 * 2^(k + j) /\ 2^(j + 1) = 2 * 2^j /\ 2^j \in Nat
      BY <3>1, PowersDouble
    <3>3. 2^(k + j) = 2^k * 2^j
      BY <1>2, <3>1
    <3> DEFINE x == 2^k
               y == 2^j
    <3>4. x \in Nat /\ y \in Nat /\ 2^(k + (j + 1)) = 2 * (x * y) /\ 2^(j + 1) = 2 * y
      BY <1>0, <3>1, <3>2, <3>3
    <3> HIDE DEF x, y
    <3>5. 2 * (x * y) = x * (2 * y)
      BY <3>4
    <3>6. 2^(k + (j + 1)) = x * 2^(j + 1)
      BY <3>4, <3>5
    <3> QED BY <1>0, <3>6 DEF x
  <2>2. CASE ~(j + 1 <= 2 * W - k)
    BY <1>0, <2>2
  <2> QED BY <2>1, <2>2
<1> HIDE DEF T
<1>3. 0 .. 2 * W \subseteq T
  BY <1>1, <1>2, PlacesReached
<1> TAKE j \in 0 .. 2 * W - k
<1>4. j \in T /\ j <= 2 * W - k
  BY <1>0, <1>3
<1> QED BY <1>4 DEF T

\* x, n bits wide, shifted to the right by k places, without and with a sign.
RightDivides(n, x, k, u, h, o, b, p) ==
    /\ ArithmeticRight(x, k, o, FALSE, u) = p /\ p \in 0 .. x
    /\ ArithmeticRight(x, k, o, TRUE, u) = (b \div 2^k) % h

\* An arithmetic shift to the right divides, rounding down.
LEMMA ArithmeticRightDivides ==
    ASSUME NEW n \in {W, 2 * W}, NEW x \in 0 .. 2^n - 1, NEW k \in 1 .. 2 * W - 1, NEW u,
           NEW h, h = 2^n, NEW o, o = h - 1, NEW b, b = x - h, NEW p, p = x \div 2^k
    PROVE  RightDivides(n, x, k, u, h, o, b, p)
<1> SUFFICES /\ ArithmeticRight(x, k, h - 1, FALSE, u) = p /\ p \in 0 .. x
             /\ ArithmeticRight(x, k, h - 1, TRUE, u) = ((x - h) \div 2^k) % h
  BY DEF RightDivides
<1> DEFINE d == 2^k
<1>0. /\ n \in 0 .. 2 * W /\ 2 * W \in Nat /\ n \in Int /\ k \in 0 .. 2 * W /\ k < 2 * W
      /\ d \in Nat \ {0} /\ h \in Nat \ {0} /\ 2^n \in Nat \ {0}
  BY WidthAssumption, PowersDouble
<1> HIDE DEF d
<1>8. p = x \div d
  BY DEF d
<1>9. x = d * p + (x % d) /\ x % d \in 0 .. d - 1 /\ p \in Int
  <2>1. x \in Int
    OBVIOUS
  <2>2. x = d * (x \div d) + (x % d) /\ x % d \in 0 .. d - 1 /\ x \div d \in Int
    BY <1>0, <2>1, Remainders
  <2> QED BY <1>8, <2>2, Zenon
<1>1. ShiftedRight(x, k, u) = p /\ ShiftedRight(h - 1, k, u) = (h - 1) \div d
  BY <1>0 DEF ShiftedRight, d
<1>2. p \in 0 .. x
  <2>1. x = d * p + (x % d) /\ x % d \in 0 .. d - 1 /\ p \in Int
    BY <1>9
  <2>2. p >= 0
    <3> SUFFICES ASSUME p <= -1 PROVE FALSE
      BY <2>1
    <3>1. d * p <= -d
      BY <1>0, <2>1
    <3> QED BY <1>0, <2>1, <3>1
  <2>3. d * p >= p /\ d * p \in Int
    BY <1>0, <2>1, <2>2
  <2> QED BY <1>0, <2>1, <2>2, <2>3
<1>3. ArithmeticRight(x, k, h - 1, FALSE, u) = p
  BY <1>1 DEF ArithmeticRight
<1> DEFINE q == (h - 1) \div d
           s == Xor(h - 1, q)
<1>4. ArithmeticRight(x, k, h - 1, TRUE, u) = Or(s, p)
  BY <1>1 DEF ArithmeticRight
<1>5. CASE k <= n
  <2> DEFINE e == 2^(n - k)
  <2>1. n - k \in 0 .. 2 * W /\ k \in 0 .. 2 * W - (n - k) /\ (n - k) + k = n
    BY <1>0, <1>5
  <2>2. h = e * d /\ e \in Nat \ {0}
    BY <2>1, PowersAdd, PowersDouble DEF d
  <2> HIDE DEF e
  <2>3. q = e - 1
    <3>1. h - 1 = d * (e - 1) + (d - 1) /\ e - 1 \in Int /\ d - 1 \in 0 .. d - 1
      BY <1>0, <2>2
    <3> DEFINE y == h - 1
               f == e - 1
               r == d - 1
    <3>2. y = d * f + r /\ f \in Int /\ r \in 0 .. d - 1
      BY <3>1
    <3> HIDE DEF y, f, r
    <3>3. y \div d = f
      BY <1>0, <3>2, Divided
    <3> QED BY <3>3 DEF y, f
  <2>4. q \in 0 .. h - 1
    <3>1. e * d >= e /\ e * d \in Int
      BY <1>0, <2>2
    <3> QED BY <2>2, <2>3, <3>1
  <2> HIDE DEF q
  <2>5. s = h - e /\ BitsOf(s) = (0 .. n - 1) \ BitsOf(q)
    <3>1. q \in 0 .. 2^n - 1
      BY <2>4
    <3>2. Xor(2^n - 1, q) = 2^n - 1 - q /\ BitsOf(2^n - 1 - q) = (0 .. n - 1) \ BitsOf(q)
      BY <1>0, <3>1, OnesLeft
    <3>3. s = 2^n - 1 - q
      BY <3>2
    <3>4. BitsOf(s) = (0 .. n - 1) \ BitsOf(q)
      BY <3>2, <3>3
    <3> QED BY <1>0, <2>2, <2>3, <3>3, <3>4
  <2>6. BitsOf(q) = 0 .. (n - k) - 1
    BY <2>1, <2>3, OnesBits DEF e
  <2>7. p \in 0 .. e - 1
    <3>1. x = d * p + (x % d) /\ x % d \in 0 .. d - 1 /\ p \in Int
      BY <1>9
    <3>2. p < e
      <4> SUFFICES ASSUME p >= e PROVE FALSE
        BY <2>2, <3>1
      <4>1. d * p >= d * e /\ d * e = h /\ d * p \in Int
        BY <1>0, <2>2, <3>1
      <4> QED BY <1>0, <3>1, <4>1
    <3> QED BY <1>2, <2>2, <3>1, <3>2
  <2>8. BitsOf(p) \subseteq 0 .. (n - k) - 1
    BY <2>1, <2>7, BitsFromBits DEF e
  <2> HIDE DEF s
  <2>9. BitsOf(s) \cap BitsOf(p) = {}
    BY <2>5, <2>6, <2>8
  <2>10. s \in Long /\ p \in Long
    <3>1. 2^n - 1 \in Long
      BY <1>0, OnesBits
    <3>2. h <= 2^(2 * W) /\ 2^(2 * W) \in Int
      BY <1>0, <3>1, Powers DEF Long
    <3> QED BY <1>0, <1>2, <2>2, <2>4, <2>5, <3>2 DEF Long
  <2>11. Or(s, p) = h - e + p
    BY <1>0, <2>2, <2>5, <2>9, <2>10, BitsAdd
  <2>12. (x - h) \div d = p - e
    <3> DEFINE y == x - h
               f == -e
    <3>1. y = d * f + x /\ f \in Int /\ x \in Int
      BY <1>0, <2>2
    <3> HIDE DEF y, f
    <3>2. y \div d = f + (x \div d)
      BY <1>0, <3>1, DividedSum
    <3> QED BY <1>2, <2>2, <3>2 DEF y, f, d
  <2>13. (p - e) % h = h + p - e
    <3> DEFINE y == p - e
    <3>1. e <= h
      BY <1>0, <2>2
    <3>2. y \in -h .. -1 /\ y + h = h + p - e
      BY <1>0, <2>2, <2>7, <3>1
    <3> HIDE DEF y
    <3>3. y % h = y + h
      BY <1>0, <3>2, Wraps
    <3> QED BY <3>2, <3>3 DEF y
  <2>14. ((x - h) \div 2^k) % h = h + p - e
    BY <2>12, <2>13 DEF d
  <2>15. Or(s, p) = h + p - e
    BY <1>0, <1>2, <2>2, <2>11
  <2> QED BY <1>2, <1>3, <1>4, <2>14, <2>15
<1>6. CASE ~(k <= n)
  <2>1. n \in 0 .. k - 1
    BY <1>0, <1>6
  <2>2. PICK e \in Nat \ {0} : d = (2 * e) * h
    BY <1>0, <2>1, PowersDivide DEF d
  <2>3. h < d
    BY <1>0, <2>2
  <2>4. q = 0 /\ p = 0
    <3> DEFINE y == h - 1
    <3>1. y = d * 0 + y /\ y \in 0 .. d - 1 /\ x = d * 0 + x /\ x \in 0 .. d - 1 /\ 0 \in Int
      BY <1>0, <2>3
    <3> HIDE DEF y
    <3>2. y \div d = 0 /\ x \div d = 0
      BY <1>0, <3>1, Divided
    <3> QED BY <3>2 DEF y, d
  <2> HIDE DEF q
  <2>5. s = h - 1
    <3>1. 0 \in 0 .. 2^n - 1
      BY <1>0
    <3>2. Xor(2^n - 1, 0) = 2^n - 1 - 0
      BY <1>0, <3>1, OnesLeft
    <3> QED BY <1>0, <2>4, <3>2
  <2> HIDE DEF s
  <2>6. s \in Long /\ 0 \in Long
    BY <1>0, <2>5, OnesBits, Powers DEF Long
  <2>7. BitsOf(0) = {}
    <3>1. 0 \in 0 .. 2 * W /\ 2^0 - 1 = 0 /\ 0 .. 0 - 1 = {}
      BY <1>0, PowersDouble
    <3> QED BY <3>1, OnesBits
  <2>8. Or(s, 0) = s + 0
    BY <2>6, <2>7, BitsAdd
  <2>9. (x - h) \div d = -1
    <3> DEFINE y == x - h
               r == d + x - h
    <3>1. y = d * (-1) + r /\ r \in 0 .. d - 1 /\ -1 \in Int
      BY <1>0, <2>3
    <3> HIDE DEF y, r
    <3>2. y \div d = -1
      BY <1>0, <3>1, Divided
    <3> QED BY <3>2 DEF y
  <2>10. (-1) % h = h - 1
    <3>1. -1 \in -h .. -1 /\ -1 + h = h - 1
      BY <1>0
    <3>2. (-1) % h = -1 + h
      BY <1>0, <3>1, Wraps
    <3> QED BY <3>1, <3>2
  <2>11. ((x - h) \div 2^k) % h = h - 1
    BY <2>9, <2>10 DEF d
  <2>12. Or(s, p) = h - 1
    BY <1>0, <2>4, <2>5, <2>8
  <2> QED BY <1>2, <1>3, <1>4, <2>11, <2>12
<1>7. k \in Int
  OBVIOUS
<1> QED BY <1>0, <1>5, <1>6, <1>7

\* A multiple of a power of two has no ones below it, and leaves those of what is
\* added.
LEMMA HighBits ==
    ASSUME NEW n \in 0 .. 2 * W, NEW h, h = 2^n, NEW q \in Nat, NEW y \in Int,
           NEW x, x = h * q + y
    PROVE  \A j \in 0 .. n - 1 : Bit(x, j) <=> Bit(y, j)
<1> TAKE j \in 0 .. n - 1
<1>0. 2 * W \in Nat /\ j \in 0 .. 2 * W
  BY WidthAssumption
<1>1. PICK e \in Nat \ {0} : 2^n = (2 * e) * 2^j
  BY <1>0, PowersDivide
<1> DEFINE d == 2^j
           c == 2 * (e * q)
           p == y \div d
<1>2. d \in Nat \ {0} /\ 2^n = (2 * e) * d
  BY <1>0, <1>1, PowersDouble
<1> HIDE DEF d
<1>3. c \in Int /\ x = d * c + y
  BY <1>2
<1>4. p \in Int
  BY <1>2, Remainders
<1> HIDE DEF c
<1>5. x \div d = c + (y \div d)
  BY <1>2, <1>3, DividedSum
<1> HIDE DEF p
<1>6. (c + p) % 2 = p % 2
  <2>1. c = 2 * (e * q) /\ e * q \in Int
    BY DEF c
  <2> QED BY <1>4, <2>1
<1>7. (x \div d) % 2 = p % 2
  BY <1>5, <1>6 DEF p
<1> QED BY <1>7 DEF Bit, d, p

\* The lowest bits are the remainder.
LEMMA LowBits ==
    ASSUME NEW n \in 0 .. 2 * W, NEW x \in Long
    PROVE  And(2^n - 1, x) = x % 2^n
<1> DEFINE d == 2^n
           q == x \div d
           r == x % d
<1>1. d \in Nat \ {0} /\ x \in Int /\ 2 * W \in Nat
  BY PowersDouble, WidthAssumption DEF Long
<1>2. x = d * q + r /\ r \in 0 .. d - 1 /\ q \in Int
  BY <1>1, Remainders
<1> HIDE DEF q, r
<1>3. q \in Nat
  <2> SUFFICES ASSUME q <= -1 PROVE FALSE
    BY <1>2
  <2>1. d * q <= -d
    <3> HIDE DEF d
    <3> QED BY <1>1, <1>2
  <2>2. x >= 0 /\ d * q \in Int
    BY <1>1, <1>2 DEF Long
  <2> HIDE DEF d
  <2> QED BY <1>1, <1>2, <2>1, <2>2
<1>4. \A j \in 0 .. n - 1 : Bit(x, j) <=> Bit(r, j)
  <2>1. x = d * q + r /\ r \in Int /\ d = 2^n
    BY <1>1, <1>2
  <2> HIDE DEF d
  <2> QED BY <1>3, <2>1, HighBits
<1>5. BitsOf(r) \subseteq 0 .. n - 1
  BY <1>2, BitsFromBits
<1>6. BitsOf(d - 1) = 0 .. n - 1 /\ d - 1 \in Long
  BY OnesBits
<1>7. r \in Long
  <2> HIDE DEF d
  <2>1. 2^(2 * W) \in Int
    BY Powers
  <2> QED BY <1>1, <1>2, <1>6, <2>1 DEF Long
<1> HIDE DEF d
<1>8. BitsOf(And(d - 1, x)) = BitsOf(r) /\ And(d - 1, x) \in Long
  <2>1. /\ BitsOf(And(d - 1, x)) = BitsOf(d - 1) \cap BitsOf(x)
        /\ And(d - 1, x) \in Long
    BY BitwiseBits
  <2>2. (0 .. n - 1) \cap BitsOf(x) = BitsOf(r)
    BY <1>1, <1>4, <1>5 DEF BitsOf
  <2> QED BY <1>6, <2>1, <2>2
<1>9. And(d - 1, x) = r
  BY <1>7, <1>8, LongBits
<1> QED BY <1>9 DEF d, r

LEMMA PairedMeans ==
    ASSUME NEW hi \in Word, NEW lo \in Word
    PROVE  Paired(hi, lo) = 2^W * hi + lo
<1> DEFINE h == 2^W
           x == h * hi
<1>0. W \in 0 .. 2 * W /\ 2 * W \in Nat /\ h \in Nat \ {0} /\ W \in Int
  BY WidthAssumption, PowersDouble
<1>1. hi \in 0 .. h - 1 /\ lo \in 0 .. h - 1 /\ hi \in Nat
  BY <1>0 DEF Word
<1>2. hi % h = hi
  <2> HIDE DEF h
  <2>1. hi \div h = 0 /\ hi % h = hi
    BY <1>0, <1>1, Small
  <2> QED BY <2>1
<1>3. x \in Long /\ lo \in Long
  BY <1>1, Powers DEF Long
<1>4. BitsOf(lo) \subseteq 0 .. W - 1
  BY <1>0, <1>1, BitsFromBits
<1>5. \A j \in 0 .. W - 1 : ~Bit(x, j)
  <2>1. x = h * hi + 0 /\ 0 \in Int /\ h = 2^W
    BY <1>0, <1>1
  <2> HIDE DEF x, h
  <2>2. \A j \in 0 .. W - 1 : Bit(x, j) <=> Bit(0, j)
    BY <1>0, <1>1, <2>1, HighBits
  <2>3. \A j \in 0 .. W - 1 : ~Bit(0, j)
    <3>1. 0 \in 0 .. 2 * W /\ 2^0 - 1 = 0 /\ 0 .. 0 - 1 = {}
      BY <1>0, PowersDouble
    <3>2. BitsOf(0) = {}
      BY <3>1, OnesBits
    <3>3. \A j \in 0 .. W - 1 : j \in 0 .. 2 * W - 1
      BY <1>0
    <3> QED BY <3>2, <3>3 DEF BitsOf
  <2> QED BY <2>2, <2>3
<1> HIDE DEF h, x
<1>6. BitsOf(x) \cap BitsOf(lo) = {}
  BY <1>4, <1>5 DEF BitsOf
<1>7. Or(x, lo) = x + lo
  BY <1>3, <1>6, BitsAdd
<1>8. (hi % h) * h = x
  BY <1>0, <1>1, <1>2 DEF x
<1>9. Paired(hi, lo) = Or((hi % h) * h, lo)
  BY DEF Paired, h
<1>10. Paired(hi, lo) = h * hi + lo
  BY <1>7, <1>8, <1>9 DEF x
<1> QED BY <1>10 DEF h

\* Doubling a word moves its ones up by a place, and the one of the sign out.
LEMMA DoubledOnes ==
    ASSUME NEW x \in Word, NEW y, y = (2 * x) % 2^W
    PROVE  /\ IsFiniteSet(BitsOf(x)) /\ IsFiniteSet(BitsOf(y))
           /\ Cardinality(BitsOf(x)) = Cardinality(BitsOf(y)) + (IF Sign(x, 2) THEN 1 ELSE 0)
<1> DEFINE h == 2^(W - 1)
           z == IF x >= h THEN x - h ELSE x
<1>0. /\ 2 * W \in Nat /\ W - 1 \in 0 .. 2 * W - 1 /\ h \in Nat \ {0} /\ 2^W = 2 * h /\ W \in Int
      /\ W - 1 \in 0 .. 2 * W /\ W - 1 \in Nat
  <2>1. W - 1 \in 0 .. 2 * W - 1 /\ W - 1 \in 0 .. 2 * W /\ (W - 1) + 1 = W /\ 2 * W \in Nat /\ W \in Int
    BY WidthAssumption
  <2>2. 2^((W - 1) + 1) = 2 * 2^(W - 1) /\ 2^(W - 1) \in Nat \ {0}
    BY <2>1, PowersDouble
  <2> QED BY <2>1, <2>2
<1>1. x \in 0 .. 2 * h - 1 /\ z \in 0 .. h - 1 /\ x \in Int
  BY <1>0 DEF Word
<1>2. y = 2 * z
  <2>1. 2 * z \in 0 .. 2^W - 1 /\ 2^W \in Nat \ {0}
    BY <1>0, <1>1
  <2>2. CASE x >= h
    <3> DEFINE v == 2 * x
               r == 2 * z
    <3>1. v = 2^W + r /\ r \in 0 .. 2^W - 1
      BY <1>0, <1>1, <2>1, <2>2
    <3> HIDE DEF v, r
    <3>2. v \div 2^W = 1 /\ v % 2^W = r
      BY <2>1, <3>1, Once
    <3> QED BY <3>2 DEF v, r
  <2>3. CASE ~(x >= h)
    <3> DEFINE v == 2 * x
    <3>1. v = 2 * z /\ v \in 0 .. 2^W - 1
      BY <1>0, <1>1, <2>1, <2>3
    <3> HIDE DEF v
    <3>2. v \div 2^W = 0 /\ v % 2^W = v
      BY <2>1, <3>1, Small
    <3> QED BY <3>1, <3>2 DEF v
  <2> QED BY <2>2, <2>3
<1>3. /\ x >= h => BitsOf(x) = BitsOf(z) \cup {W - 1} /\ Sign(x, 2)
      /\ ~(x >= h) => BitsOf(x) = BitsOf(z) /\ ~Sign(x, 2)
      /\ BitsOf(z) \subseteq 0 .. W - 2
  <2>1. Sign(x, 2) <=> W - 1 \in BitsOf(x)
    BY <1>0 DEF Sign, Bits, BitsOf
  <2>2. z \in 0 .. 2^(W - 1) - 1 /\ (W - 1) - 1 = W - 2
    BY <1>0, <1>1
  <2> HIDE DEF z
  <2>3. BitsOf(z) \subseteq 0 .. (W - 1) - 1 /\ BitsOf(2^(W - 1) + z) = BitsOf(z) \cup {W - 1}
    BY <1>0, <2>2, TopBit
  <2>4. W - 1 \notin BitsOf(z)
    BY <1>0, <2>3
  <2>5. (x >= h => x = 2^(W - 1) + z) /\ (~(x >= h) => x = z)
    BY <1>0, <1>1 DEF z
  <2> QED BY <2>1, <2>2, <2>3, <2>4, <2>5
<1>4. BitsOf(2 * z) = {k + 1 : k \in BitsOf(z)}
  <2>1. ASSUME NEW k \in 0 .. 2 * W - 2 PROVE Bit(2 * z, k + 1) <=> Bit(z, k)
    <3> DEFINE d == 2^k
               q == z \div d
               r == z % d
    <3>1. k \in 0 .. 2 * W - 1 /\ k \in 0 .. 2 * W
      BY <1>0
    <3>2. 2^(k + 1) = 2 * d /\ d \in Nat \ {0} /\ z \in Int
      BY <1>1, <3>1, PowersDouble
    <3> HIDE DEF d, z
    <3>3. z = d * q + r /\ r \in 0 .. d - 1 /\ q \in Int
      BY <3>2, Remainders
    <3> HIDE DEF q, r
    <3> DEFINE c == 2 * d
               s == 2 * r
               v == 2 * z
    <3>4. v = c * q + s /\ s \in 0 .. c - 1 /\ c \in Nat \ {0}
      BY <3>2, <3>3
    <3> HIDE DEF c, s, v
    <3>5. v \div c = q
      BY <3>3, <3>4, Divided
    <3>6. v \div 2^(k + 1) = z \div 2^k
      BY <3>2, <3>5 DEF c, q, d
    <3> QED BY <3>6 DEF Bit, v
  <2>2. ~Bit(2 * z, 0)
    <3>1. (2 * z) \div 2^0 = 2 * z
      BY <1>1, PowersDouble
    <3>2. (2 * z) % 2 # 1
      BY <1>1
    <3> QED BY <3>1, <3>2 DEF Bit
  <2>3. \A k \in 0 .. 2 * W - 1 : k = 0 \/ (k - 1 \in 0 .. 2 * W - 2 /\ (k - 1) + 1 = k)
    BY <1>0
  <2>4. \A k \in BitsOf(z) : k \in 0 .. 2 * W - 2 /\ k + 1 \in 0 .. 2 * W - 1
    BY <1>0, <1>3
  <2> HIDE DEF z
  <2>5. ASSUME NEW k \in BitsOf(2 * z) PROVE k \in {j + 1 : j \in BitsOf(z)}
    <3>1. k \in 0 .. 2 * W - 1 /\ Bit(2 * z, k)
      BY DEF BitsOf
    <3>2. k - 1 \in 0 .. 2 * W - 2 /\ (k - 1) + 1 = k
      BY <2>2, <2>3, <3>1
    <3>3. Bit(z, k - 1) /\ k - 1 \in 0 .. 2 * W - 1
      BY <1>0, <2>1, <3>1, <3>2
    <3>4. k - 1 \in BitsOf(z)
      BY <3>3 DEF BitsOf
    <3> QED BY <3>2, <3>4
  <2>6. ASSUME NEW k \in BitsOf(z) PROVE k + 1 \in BitsOf(2 * z)
    <3>1. Bit(z, k) /\ k \in 0 .. 2 * W - 2 /\ k + 1 \in 0 .. 2 * W - 1
      BY <2>4 DEF BitsOf
    <3> QED BY <2>1, <3>1 DEF BitsOf
  <2> QED BY <2>5, <2>6
<1>5. IsFiniteSet(BitsOf(x)) /\ IsFiniteSet(BitsOf(y)) /\ IsFiniteSet(BitsOf(z))
  <2>1. \A v : BitsOf(v) \subseteq 0 .. 2 * W - 1
    BY DEF BitsOf
  <2>2. 0 \in Int /\ 2 * W - 1 \in Int
    BY <1>0
  <2>3. IsFiniteSet(0 .. 2 * W - 1)
    BY <2>2, FS_Interval
  <2> QED BY <2>1, <2>3, FS_Subset
<1> HIDE DEF z, h
<1>6. Cardinality(BitsOf(y)) = Cardinality(BitsOf(z))
  <2> DEFINE next == [k \in BitsOf(z) |-> k + 1]
  <2>1. BitsOf(z) \subseteq Int
    BY <1>0 DEF BitsOf
  <2>2. next \in Bijection(BitsOf(z), BitsOf(y))
    BY <1>2, <1>4, <2>1 DEF Bijection, Injection, Surjection, IsInjective
  <2>3. ExistsBijection(BitsOf(z), BitsOf(y))
    BY <2>2 DEF ExistsBijection
  <2> QED BY <1>5, <2>3, FS_Bijection
<1>7. CASE x >= h
  <2>1. W - 1 \notin BitsOf(z)
    BY <1>0, <1>3
  <2>2. Cardinality(BitsOf(z) \cup {W - 1}) = Cardinality(BitsOf(z)) + 1
    BY <1>5, <2>1, FS_AddElement
  <2> QED BY <1>3, <1>5, <1>6, <1>7, <2>2
<1>8. CASE ~(x >= h)
  <2>1. Cardinality(BitsOf(z)) \in Nat
    BY <1>5, FS_CardinalityType
  <2> QED BY <1>3, <1>5, <1>6, <1>8, <2>1
<1> QED BY <1>7, <1>8

-----------------------------------------------------------------------------
(***************************************************************************)
(* What each access and each instruction does to a machine whose registers,*)
(* flags and core are known, if no access is refused.                      *)
(***************************************************************************)

\* The machine has not been killed; while it runs, registers, flags and core are
\* these, and the value last read is x.
Comes(w, r, f, c) ==
    /\ w \in Machines /\ w.left \in {"no", "fault"}
    /\ Runs(w) => w.r = r /\ w.f = f /\ w.core = c

Gives(w, x, r, f, c) == Comes(w, r, f, c) /\ (Runs(w) => w.out = x)

\* Registers or core with y at x.
With(g, x, y) == [g EXCEPT ![x] = y]

\* x stands for y.
Is(x, y) == x = y

\* An address that answers, and the word it answers with.
Backed(a) == a \in Word /\ (a \in Cells \/ (a % 2 = 0 /\ InText(a)))
Held(c, a) == IF a \in Cells THEN c[a] ELSE routine.text[Text(a)].n % 2^W

\* Operand o names address a and leaves the registers as s.
Finds(o, l, r, c, a, s) ==
    /\ o \in Operands /\ l \in {1, 2} /\ a \in Word
    /\ \/ o.mode = 0 /\ a = Pseudo + o.reg /\ s = r
       \/ o.mode = 1 /\ a = r[o.reg] /\ s = r
       \/ o.mode = 2 /\ a = r[o.reg] /\ s = [r EXCEPT ![o.reg] = a + Stride(o, l)]
       \/ o.mode = 3 /\ Backed(r[o.reg]) /\ a = Held(c, r[o.reg])
          /\ s = [r EXCEPT ![o.reg] = r[o.reg] + 2]
       \/ o.mode = 4 /\ r[o.reg] = a + Stride(o, l) /\ s = [r EXCEPT ![o.reg] = a]
       \/ o.mode = 6 /\ o.reg # PC /\ Backed(r[PC]) /\ a = (Held(c, r[PC]) + r[o.reg]) % 2^W
          /\ s = [r EXCEPT ![PC] = r[PC] + 2]
       \/ o.mode = 7 /\ o.reg # PC /\ Backed(r[PC]) /\ s = [r EXCEPT ![PC] = r[PC] + 2]
          /\ LET b == (Held(c, r[PC]) + r[o.reg]) % 2^W IN Backed(b) /\ a = Held(c, b)

\* Address a reads as x; writing x there leaves registers s and core d.
Reads(a, l, r, c, x) ==
    \/ a \in Pseudo .. Pseudo + 7 /\ x = r[a - Pseudo] % 2^Bits(l)
    \/ ~IsReg(a) /\ l = 2 /\ Backed(a) /\ x = Held(c, a)
    \/ ~IsReg(a) /\ l = 1 /\ Backed(a - (a % 2))
       /\ x = IF a % 2 = 1 THEN Held(c, a - 1) \div ByteSize ELSE Held(c, a) % ByteSize

Writes(a, l, x, r, c, s, d) ==
    \/ IsReg(a) /\ l = 2 /\ s = [r EXCEPT ![a - Pseudo] = x % 2^(2 * W)] /\ d = c
    \/ ~IsReg(a) /\ l = 2 /\ a \in Cells /\ s = r /\ d = [c EXCEPT ![a] = x % 2^W]
    \/ ~IsReg(a) /\ l = 1 /\ a - (a % 2) \in Cells /\ s = r
       /\ d = [c EXCEPT ![a - (a % 2)] =
                  IF a % 2 = 1 THEN (x % ByteSize) * ByteSize + (c[a - 1] % ByteSize)
                  ELSE (c[a] \div ByteSize) * ByteSize + (x % ByteSize)]

\* Both: the operand is found and read.
Loads(o, l, r, c, a, s, x) == Finds(o, l, r, c, a, s) /\ Reads(a, l, s, c, x)

\* The machine w has found it and y has read it, on from k.
Loaded(k, w, y, a, s, x, f, c) ==
    /\ Gives(w, a, s, f, c) /\ Gives(y, x, s, f, c) /\ a \in Word
    /\ Runs(w) => Runs(k)
    /\ Runs(y) => Runs(w) /\ w.out = a /\ y.out \in Word

\* A result z goes to address a, if it is stored.
Stores(a, l, z, r, c, s, d) ==
    IF z.store THEN Writes(a, l, z.val, r, c, s, d) ELSE s = r /\ d = c

-----------------------------------------------------------------------------
\* Words are numbers, and an address may be moved on by a word.
LEMMA WordsInt == Word \subseteq Int /\ Long \subseteq Int /\ Word \subseteq Long
BY WordFacts

\* A value returned is the one last read.
LEMMA ReturnsGives ==
    ASSUME NEW k, NEW r, NEW f, NEW c, Comes(k, r, f, c), NEW x \in Int
    PROVE  Gives(Returns(k, x), x, r, f, c)
<1>1. k \in Machines
  BY DEF Comes
<1> QED BY <1>1, ReturnsFacts DEF Gives, Comes, Runs, Quiet

\* Setting a register.
LEMMA SetsComes ==
    ASSUME NEW k, NEW r, NEW f, NEW c, Comes(k, r, f, c), NEW q \in 0 .. 7, NEW x \in Int
    PROVE  /\ Comes(Sets(k, q, x), [r EXCEPT ![q] = x % 2^(2 * W)], f, c)
           /\ Sets(k, q, x).out = k.out /\ Sets(k, q, x).left = k.left
<1> DEFINE w == Sets(k, q, x)
<1>1. k \in Machines
  BY DEF Comes
<1>2. /\ w \in Machines /\ Quiet(k, w) /\ w.left = k.left /\ w.out = k.out
      /\ Runs(k) => w.r = [k.r EXCEPT ![q] = x % 2^(2 * W)]
  BY <1>1, SetsFacts
<1> HIDE DEF w
<1>3. Comes(w, [r EXCEPT ![q] = x % 2^(2 * W)], f, c)
  BY <1>2 DEF Comes, Runs, Quiet
<1> QED BY <1>2, <1>3 DEF w

\* Setting the flags.
LEMMA FlaggedComes ==
    ASSUME NEW k, NEW r, NEW f, NEW c, Comes(k, r, f, c), NEW g \in Flags
    PROVE  /\ Comes(Flagged(k, g), r, g, c)
           /\ Flagged(k, g).out = k.out /\ Flagged(k, g).left = k.left
<1>1. k \in Machines
  BY DEF Comes
<1> QED BY <1>1, FlaggedFacts DEF Comes, Runs, Quiet

\* What an address answers with is a word.
LEMMA HeldTyped ==
    ASSUME Surroundings, NEW c \in [Cells -> Word], NEW a, Backed(a)
    PROVE  Held(c, a) \in Word
<1>1. CASE a \in Cells
  BY <1>1 DEF Held
<1>2. CASE a \notin Cells
  <2>1. InText(a)
    BY <1>2 DEF Backed
  <2>2. routine.text[Text(a)] \in TextWords
    BY <2>1, TextTyped
  <2>3. routine.text[Text(a)].n \in Int
    BY <2>2 DEF TextWords
  <2> QED BY <1>2, <2>3, WordFacts DEF Held
<1> QED BY <1>1, <1>2

\* A word that is read, if it is not refused.
LEMMA Read16Gives ==
    ASSUME Surroundings, NEW k, NEW r, NEW f, NEW c, Comes(k, r, f, c), NEW b \in Int,
           NEW a, Backed(a), Runs(k) => b % 2^W = a
    PROVE  Gives(Read16(k, b), Held(c, a), r, f, c)
<1> DEFINE w == Read16(k, b)
<1>1. k \in Machines /\ w \in Machines /\ Quiet(k, w) /\ w.r = k.r
      /\ (Runs(w) => Runs(k)) /\ (~Runs(k) => w = k)
  BY Read16Facts DEF Comes
<1>2. CASE Runs(k) /\ Page(a) \in absent
  <2>1. w = Aborts(k, a, "fault")
    BY <1>2 DEF Read16
  <2>2. a \in Long
    BY WordFacts DEF Backed
  <2>3. w.left = "fault"
    BY <1>1, <1>2, <2>1, <2>2, AbortsFacts DEF Reasons
  <2> QED BY <1>1, <2>3 DEF Gives, Comes, Runs
<1>3. CASE Runs(k) /\ Page(a) \notin absent
  <2>1. w = Returns(k, Held(c, a))
    BY <1>3 DEF Read16, Held, Backed, Comes
  <2>2. c \in [Cells -> Word]
    BY <1>3 DEF Comes, Machines
  <2>3. Held(c, a) \in Word
    BY <2>2, HeldTyped
  <2>4. Held(c, a) \in Int
    BY <2>3, WordsInt
  <2>5. Gives(Returns(k, Held(c, a)), Held(c, a), r, f, c)
    BY <2>4, ReturnsGives
  <2> QED BY <2>1, <2>5
<1>4. CASE ~Runs(k)
  BY <1>1, <1>4 DEF Gives, Comes
<1> QED BY <1>2, <1>3, <1>4

\* The sizes of words, addresses and bytes.
LEMMA Sizes ==
    /\ W \in Nat /\ Word = 0 .. 2^W - 1 /\ Long = 0 .. 2^(2 * W) - 1
    /\ \/ W = 8 /\ 2^W = 256 /\ 2^(2 * W) = 65536 /\ ByteSize = 16 /\ Pseudo = 240
       \/ W = 16 /\ 2^W = 65536 /\ 2^(2 * W) = 4294967296 /\ ByteSize = 256 /\ Pseudo = 61440
BY Powers DEF Word, Long

\* A register's value is what its own width leaves of it.
LEMMA LongCut == \A y \in Long : y % 2^(2 * W) = y
<1>1. \A n \in Nat \ {0} : \A y \in 0 .. n - 1 : y % n = y
  OBVIOUS
<1>2. 2^(2 * W) \in Nat \ {0} /\ Long = 0 .. 2^(2 * W) - 1
  BY Sizes
<1> QED BY <1>1, <1>2, Zenon

\* An address and one behind it need no cutting.
LEMMA SmallSums ==
    \A p \in Word : /\ p \in Int /\ p \in Long /\ p % 2^W = p
                   /\ \A n \in {0, 1, 2} : (p + n) \in Long /\ (p + n) % 2^(2 * W) = p + n
BY Sizes

\* The instruction word, and the word behind an instruction.
LEMMA Fetch16Comes ==
    ASSUME Surroundings, NEW k, NEW r, NEW f, NEW c, Comes(k, r, f, c), Backed(r[PC])
    PROVE  Gives(Fetch16(k), Held(c, r[PC]), [r EXCEPT ![PC] = r[PC] + 2], f, c)
<1> DEFINE v == Read16(k, k.r[PC])
           w == Sets(v, PC, k.r[PC] + 2)
<1>1. k \in Machines /\ PC \in 0 .. 7 /\ r[PC] \in Word
  BY DEF Comes, PC, Backed
<1>2. k.r[PC] \in Int /\ k.r[PC] + 2 \in Int
  BY <1>1, RegisterTyped
<1>3. Runs(k) => k.r[PC] % 2^W = r[PC] /\ (k.r[PC] + 2) % 2^(2 * W) = r[PC] + 2
  <2>1. Runs(k) => k.r[PC] = r[PC]
    BY DEF Comes
  <2> QED BY <1>1, <2>1, SmallSums
<1>4. Gives(v, Held(c, r[PC]), r, f, c)
  BY <1>2, <1>3, Read16Gives
<1>5. v.left = "no" => Runs(k)
  BY <1>1, <1>2, Read16Facts DEF Runs
<1> HIDE DEF v
<1>6. /\ Comes(w, [r EXCEPT ![PC] = (k.r[PC] + 2) % 2^(2 * W)], f, c)
      /\ w.out = v.out /\ w.left = v.left
  BY <1>1, <1>2, <1>4, SetsComes DEF Gives
<1>7. Fetch16(k) = w
  BY DEF Fetch16, v
<1> HIDE DEF w
<1> QED BY <1>3, <1>4, <1>5, <1>6, <1>7 DEF Gives, Comes, Runs
\* An operand, as Finds says.
LEMMA AgetGives ==
    ASSUME Surroundings, NEW k, NEW r \in [0 .. 7 -> Long], NEW f, NEW c \in [Cells -> Word],
           Comes(k, r, f, c),
           NEW o \in Operands, NEW l \in {1, 2}, NEW a, NEW s, Finds(o, l, r, c, a, s)
    PROVE  Gives(Aget(k, o, l), a, s, f, c)
<1> DEFINE w == Aget(k, o, l)
           base == k.r[o.reg]
<1>1. /\ k \in Machines /\ a \in Word /\ o.reg \in 0 .. 7 /\ o.mode \in 0 .. 7 /\ PC \in 0 .. 7
      /\ Stride(o, l) \in {1, 2} /\ base \in Int
  <2>1. k \in Machines /\ a \in Word /\ o.reg \in 0 .. 7 /\ o.mode \in 0 .. 7 /\ PC \in 0 .. 7
    BY DEF Comes, Finds, Operands, PC
  <2> QED BY <2>1, RegisterTyped DEF Stride
<1>2. Runs(k) => base = r[o.reg]
  BY DEF Comes
<1> HIDE DEF base
<1>3. a \in Int /\ a % 2^W = a /\ (a + Stride(o, l)) % 2^(2 * W) = a + Stride(o, l)
      /\ a % 2^(2 * W) = a
  BY <1>1, SmallSums
<1>4. CASE ~Runs(k)
  <2>1. w = k
    BY <1>1, <1>4, AgetFacts
  <2> QED BY <1>4, <2>1 DEF Gives, Comes
<1>5. CASE Runs(k) /\ o.mode = 0
  <2>1. w = Returns(k, a) /\ s = r
    BY <1>5 DEF Aget, Finds
  <2> HIDE DEF w
  <2> QED BY <1>3, <2>1, ReturnsGives DEF w
<1>6. CASE Runs(k) /\ o.mode = 1
  <2>1. w = Returns(k, a) /\ s = r
    BY <1>2, <1>3, <1>6 DEF Aget, Finds, base
  <2> HIDE DEF w
  <2> QED BY <1>3, <2>1, ReturnsGives DEF w
<1>7. CASE Runs(k) /\ o.mode = 2
  <2> DEFINE v == Returns(k, base)
             u == Sets(v, o.reg, base + Stride(o, l))
  <2>1. base = a /\ s = [r EXCEPT ![o.reg] = a + Stride(o, l)]
    BY <1>2, <1>7 DEF Finds
  <2>2. w = Returns(u, u.out % 2^W)
    BY <1>7 DEF Aget, Deferred, base
  <2>3. Gives(v, a, r, f, c)
    BY <1>3, <2>1, ReturnsGives
  <2> HIDE DEF v, w
  <2>4. Comes(u, s, f, c) /\ u.out = v.out /\ u.left = v.left
    <3>1. base + Stride(o, l) \in Int /\ Comes(v, r, f, c)
      BY <1>1, <2>3 DEF Gives
    <3>2. /\ Comes(u, [r EXCEPT ![o.reg] = (base + Stride(o, l)) % 2^(2 * W)], f, c)
          /\ u.out = v.out /\ u.left = v.left
      BY <1>1, <3>1, SetsComes
    <3> HIDE DEF u
    <3> QED BY <1>3, <2>1, <3>2
  <2> HIDE DEF u
  <2>5. Runs(u) => u.out % 2^W = a
    BY <1>3, <2>3, <2>4 DEF Gives, Runs
  <2>6. u.out % 2^W \in Int
    BY <2>4, WordFacts, WordsInt DEF Comes, Machines
  <2>7. Gives(Returns(u, u.out % 2^W), u.out % 2^W, s, f, c)
    BY <2>4, <2>6, ReturnsGives
  <2>8. Runs(Returns(u, u.out % 2^W)) => Runs(u)
    BY DEF Returns, Runs
  <2> QED BY <2>2, <2>5, <2>7, <2>8 DEF Gives, w
<1>8. CASE Runs(k) /\ o.mode = 3
  <2> DEFINE p == r[o.reg]
             v == Returns(k, base)
             u == Sets(v, o.reg, base + 2)
  <2>1. base = p /\ s = [r EXCEPT ![o.reg] = p + 2] /\ Backed(p) /\ a = Held(c, p)
    BY <1>2, <1>8 DEF Finds
  <2>2. p \in Word /\ p \in Int /\ p % 2^W = p /\ (p + 2) % 2^(2 * W) = p + 2
    BY <2>1, SmallSums DEF Backed
  <2>3. w = Read16(u, u.out)
    BY <1>8 DEF Aget, Deferred, Stride, base
  <2> HIDE DEF p
  <2>4. Gives(v, p, r, f, c)
    BY <2>1, <2>2, ReturnsGives
  <2> HIDE DEF v, w
  <2>5. Comes(u, s, f, c) /\ u.out = v.out /\ u.left = v.left
    <3>1. base + 2 \in Int /\ Comes(v, r, f, c)
      BY <1>1, <2>4 DEF Gives
    <3>2. /\ Comes(u, [r EXCEPT ![o.reg] = (base + 2) % 2^(2 * W)], f, c)
          /\ u.out = v.out /\ u.left = v.left
      BY <1>1, <3>1, SetsComes
    <3> HIDE DEF u
    <3> QED BY <2>1, <2>2, <3>2
  <2> HIDE DEF u
  <2>6. Runs(u) => u.out % 2^W = p
    BY <2>2, <2>4, <2>5 DEF Gives, Runs
  <2>7. u.out \in Int
    BY <2>5 DEF Comes, Machines
  <2> QED BY <2>1, <2>3, <2>5, <2>6, <2>7, Read16Gives DEF w
<1>9. CASE Runs(k) /\ o.mode = 4
  <2> DEFINE v == Sets(k, o.reg, base - Stride(o, l))
             u == Returns(v, v.r[o.reg])
  <2>1. base = a + Stride(o, l) /\ s = [r EXCEPT ![o.reg] = a]
    BY <1>2, <1>9 DEF Finds
  <2>2. base - Stride(o, l) = a
    BY <1>1, <1>3, <2>1
  <2>3. w = Returns(u, u.out % 2^W)
    BY <1>9 DEF Aget, Deferred, base
  <2>4. Comes(v, s, f, c)
    BY <1>1, <1>3, <2>1, <2>2, SetsComes
  <2> HIDE DEF v, w
  <2>5. v.r[o.reg] \in Int
    BY <1>1, <2>4, RegisterTyped DEF Comes
  <2>6. Gives(u, v.r[o.reg], s, f, c)
    BY <2>4, <2>5, ReturnsGives
  <2>7. Runs(u) => Runs(v)
    BY DEF Returns, Runs
  <2>8. s[o.reg] = a
    BY <1>1, <2>1
  <2> HIDE DEF u
  <2>9. Runs(u) => u.out % 2^W = a
    BY <1>3, <2>4, <2>6, <2>7, <2>8 DEF Gives, Comes
  <2>10. u.out % 2^W \in Int
    BY <2>6, WordFacts, WordsInt DEF Gives, Comes, Machines
  <2>11. Gives(Returns(u, u.out % 2^W), u.out % 2^W, s, f, c)
    BY <2>6, <2>10, ReturnsGives DEF Gives
  <2>12. Runs(Returns(u, u.out % 2^W)) => Runs(u)
    BY DEF Returns, Runs
  <2> QED BY <2>3, <2>9, <2>11, <2>12 DEF Gives, w
<1>10. CASE Runs(k) /\ o.mode \in {6, 7}
  <2> DEFINE p == r[PC]
             v == Fetch16(k)
             u == Returns(v, v.out + v.r[o.reg])
             b == Held(c, p) + r[o.reg]
  <2>1. Backed(p) /\ o.reg # PC /\ s = [r EXCEPT ![PC] = p + 2]
    BY <1>10 DEF Finds
  <2>2. Gives(v, Held(c, p), s, f, c)
    BY <2>1, Fetch16Comes
  <2>3. w = Deferred(u, o)
    BY <1>10 DEF Aget
  <2> HIDE DEF v, w
  <2>4. v.r[o.reg] \in Int /\ v.out + v.r[o.reg] \in Int
    BY <1>1, <2>2, RegisterTyped DEF Gives, Comes, Machines
  <2>5. Gives(u, v.out + v.r[o.reg], s, f, c)
    BY <2>2, <2>4, ReturnsGives DEF Gives
  <2>6. Runs(u) => Runs(v)
    BY DEF Returns, Runs
  <2>7. s[o.reg] = r[o.reg]
    BY <1>1, <2>1
  <2> HIDE DEF u, p
  <2>8. Runs(u) => u.out = b
    BY <2>2, <2>5, <2>6, <2>7 DEF Gives, Comes
  <2>9. u.out \in Int
    BY <2>5 DEF Gives, Comes, Machines
  <2> HIDE DEF b
  <2>10. CASE o.mode = 6
    <3>1. w = Returns(u, u.out % 2^W)
      BY <2>3, <2>10 DEF Deferred
    <3>2. a = b % 2^W
      BY <2>10 DEF Finds, b, p
    <3>3. u.out % 2^W \in Int
      BY <2>9, WordFacts, WordsInt
    <3>4. Gives(Returns(u, u.out % 2^W), u.out % 2^W, s, f, c)
      BY <2>5, <3>3, ReturnsGives DEF Gives
    <3>5. Runs(Returns(u, u.out % 2^W)) => Runs(u)
      BY DEF Returns, Runs
    <3> QED BY <2>8, <3>1, <3>2, <3>4, <3>5 DEF Gives, w
  <2>11. CASE o.mode = 7
    <3>1. w = Read16(u, u.out)
      BY <2>3, <2>11 DEF Deferred
    <3>2. Backed(b % 2^W) /\ a = Held(c, b % 2^W)
      BY <2>11 DEF Finds, b, p
    <3> QED BY <2>5, <2>8, <2>9, <3>1, <3>2, Read16Gives DEF Gives, w
  <2> QED BY <1>10, <2>10, <2>11
<1>11. o.mode \in {0, 1, 2, 3, 4, 6, 7}
  BY DEF Finds
<1> QED BY <1>4, <1>5, <1>6, <1>7, <1>8, <1>9, <1>10, <1>11
\* A word and its halves.
LEMMA HalvesTyped ==
    /\ \A x \in Int : x \div ByteSize \in Int /\ x % ByteSize \in 0 .. ByteSize - 1
    /\ \A x \in Word : x \div ByteSize \in 0 .. ByteSize - 1
    /\ \A y, z \in 0 .. ByteSize - 1 : y * ByteSize + z \in Word
                                      /\ (y * ByteSize + z) % 2^W = y * ByteSize + z
<1>1. /\ \A x \in Int : x \div 16 \in Int /\ 0 <= x % 16 /\ x % 16 < 16
      /\ \A x \in Int : x \div 256 \in Int /\ 0 <= x % 256 /\ x % 256 < 256
  OBVIOUS
<1>2. /\ \A x \in Int : 0 <= x /\ x < 256 => 0 <= x \div 16 /\ x \div 16 < 16
      /\ \A x \in Int : 0 <= x /\ x < 65536 => 0 <= x \div 256 /\ x \div 256 < 256
  OBVIOUS
<1>3. /\ \A y, z \in Int : 0 <= y /\ y < 16 /\ 0 <= z /\ z < 16
                                => 0 <= y * 16 + z /\ y * 16 + z < 256
      /\ \A y, z \in Int : 0 <= y /\ y < 256 /\ 0 <= z /\ z < 256
                                => 0 <= y * 256 + z /\ y * 256 + z < 65536
  OBVIOUS
<1>4. /\ \A x \in Int : 0 <= x /\ x < 256 => x % 256 = x
      /\ \A x \in Int : 0 <= x /\ x < 65536 => x % 65536 = x
  OBVIOUS
<1>5. \A x \in Int : x \div ByteSize \in Int /\ x % ByteSize \in 0 .. ByteSize - 1
  BY <1>1, Sizes
<1>6. \A x \in Word : x \div ByteSize \in 0 .. ByteSize - 1
  BY <1>2, Sizes
<1>7. \A y, z \in 0 .. ByteSize - 1 : y * ByteSize + z \in Word
                                      /\ (y * ByteSize + z) % 2^W = y * ByteSize + z
  <2>1. CASE ByteSize = 16 /\ 2^W = 256
    BY <1>3, <1>4, <2>1, SMTT(30) DEF Word
  <2>2. CASE ByteSize = 256 /\ 2^W = 65536
    BY <1>3, <1>4, <2>2, SMTT(30) DEF Word
  <2> QED BY <2>1, <2>2, Sizes
<1> QED BY <1>5, <1>6, <1>7

\* A byte is half as wide as a word.
LEMMA ByteSizeTyped == ByteSize \in Nat \ {0} /\ Pseudo \in Int
BY Sizes

\* An address of a register is as far behind Pseudo as the register's number.
LEMMA RegisterOffset ==
    ASSUME NEW a, IsReg(a)
    PROVE  a - Pseudo \in 0 .. 7 /\ Pseudo + (a - Pseudo) = a
BY ByteSizeTyped DEF IsReg

\* An operand that is read.
LEMMA MemReadGives ==
    ASSUME Surroundings, NEW k, NEW r \in [0 .. 7 -> Long], NEW f, NEW c \in [Cells -> Word],
           NEW a \in Word, Gives(k, a, r, f, c), NEW l \in {1, 2}, NEW x, Reads(a, l, r, c, x)
    PROVE  Gives(MemRead(k, k.out, l), x, r, f, c)
<1> DEFINE w == MemRead(k, k.out, l)
<1>1. k \in Machines /\ k.out \in Int /\ a \in Int
  BY WordsInt DEF Gives, Comes, Machines
<1>2. CASE ~Runs(k)
  <2>1. w = k
    BY <1>1, <1>2, MemReadFacts
  <2> QED BY <1>2, <2>1 DEF Gives, Comes
<1>3. CASE Runs(k) /\ IsReg(a)
  <2> DEFINE q == a - Pseudo
  <2>1. k.out = a
    BY <1>3 DEF Gives
  <2>2. q \in 0 .. 7 /\ x = r[q] % 2^Bits(l)
    BY <1>3, RegisterOffset DEF Reads
  <2>3. w = Returns(k, x)
    BY <1>3, <2>1, <2>2 DEF MemRead, Gives, Comes
  <2>4. r[q] \in Int
    BY <2>2, WordsInt
  <2>5. x \in Int
    <3> HIDE DEF q
    <3>1. 2^Bits(l) \in Nat \ {0}
      BY WidthTyped
    <3> QED BY <2>2, <2>4, <3>1
  <2> HIDE DEF w
  <2> QED BY <2>3, <2>5, ReturnsGives DEF Gives, w
<1>4. CASE Runs(k) /\ ~IsReg(a) /\ l = 2
  <2>1. k.out = a
    BY <1>4 DEF Gives
  <2>2. w = Read16(k, k.out)
    BY <1>4, <2>1 DEF MemRead
  <2>3. Backed(a) /\ x = Held(c, a) /\ a % 2^W = a
    BY <1>4, SmallSums DEF Reads, IsReg
  <2> HIDE DEF w
  <2> QED BY <1>1, <2>1, <2>2, <2>3, Read16Gives DEF Gives, w
<1>5. CASE Runs(k) /\ ~IsReg(a) /\ l = 1
  <2> DEFINE b == a - (a % 2)
             v == Read16(k, b)
             y == IF a % 2 = 1 THEN v.out \div ByteSize ELSE v.out % ByteSize
  <2>1. k.out = a
    BY <1>5 DEF Gives
  <2>2. w = Returns(v, y)
    BY <1>5, <2>1 DEF MemRead, Read8
  <2>3. Backed(b) /\ b \in Word /\ b \in Int /\ b % 2^W = b
    BY <1>5, SmallSums DEF Reads, IsReg, Backed
  <2>4. x = IF a % 2 = 1 THEN Held(c, b) \div ByteSize ELSE Held(c, b) % ByteSize
    BY <1>1, <1>5 DEF Reads, IsReg
  <2> HIDE DEF b
  <2>5. Gives(v, Held(c, b), r, f, c)
    BY <2>3, Read16Gives DEF Gives
  <2>6. v.out \in Int
    BY <2>5 DEF Gives, Comes, Machines
  <2>7. y \in Int
    <3>1. v.out \div ByteSize \in Int /\ v.out % ByteSize \in 0 .. ByteSize - 1
      BY <2>6, HalvesTyped
    <3> QED BY <3>1, ByteSizeTyped
  <2> HIDE DEF v
  <2>8. Runs(v) => y = x
    BY <2>4, <2>5 DEF Gives
  <2> HIDE DEF y, w
  <2>9. Gives(Returns(v, y), y, r, f, c)
    BY <2>5, <2>7, ReturnsGives DEF Gives
  <2>10. Runs(Returns(v, y)) => Runs(v)
    BY DEF Returns, Runs
  <2> QED BY <2>2, <2>8, <2>9, <2>10 DEF Gives, w
<1> QED BY <1>2, <1>3, <1>4, <1>5

\* A word that is written.
LEMMA Write16Comes ==
    ASSUME NEW k, NEW r, NEW f, NEW c, Comes(k, r, f, c), NEW b \in Int, NEW a \in Cells,
           Runs(k) => b % 2^W = a, NEW x \in Int
    PROVE  Comes(Write16(k, b, x), r, f, [c EXCEPT ![a] = x % 2^W])
<1> DEFINE w == Write16(k, b, x)
<1>1. k \in Machines /\ w \in Machines /\ w.f = k.f /\ w.r = k.r /\ (~Runs(k) => w = k)
  BY Write16Facts DEF Comes
<1>2. CASE ~Runs(k)
  BY <1>1, <1>2 DEF Comes
<1>3. CASE Runs(k) /\ Page(a) \in absent
  <2>1. w = Aborts(k, a, "fault") /\ a \in Long
    BY <1>3, CellsAssumption, WordsInt DEF Write16
  <2>2. w.left = "fault"
    BY <1>1, <1>3, <2>1, AbortsFacts DEF Reasons
  <2> QED BY <1>1, <2>2 DEF Comes, Runs
<1>4. CASE Runs(k) /\ Page(a) \notin absent
  <2>1. w = [k EXCEPT !.core[a] = x % 2^W]
    BY <1>4 DEF Write16
  <2>2. w.left = k.left /\ w.core = [k.core EXCEPT ![a] = x % 2^W]
    BY <1>1, <2>1 DEF Machines
  <2> QED BY <1>1, <1>4, <2>2 DEF Comes, Runs
<1> QED BY <1>2, <1>3, <1>4

\* An operand that is written.
LEMMA MemWriteComes ==
    ASSUME Surroundings, NEW k, NEW r \in [0 .. 7 -> Long], NEW f, NEW c \in [Cells -> Word],
           Comes(k, r, f, c), NEW a \in Word, NEW b, Runs(k) => b = a,
           NEW l \in {1, 2}, NEW x \in Int, NEW s, NEW d, Writes(a, l, x, r, c, s, d)
    PROVE  Comes(MemWrite(k, b, l, x), s, f, d)
<1> DEFINE w == MemWrite(k, b, l, x)
<1>1. k \in Machines /\ a \in Int
  BY WordsInt DEF Comes
<1>2. CASE ~Runs(k)
  <2>1. w = k
    BY <1>2, LeftFacts
  <2> QED BY <1>2, <2>1 DEF Comes
<1>3. CASE Runs(k) /\ IsReg(a)
  <2> DEFINE q == a - Pseudo
  <2>1. /\ q \in 0 .. 7 /\ l = 2 /\ s = [r EXCEPT ![q] = x % 2^(2 * W)] /\ d = c
        /\ w = Sets(k, q, x)
    BY <1>3, RegisterOffset DEF Writes, MemWrite
  <2> HIDE DEF q, w
  <2>2. Comes(Sets(k, q, x), [r EXCEPT ![q] = x % 2^(2 * W)], f, c)
    BY <2>1, SetsComes
  <2> QED BY <2>1, <2>2 DEF w
<1>4. CASE Runs(k) /\ ~IsReg(a) /\ l = 2
  <2>1. a \in Cells /\ s = r /\ d = [c EXCEPT ![a] = x % 2^W] /\ w = Write16(k, a, x)
    BY <1>4 DEF Writes, MemWrite
  <2>2. a % 2^W = a
    BY SmallSums
  <2> HIDE DEF w
  <2>3. Comes(Write16(k, a, x), r, f, [c EXCEPT ![a] = x % 2^W])
    BY <1>1, <2>1, <2>2, Write16Comes
  <2> QED BY <2>1, <2>3 DEF w
<1>5. CASE Runs(k) /\ ~IsReg(a) /\ l = 1
  <2> DEFINE e == a - (a % 2)
             v == Read16(k, e)
             Put(o) == IF a % 2 = 1 THEN (x % ByteSize) * ByteSize + (o % ByteSize)
                       ELSE (o \div ByteSize) * ByteSize + (x % ByteSize)
  <2>1. e \in Cells /\ s = r /\ w = Write16(v, e, Put(v.out))
    BY <1>5 DEF Writes, MemWrite, Write8
  <2>2. d = [c EXCEPT ![e] = Put(c[e])]
    BY <1>1, <1>5 DEF Writes
  <2>3. e \in Word /\ e \in Int /\ e % 2^W = e /\ c[e] \in Word
    BY <2>1, CellsAssumption, SmallSums
  <2> HIDE DEF e
  <2>4. Gives(v, Held(c, e), r, f, c) /\ Held(c, e) = c[e]
    <3>1. Backed(e) /\ Held(c, e) = c[e]
      BY <2>1, <2>3 DEF Backed, Held
    <3> QED BY <2>3, <3>1, Read16Gives
  <2>5. \A o \in Word : Put(o) \in Int /\ Put(o) % 2^W = Put(o)
    <3>1. x % ByteSize \in 0 .. ByteSize - 1
      BY HalvesTyped
    <3>2. \A o \in Word : o \div ByteSize \in 0 .. ByteSize - 1 /\ o % ByteSize \in 0 .. ByteSize - 1
      BY HalvesTyped, WordsInt
    <3> HIDE DEF e
    <3> TAKE o \in Word
    <3>3. /\ (x % ByteSize) * ByteSize + (o % ByteSize) \in Word
          /\ ((x % ByteSize) * ByteSize + (o % ByteSize)) % 2^W
                = (x % ByteSize) * ByteSize + (o % ByteSize)
      BY <3>1, <3>2, HalvesTyped
    <3>4. /\ (o \div ByteSize) * ByteSize + (x % ByteSize) \in Word
          /\ ((o \div ByteSize) * ByteSize + (x % ByteSize)) % 2^W
                = (o \div ByteSize) * ByteSize + (x % ByteSize)
      BY <3>1, <3>2, HalvesTyped
    <3> QED BY <3>3, <3>4, WordsInt
  <2>6. v.out \in Int /\ Put(v.out) \in Int
    <3>1. v.out \in Int
      BY <2>4 DEF Gives, Comes, Machines
    <3>2. /\ v.out \div ByteSize \in Int /\ v.out % ByteSize \in 0 .. ByteSize - 1
          /\ x % ByteSize \in 0 .. ByteSize - 1
      BY <3>1, HalvesTyped
    <3>3. \A y, z \in Int : y * ByteSize + z \in Int
      BY ByteSizeTyped
    <3> QED BY <3>1, <3>2, <3>3, ByteSizeTyped
  <2> HIDE DEF v, Put, w
  <2>7. Comes(Write16(v, e, Put(v.out)), r, f, [c EXCEPT ![e] = Put(v.out) % 2^W])
    BY <2>1, <2>3, <2>4, <2>6, Write16Comes DEF Gives
  <2>8. CASE Runs(v)
    <3>1. Put(v.out) % 2^W = Put(c[e])
      BY <2>3, <2>4, <2>5, <2>8 DEF Gives
    <3> QED BY <2>1, <2>2, <2>7, <3>1 DEF w
  <2>9. CASE ~Runs(v)
    <3>1. Write16(v, e, Put(v.out)) = v
      BY <2>9, LeftFacts
    <3> QED BY <2>1, <2>4, <2>9, <3>1 DEF Gives, Comes, w
  <2> QED BY <2>8, <2>9
<1> QED BY <1>2, <1>3, <1>4, <1>5

\* A word that is pushed.
LEMMA PushComes ==
    ASSUME Surroundings, NEW k, NEW r \in [0 .. 7 -> Long], NEW f, NEW c, Comes(k, r, f, c),
           NEW a \in Cells, r[SP] = a + 2, NEW x \in Int
    PROVE  Comes(Push(k, x), [r EXCEPT ![SP] = a], f, [c EXCEPT ![a] = x % 2^W])
<1> DEFINE v == Sets(k, SP, k.r[SP] - 2)
<1>1. k \in Machines /\ SP \in 0 .. 7 /\ a \in Word
  BY CellsAssumption DEF Comes, SP
<1>2. k.r[SP] \in Int /\ k.r[SP] - 2 \in Int /\ a \in Int /\ a % 2^W = a /\ a % 2^(2 * W) = a
  BY <1>1, RegisterTyped, SmallSums
<1>3. Runs(k) => k.r[SP] - 2 = a
  BY <1>2 DEF Comes
<1>4. Comes(v, [r EXCEPT ![SP] = (k.r[SP] - 2) % 2^(2 * W)], f, c) /\ v.left = k.left
  BY <1>1, <1>2, SetsComes
<1> HIDE DEF v
<1>5. Comes(v, [r EXCEPT ![SP] = a], f, c)
  BY <1>2, <1>3, <1>4 DEF Comes, Runs
<1>6. v.r[SP] \in Int
  BY <1>1, <1>4, RegisterTyped DEF Comes
<1>7. Runs(v) => v.r[SP] % 2^W = a
  BY <1>1, <1>2, <1>5 DEF Comes
<1>8. Push(k, x) = Write16(v, v.r[SP], x)
  BY DEF Push, v
<1> QED BY <1>5, <1>6, <1>7, <1>8, Write16Comes

\* A word that is popped.
LEMMA PopGives ==
    ASSUME Surroundings, NEW k, NEW r \in [0 .. 7 -> Long], NEW f, NEW c, Comes(k, r, f, c),
           r[SP] \in Cells
    PROVE  Gives(Pop(k), c[r[SP]], [r EXCEPT ![SP] = r[SP] + 2], f, c)
<1> DEFINE a == r[SP]
           v == Read16(k, k.r[SP])
           w == Sets(v, SP, k.r[SP] + 2)
<1>1. k \in Machines /\ SP \in 0 .. 7 /\ a \in Word /\ a \in Cells
  BY CellsAssumption DEF Comes, SP
<1>2. k.r[SP] \in Int /\ k.r[SP] + 2 \in Int /\ a % 2^W = a /\ (a + 2) % 2^(2 * W) = a + 2
  BY <1>1, RegisterTyped, SmallSums
<1>3. Runs(k) => k.r[SP] = a
  BY DEF Comes
<1>4. Backed(a) /\ Held(c, a) = c[a]
  BY <1>1 DEF Backed, Held
<1> HIDE DEF a
<1>5. Gives(v, Held(c, a), r, f, c)
  BY <1>2, <1>3, <1>4, Read16Gives
<1>6. v.left = "no" => Runs(k)
  BY <1>1, <1>2, Read16Facts DEF Runs
<1> HIDE DEF v
<1>7. /\ Comes(w, [r EXCEPT ![SP] = (k.r[SP] + 2) % 2^(2 * W)], f, c)
      /\ w.out = v.out /\ w.left = v.left
  BY <1>1, <1>2, <1>5, SetsComes DEF Gives
<1>8. Pop(k) = w
  BY DEF Pop, v
<1> HIDE DEF w
<1> QED BY <1>2, <1>3, <1>4, <1>5, <1>6, <1>7, <1>8 DEF Gives, Comes, Runs, a

\* Addressing modes leave registers.
LEMMA FindsTyped ==
    ASSUME NEW r \in [0 .. 7 -> Long], NEW c, NEW o \in Operands, NEW l \in {1, 2},
           NEW a, NEW s, Finds(o, l, r, c, a, s)
    PROVE  s \in [0 .. 7 -> Long]
<1>1. a \in Word /\ a \in Long /\ Stride(o, l) \in {1, 2} /\ a + Stride(o, l) \in Long
  <2>1. a \in Word /\ Stride(o, l) \in {1, 2}
    BY DEF Finds, Stride
  <2> QED BY <2>1, SmallSums
<1>2. CASE o.mode \in {0, 1}
  BY <1>2 DEF Finds
<1>3. CASE o.mode \in {2, 4}
  <2>1. s = [r EXCEPT ![o.reg] = a + Stride(o, l)] \/ s = [r EXCEPT ![o.reg] = a]
    BY <1>3 DEF Finds
  <2> QED BY <1>1, <2>1
<1>4. CASE o.mode \in {3, 6, 7}
  <2>1. PICK q : Backed(r[q]) /\ s = [r EXCEPT ![q] = r[q] + 2]
    BY <1>4 DEF Finds
  <2>2. r[q] + 2 \in Long
    BY <2>1, SmallSums DEF Backed
  <2> QED BY <2>1, <2>2
<1>5. o.mode \in {0, 1, 2, 3, 4, 6, 7}
  BY DEF Finds
<1> QED BY <1>2, <1>3, <1>4, <1>5

\* What has come of a machine that runs is typed.
LEMMA ComesTyped ==
    ASSUME NEW k, NEW r, NEW f, NEW c, Comes(k, r, f, c)
    PROVE  /\ k \in Machines /\ k.out \in Int
           /\ Runs(k) => r \in [0 .. 7 -> Long] /\ f \in Flags /\ c \in [Cells -> Word]
BY DEF Comes, Machines

\* An operand that is found and read.
LEMMA LoadsGive ==
    ASSUME Surroundings, NEW k, NEW r, NEW f, NEW c, Comes(k, r, f, c),
           NEW o, NEW l, NEW a, NEW s, NEW x, Loads(o, l, r, c, a, s, x),
           NEW w, w = Aget(k, o, l), NEW y, y = MemRead(w, w.out, l)
    PROVE  Loaded(k, w, y, a, s, x, f, c)
<1>1. /\ Finds(o, l, r, c, a, s) /\ a \in Word /\ Reads(a, l, s, c, x) /\ k \in Machines
      /\ o \in Operands /\ l \in {1, 2} /\ k.out \in Int
  BY ComesTyped DEF Loads, Finds
<1>2. CASE ~Runs(k)
  <2>1. w = k
    BY <1>1, <1>2, AgetFacts
  <2>2. y = k
    BY <1>1, <1>2, <2>1, MemReadFacts
  <2> QED BY <1>1, <1>2, <2>1, <2>2 DEF Loaded, Gives, Comes
<1>3. CASE Runs(k)
  <2>1. r \in [0 .. 7 -> Long] /\ f \in Flags /\ c \in [Cells -> Word]
    BY <1>3, ComesTyped
  <2>2. s \in [0 .. 7 -> Long]
    BY <1>1, <2>1, FindsTyped
  <2>3. Gives(w, a, s, f, c)
    BY <1>1, <2>1, AgetGives
  <2>4. Gives(y, x, s, f, c)
    BY <1>1, <2>1, <2>2, <2>3, MemReadGives
  <2>5. w \in Machines /\ w.out \in Int
    BY <2>3 DEF Gives, Comes, Machines
  <2>6. Runs(y) => Runs(w) /\ y.out \in Word
    BY <1>1, <2>5, MemReadFacts
  <2>7. Runs(y) => w.out = a
    BY <2>3, <2>6 DEF Gives
  <2> QED BY <1>1, <1>3, <2>3, <2>4, <2>6, <2>7 DEF Loaded
<1> QED BY <1>2, <1>3

-----------------------------------------------------------------------------
\* What the instructions do, in terms of their operands.
LEMMA StoredComes ==
    ASSUME Surroundings, NEW k, NEW r, NEW f, NEW c, Comes(k, r, f, c),
           NEW a \in Word, NEW b, Runs(k) => b = a, NEW l \in {1, 2},
           NEW z, NEW y, Runs(k) => y = z /\ z \in Results, NEW s, NEW d,
           Stores(a, l, z, r, c, s, d)
    PROVE  Comes(Stored(k, b, l, y), s, z.f, d)
<1>1. CASE ~Runs(k)
  <2>1. Stored(k, b, l, y) = k
    BY <1>1, StoredLeft
  <2> QED BY <1>1, <2>1 DEF Comes
<1>2. CASE Runs(k)
  <2> DEFINE w == Flagged(k, z.f)
  <2>0. r \in [0 .. 7 -> Long] /\ c \in [Cells -> Word]
    BY <1>2, ComesTyped
  <2>1. z.f \in Flags /\ z.val \in Int /\ y = z /\ z.store \in BOOLEAN
    BY <1>2 DEF Results
  <2>2. Comes(w, r, z.f, c) /\ w.left = k.left
    BY <2>1, FlaggedComes
  <2>3. Stored(k, b, l, y) = IF z.store THEN MemWrite(w, b, l, z.val) ELSE w
    BY <2>1 DEF Stored
  <2> HIDE DEF w
  <2>4. CASE z.store
    <3>1. Comes(MemWrite(w, b, l, z.val), s, z.f, d)
      BY <1>2, <2>0, <2>1, <2>2, <2>4, MemWriteComes DEF Stores
    <3> QED BY <2>3, <2>4, <3>1
  <2>5. CASE ~z.store
    BY <2>2, <2>3, <2>5 DEF Stores
  <2> QED BY <2>4, <2>5
<1> QED BY <1>1, <1>2

\* The function that executes each instruction.
LEMMA ExecutedAs ==
    ASSUME NEW k, NEW i, NEW u
    PROVE  /\ i.op = "MOV" => Executed(k, i, u) = Move(k, i)
           /\ i.op \in TwoOperands => Executed(k, i, u) = Binary(k, i)
           /\ i.op = "JSR" => Executed(k, i, u) = JSR(k, i)
           /\ i.op \in LongOps => Executed(k, i, u) = Extended2(k, i, u)
           /\ i.op = "XOR" => Executed(k, i, u) = ExclusiveOr(k, i)
           /\ i.op = "SOB" => Executed(k, i, u) = SOB(k, i)
           /\ i.op = "CLR" => Executed(k, i, u) = Clear(k, i)
           /\ i.op \in OneOperand => Executed(k, i, u) = Unary(k, i)
           /\ i.op = "SXT" => Executed(k, i, u) = SignExtend(k, i)
           /\ i.op = "JMP" => Executed(k, i, u) = JMP(k, i)
           /\ i.op = "MFPI" => Executed(k, i, u) = MFPI(k, i)
           /\ i.op = "MTPI" => Executed(k, i, u) = MTPI(k, i)
           /\ i.op = "RTS" => Executed(k, i, u) = RTS(k, i)
           /\ i.op \in Branches => Executed(k, i, u) = Branch(k, i)
           /\ i.op = "CCC" => Executed(k, i, u) = SetFlags(k, i)
<1> USE DEF TwoOperands, OneOperand, Branches, LongOps
<1>1. ASSUME i.op = "MOV" PROVE Executed(k, i, u) = Move(k, i)
  BY <1>1 DEF Executed
<1>2. ASSUME i.op \in TwoOperands PROVE Executed(k, i, u) = Binary(k, i)
  BY <1>2 DEF Executed
<1>3. ASSUME i.op = "JSR" PROVE Executed(k, i, u) = JSR(k, i)
  BY <1>3 DEF Executed
<1>4. ASSUME i.op \in LongOps PROVE Executed(k, i, u) = Extended2(k, i, u)
  BY <1>4 DEF Executed
<1>5. ASSUME i.op = "XOR" PROVE Executed(k, i, u) = ExclusiveOr(k, i)
  BY <1>5 DEF Executed
<1>6. ASSUME i.op = "SOB" PROVE Executed(k, i, u) = SOB(k, i)
  BY <1>6 DEF Executed
<1>7. ASSUME i.op = "CLR" PROVE Executed(k, i, u) = Clear(k, i)
  BY <1>7 DEF Executed
<1>8. ASSUME i.op \in OneOperand PROVE Executed(k, i, u) = Unary(k, i)
  BY <1>8 DEF Executed
<1>9. ASSUME i.op = "SXT" PROVE Executed(k, i, u) = SignExtend(k, i)
  BY <1>9 DEF Executed
<1>10. ASSUME i.op = "JMP" PROVE Executed(k, i, u) = JMP(k, i)
  BY <1>10 DEF Executed
<1>11. ASSUME i.op = "MFPI" PROVE Executed(k, i, u) = MFPI(k, i)
  BY <1>11 DEF Executed
<1>12. ASSUME i.op = "MTPI" PROVE Executed(k, i, u) = MTPI(k, i)
  BY <1>12 DEF Executed
<1>13. ASSUME i.op = "RTS" PROVE Executed(k, i, u) = RTS(k, i)
  BY <1>13 DEF Executed
<1>14. ASSUME i.op \in Branches PROVE Executed(k, i, u) = Branch(k, i)
  BY <1>14 DEF Executed
<1>15. ASSUME i.op = "CCC" PROVE Executed(k, i, u) = SetFlags(k, i)
  BY <1>15 DEF Executed
<1> HIDE DEF TwoOperands, OneOperand, Branches, LongOps
<1> QED BY <1>1, <1>2, <1>3, <1>4, <1>5, <1>6, <1>7, <1>8, <1>9, <1>10, <1>11, <1>12,
           <1>13, <1>14, <1>15

\* An instruction of two operands that runs to its end.
LEMMA BinaryComes ==
    ASSUME Surroundings, NEW k, NEW r, NEW f, NEW c, Comes(k, r, f, c),
           NEW i, i.op \in TwoOperands, NEW u,
           NEW a, NEW s, NEW x, Loads(i.s, i.l, r, c, a, s, x),
           NEW b, NEW t, NEW y, Loads(i.d, i.l, s, c, b, t, y),
           NEW z, z = Computed2(i.op, x, y, i.l, f), NEW v, NEW d,
           Stores(b, i.l, z, t, c, v, d)
    PROVE  Comes(Executed(k, i, u), v, z.f, d)
<1> DEFINE ks == Aget(k, i.s, i.l)
           kx == MemRead(ks, ks.out, i.l)
           kd == Aget(kx, i.d, i.l)
           ky == MemRead(kd, kd.out, i.l)
           zz == Computed2(i.op, kx.out, ky.out, i.l, k.f)
<1>1. Executed(k, i, u) = Stored(ky, kd.out, i.l, zz)
  BY ExecutedAs DEF Binary
<1>2. Loaded(k, ks, kx, a, s, x, f, c)
  BY LoadsGive
<1> HIDE DEF ks, kx
<1>3. Comes(kx, s, f, c) /\ (Runs(kx) => Runs(k))
  BY <1>2 DEF Loaded, Gives
<1>4. Loaded(kx, kd, ky, b, t, y, f, c)
  BY <1>3, LoadsGive
<1> HIDE DEF kd, ky
<1>5. Comes(ky, t, f, c) /\ b \in Word /\ (Runs(ky) => kd.out = b)
  BY <1>4 DEF Loaded, Gives
<1>6. Runs(ky) => zz = z /\ z \in Results
  <2>1. Runs(ky) => /\ kx.out = x /\ ky.out = y /\ k.f = f
                    /\ kx.out \in Word /\ ky.out \in Word
    BY <1>2, <1>4 DEF Loaded, Gives, Comes
  <2>2. (Runs(k) => f \in Flags) /\ i.l \in {1, 2}
    BY ComesTyped DEF Loads, Finds
  <2>3. Runs(ky) => x \in Word /\ y \in Word /\ Runs(k)
    BY <1>3, <1>4, <2>1 DEF Loaded
  <2>4. Runs(ky) => z \in Results
    BY <2>2, <2>3, Computed2Typed
  <2> QED BY <2>1, <2>4
<1> HIDE DEF zz
<1>7. i.l \in {1, 2}
  BY DEF Loads, Finds
<1> QED BY <1>1, <1>5, <1>6, <1>7, StoredComes

\* One of a single operand.
LEMMA UnaryComes ==
    ASSUME Surroundings, NEW k, NEW r, NEW f, NEW c, Comes(k, r, f, c),
           NEW i, i.op \in OneOperand, NEW u,
           NEW b, NEW t, NEW y, Loads(i.d, i.l, r, c, b, t, y),
           NEW z, z = Computed1(i.op, y, i.l, f), NEW v, NEW d,
           Stores(b, i.l, z, t, c, v, d)
    PROVE  Comes(Executed(k, i, u), v, z.f, d)
<1> DEFINE kd == Aget(k, i.d, i.l)
           ky == MemRead(kd, kd.out, i.l)
           zz == Computed1(i.op, ky.out, i.l, k.f)
<1>1. Executed(k, i, u) = Stored(ky, kd.out, i.l, zz)
  BY ExecutedAs DEF Unary
<1>2. Loaded(k, kd, ky, b, t, y, f, c)
  BY LoadsGive
<1> HIDE DEF kd, ky
<1>3. Comes(ky, t, f, c) /\ b \in Word /\ (Runs(ky) => kd.out = b)
  BY <1>2 DEF Loaded, Gives
<1>4. (Runs(k) => f \in Flags) /\ i.l \in {1, 2}
  BY ComesTyped DEF Loads, Finds
<1>5. Runs(ky) => zz = z /\ z \in Results
  <2>1. Runs(ky) => ky.out = y /\ k.f = f /\ ky.out \in Word /\ Runs(k)
    BY <1>2 DEF Loaded, Gives, Comes
  <2>2. Runs(ky) => z \in Results
    BY <1>4, <2>1, Computed1Typed
  <2> QED BY <2>1, <2>2
<1> HIDE DEF zz
<1> QED BY <1>1, <1>3, <1>4, <1>5, StoredComes

\* What MOV stores: a byte extended for a register.
MovedWord(x, l, b) ==
    IF IsReg(b) /\ l = 1 /\ Sign(x, 1) THEN x + 2^W - ByteSize ELSE x

\* MOV.
LEMMA MoveComes ==
    ASSUME Surroundings, NEW k, NEW r, NEW f, NEW c, Comes(k, r, f, c),
           NEW i, i.op = "MOV", NEW u,
           NEW a, NEW s, NEW x \in Int, Loads(i.s, i.l, r, c, a, s, x),
           NEW b, NEW t, Finds(i.d, i.l, s, c, b, t), NEW v, NEW d,
           Writes(b, IF IsReg(b) THEN 2 ELSE i.l, MovedWord(x, i.l, b), t, c, v, d)
    PROVE  Comes(Executed(k, i, u), v, Logical(x, i.l, f).f, d)
<1> DEFINE ks == Aget(k, i.s, i.l)
           kx == MemRead(ks, ks.out, i.l)
           kd == Aget(kx, i.d, i.l)
           g == Logical(x, i.l, f).f
           kf == Flagged(kd, Logical(kx.out, i.l, k.f).f)
           n == IF IsReg(b) THEN 2 ELSE i.l
           w == IF IsReg(kd.out) /\ i.l = 1
                THEN MemWrite(kf, kd.out, 2, IF Sign(kx.out, 1) THEN kx.out + 2^W - ByteSize ELSE kx.out)
                ELSE MemWrite(kf, kd.out, i.l, kx.out)
<1>1. Executed(k, i, u) = w
  BY ExecutedAs DEF Move
<1>2. Loaded(k, ks, kx, a, s, x, f, c)
  BY LoadsGive
<1> HIDE DEF ks, kx
<1>3. /\ Comes(kx, s, f, c) /\ kx \in Machines /\ (Runs(kx) => Runs(k))
      /\ i.d \in Operands /\ i.l \in {1, 2} /\ b \in Word /\ n \in {1, 2}
  BY <1>2 DEF Loaded, Gives, Comes, Finds
<1>4. (Runs(kd) => Runs(kx)) /\ (~Runs(kx) => kd = kx)
  BY <1>3, AgetFacts
<1>5. Runs(kx) => /\ Gives(kd, b, t, f, c) /\ t \in [0 .. 7 -> Long]
                  /\ c \in [Cells -> Word] /\ g \in Flags
  <2> SUFFICES ASSUME Runs(kx)
               PROVE  /\ Gives(kd, b, t, f, c) /\ t \in [0 .. 7 -> Long]
                      /\ c \in [Cells -> Word] /\ g \in Flags
    OBVIOUS
  <2>1. s \in [0 .. 7 -> Long] /\ f \in Flags /\ c \in [Cells -> Word]
    BY <1>3, ComesTyped
  <2>2. t \in [0 .. 7 -> Long]
    BY <1>3, <2>1, FindsTyped
  <2>3. Gives(kd, b, t, f, c)
    BY <1>3, <2>1, AgetGives
  <2>4. g \in Flags
    BY <2>1, LogicalTyped DEF Results
  <2> QED BY <2>1, <2>2, <2>3, <2>4
<1>6. Comes(kd, t, f, c)
  BY <1>3, <1>4, <1>5 DEF Gives, Comes
<1> HIDE DEF kd
<1> HIDE DEF n, g
<1>7. CASE Runs(kd)
  <2>1. kd.out = b /\ kx.out = x /\ k.f = f
    BY <1>2, <1>3, <1>4, <1>5, <1>7 DEF Loaded, Gives, Comes
  <2>2. kf = Flagged(kd, g)
    BY <2>1 DEF g
  <2>3. Comes(kf, t, g, c)
    BY <1>4, <1>5, <1>6, <1>7, <2>2, FlaggedComes
  <2> HIDE DEF kf
  <2>4. w = MemWrite(kf, b, n, MovedWord(x, i.l, b))
    BY <1>3, <2>1 DEF MovedWord, n
  <2>5. MovedWord(x, i.l, b) \in Int
    BY WidthTyped, ByteSizeTyped DEF MovedWord
  <2>6. Writes(b, n, MovedWord(x, i.l, b), t, c, v, d)
    BY DEF n
  <2>7. Comes(MemWrite(kf, b, n, MovedWord(x, i.l, b)), v, g, d)
    BY <1>3, <1>4, <1>5, <1>7, <2>3, <2>5, <2>6, MemWriteComes
  <2> QED BY <1>1, <2>4, <2>7 DEF g
<1>8. CASE ~Runs(kd)
  <2>1. kf = kd
    BY <1>8, LeftFacts
  <2> HIDE DEF kf
  <2>2. w = kd
    BY <1>8, <2>1, LeftFacts
  <2> HIDE DEF w
  <2> QED BY <1>1, <1>6, <1>8, <2>2 DEF Comes
<1> QED BY <1>7, <1>8

\* Accesses of a machine whether or not it still runs.
LEMMA FindGives ==
    ASSUME Surroundings, NEW k, NEW r, NEW f, NEW c, Comes(k, r, f, c),
           NEW o, NEW l, NEW a, NEW s, Finds(o, l, r, c, a, s), NEW w, w = Aget(k, o, l)
    PROVE  /\ Gives(w, a, s, f, c) /\ a \in Word
           /\ (Runs(w) => Runs(k)) /\ (~Runs(k) => w = k)
<1>1. k \in Machines /\ o \in Operands /\ l \in {1, 2} /\ a \in Word
  BY DEF Comes, Finds
<1>2. (Runs(w) => Runs(k)) /\ (~Runs(k) => w = k)
  BY <1>1, AgetFacts
<1>3. CASE Runs(k)
  <2>1. r \in [0 .. 7 -> Long] /\ c \in [Cells -> Word]
    BY <1>3, ComesTyped
  <2>2. Gives(w, a, s, f, c)
    BY <1>1, <2>1, AgetGives
  <2> QED BY <1>1, <1>2, <2>2
<1>4. CASE ~Runs(k)
  BY <1>1, <1>2, <1>4 DEF Gives, Comes
<1> QED BY <1>3, <1>4

\* An operand written at an address known while the machine runs.
LEMMA WriteComes ==
    ASSUME Surroundings, NEW k, NEW r, NEW f, NEW c, Comes(k, r, f, c), NEW a \in Word,
           NEW b, Runs(k) => b = a, NEW l \in {1, 2}, NEW x \in Int, NEW s, NEW d,
           Writes(a, l, x, r, c, s, d)
    PROVE  Comes(MemWrite(k, b, l, x), s, f, d)
<1>1. CASE Runs(k)
  <2>1. r \in [0 .. 7 -> Long] /\ c \in [Cells -> Word]
    BY <1>1, ComesTyped
  <2> QED BY <2>1, MemWriteComes
<1>2. CASE ~Runs(k)
  <2>1. MemWrite(k, b, l, x) = k
    BY <1>2, LeftFacts
  <2> QED BY <1>2, <2>1 DEF Comes
<1> QED BY <1>1, <1>2

\* A word pushed that is known while the machine runs.
LEMMA PushesComes ==
    ASSUME Surroundings, NEW k, NEW r, NEW f, NEW c, Comes(k, r, f, c), NEW a \in Cells,
           r[SP] = a + 2, NEW x, Runs(k) => x \in Int, NEW y, Runs(k) => y = x
    PROVE  /\ Comes(Push(k, y), [r EXCEPT ![SP] = a], f, [c EXCEPT ![a] = x % 2^W])
           /\ Runs(Push(k, y)) => Runs(k)
<1>1. CASE Runs(k)
  <2>1. r \in [0 .. 7 -> Long]
    BY <1>1, ComesTyped
  <2> QED BY <1>1, <2>1, PushComes
<1>2. CASE ~Runs(k)
  <2>1. Push(k, y) = k
    BY <1>2, LeftFacts DEF Push
  <2> QED BY <1>2, <2>1 DEF Comes
<1> QED BY <1>1, <1>2

\* A word popped; what runs behind it has run before it.
LEMMA PopsGives ==
    ASSUME Surroundings, NEW k, NEW r, NEW f, NEW c, Comes(k, r, f, c), r[SP] \in Cells
    PROVE  /\ Gives(Pop(k), c[r[SP]], [r EXCEPT ![SP] = r[SP] + 2], f, c)
           /\ Runs(Pop(k)) => Runs(k)
<1>0. k \in Machines
  BY DEF Comes
<1>1. CASE Runs(k)
  <2>1. r \in [0 .. 7 -> Long]
    BY <1>1, ComesTyped
  <2> QED BY <1>1, <2>1, PopGives
<1>2. CASE ~Runs(k)
  <2>1. Pop(k) = k
    BY <1>0, <1>2, PopFacts
  <2> QED BY <1>2, <2>1 DEF Gives, Comes
<1> QED BY <1>1, <1>2

\* CLR.
LEMMA ClearComes ==
    ASSUME Surroundings, NEW k, NEW r, NEW f, NEW c, Comes(k, r, f, c),
           NEW i, i.op = "CLR", NEW u, NEW b, NEW t, Finds(i.d, i.l, r, c, b, t),
           NEW v, NEW d, Writes(b, i.l, 0, t, c, v, d)
    PROVE  Comes(Executed(k, i, u), v, CLR(i.l, f).f, d)
<1> DEFINE g == CLR(i.l, k.f).f
           kf == Flagged(k, g)
           ka == Aget(kf, i.d, i.l)
<1>1. Executed(k, i, u) = MemWrite(ka, ka.out, i.l, 0)
  BY ExecutedAs DEF Clear
<1>2. g \in Flags /\ g = CLR(i.l, f).f
  BY DEF CLR, Result, Flags
<1> HIDE DEF g
<1>3. Comes(kf, r, g, c)
  BY <1>2, FlaggedComes
<1> HIDE DEF kf
<1>4. Gives(ka, b, t, g, c) /\ b \in Word
  BY <1>3, FindGives
<1> HIDE DEF ka
<1>5. Comes(ka, t, g, c) /\ (Runs(ka) => ka.out = b) /\ i.l \in {1, 2} /\ 0 \in Int
  BY <1>4 DEF Gives, Finds
<1>6. Comes(MemWrite(ka, ka.out, i.l, 0), v, g, d)
  BY <1>4, <1>5, WriteComes
<1> QED BY <1>1, <1>2, <1>6

\* SXT.
LEMMA SignExtendComes ==
    ASSUME Surroundings, NEW k, NEW r, NEW f, NEW c, Comes(k, r, f, c),
           NEW i, i.op = "SXT", NEW u, NEW b, NEW t, Finds(i.d, i.l, r, c, b, t),
           NEW v, NEW d, Writes(b, i.l, SXT(0, i.l, f).val, t, c, v, d)
    PROVE  Comes(Executed(k, i, u), v, SXT(0, i.l, f).f, d)
<1> DEFINE x == SXT(0, i.l, k.f)
           ka == Aget(k, i.d, i.l)
           g == [x.f EXCEPT !.z = x.f.z \/ k.f.z]
           kg == Flagged(ka, g)
           kw == MemWrite(kg, ka.out, i.l, x.val)
<1>1. Executed(k, i, u) = Flagged(kw, x.f)
  BY ExecutedAs DEF SignExtend
<1>2. Gives(ka, b, t, f, c) /\ b \in Word /\ (Runs(ka) => Runs(k)) /\ (~Runs(k) => ka = k)
  BY FindGives
<1>3. i.l \in {1, 2} /\ k.f \in Flags
  BY DEF Finds, Comes, Machines
<1>4. x.f \in Flags /\ x.val \in Int /\ (Runs(k) => x = SXT(0, i.l, f))
  <2>1. x.f = [n |-> k.f.n, z |-> ~k.f.n, v |-> FALSE, c |-> k.f.c] /\ x.val \in {2^W - 1, 0}
    BY DEF SXT, Result
  <2>2. x.f \in Flags
    <3> DEFINE n == k.f.n
               z == ~k.f.n
               v1 == k.f.c
    <3>1. n \in BOOLEAN /\ z \in BOOLEAN /\ v1 \in BOOLEAN
      BY <1>3 DEF Flags
    <3>2. x.f = [n |-> n, z |-> z, v |-> FALSE, c |-> v1]
      BY <2>1
    <3> HIDE DEF n, z, v1, x
    <3>3. [n |-> n, z |-> z, v |-> FALSE, c |-> v1] \in Flags
      BY <3>1 DEF Flags
    <3> QED BY <3>2, <3>3
  <2>3. x.val \in Int
    BY <2>1, WidthTyped
  <2>4. Runs(k) => x = SXT(0, i.l, f)
    BY DEF Comes
  <2> QED BY <2>2, <2>3, <2>4
<1> HIDE DEF ka, x
<1>5. CASE ~Runs(ka)
  <2>1. kg = ka
    BY <1>5, LeftFacts
  <2> HIDE DEF kg
  <2>2. kw = ka
    BY <1>5, <2>1, LeftFacts
  <2> HIDE DEF kw
  <2>3. Flagged(kw, x.f) = ka
    BY <1>5, <2>2, LeftFacts
  <2> QED BY <1>1, <1>2, <1>5, <2>3 DEF Gives, Comes
<1>6. CASE Runs(ka)
  <2>1. x = SXT(0, i.l, f)
    BY <1>2, <1>4, <1>6
  <2>2. g \in Flags
    BY <1>3, <1>4 DEF Flags
  <2> HIDE DEF g
  <2>3. Comes(kg, t, g, c)
    BY <1>2, <2>2, FlaggedComes DEF Gives
  <2> HIDE DEF kg
  <2>4. ka.out = b
    BY <1>2, <1>6 DEF Gives
  <2>5. Comes(kw, v, g, d)
    BY <1>2, <1>3, <1>4, <2>1, <2>3, <2>4, WriteComes
  <2> HIDE DEF kw
  <2>6. Comes(Flagged(kw, x.f), v, x.f, d)
    BY <1>4, <2>5, FlaggedComes
  <2> QED BY <1>1, <2>1, <2>6
<1> QED BY <1>5, <1>6

\* XOR.
LEMMA ExclusiveOrComes ==
    ASSUME Surroundings, NEW k, NEW r, NEW f, NEW c, Comes(k, r, f, c),
           NEW i, i.op = "XOR", NEW u,
           NEW b, NEW t, NEW y, Loads(i.d, 2, r, c, b, t, y),
           NEW z, z = XOR(r[i.s.reg], y, f), NEW v, NEW d, Stores(b, 2, z, t, c, v, d)
    PROVE  Comes(Executed(k, i, u), v, z.f, d)
<1> DEFINE kd == Aget(k, i.d, 2)
           ky == MemRead(kd, kd.out, 2)
           zz == XOR(k.r[i.s.reg], ky.out, k.f)
<1>1. Executed(k, i, u) = Stored(ky, kd.out, 2, zz)
  BY ExecutedAs DEF ExclusiveOr
<1>2. Loaded(k, kd, ky, b, t, y, f, c)
  BY LoadsGive
<1> HIDE DEF kd, ky
<1>3. Comes(ky, t, f, c) /\ b \in Word /\ (Runs(ky) => kd.out = b)
  BY <1>2 DEF Loaded, Gives
<1>4. Runs(ky) => zz = z /\ z \in Results
  <2>1. Runs(ky) => ky.out = y /\ k.f = f /\ k.r = r /\ Runs(k)
    BY <1>2 DEF Loaded, Gives, Comes
  <2>2. Runs(ky) => zz = z
    BY <2>1
  <2>3. k.f.c \in BOOLEAN
    BY DEF Comes, Machines, Flags
  <2>4. zz \in Results
    BY <2>3, ResultTyped, SignTyped, BitwiseTyped DEF XOR
  <2> QED BY <2>2, <2>4
<1> HIDE DEF zz
<1>5. 2 \in {1, 2}
  OBVIOUS
<1> QED BY <1>1, <1>3, <1>4, <1>5, StoredComes

\* The registers an extended instruction writes.
Extends(op, q, x, r) ==
    IF ~x.store THEN r
    ELSE IF op = "ASH" THEN [r EXCEPT ![q] = x.hi % 2^(2 * W)]
    ELSE IF op = "MUL" /\ q % 2 = 1 THEN [r EXCEPT ![q] = x.lo % 2^(2 * W)]
    ELSE [[r EXCEPT ![q] = x.hi % 2^(2 * W)] EXCEPT ![OddOf(q)] = x.lo % 2^(2 * W)]

LongOf(op, hi, lo, x, u) ==
    CASE op = "MUL" -> MUL(hi, x) [] op = "DIV" -> DIV(hi, lo, x)
      [] op = "ASH" -> ASH(hi, x, u) [] op = "ASHC" -> ASHC(hi, lo, x, u)

\* MUL, DIV, ASH and ASHC.
LEMMA ExtendedComes ==
    ASSUME Surroundings, NEW k, NEW r, NEW f, NEW c, Comes(k, r, f, c),
           NEW i, i.op \in LongOps, i.s.reg \in 0 .. 7, NEW u \in BOOLEAN,
           ~(i.op = "MUL" /\ i.s.reg = 0 /\ i.d.mode = 0),
           NEW b, NEW t, NEW y, Loads(i.d, 2, r, c, b, t, y),
           NEW z, z = LongOf(i.op, r[i.s.reg], r[OddOf(i.s.reg)], y, u)
    PROVE  Comes(Executed(k, i, u), Extends(i.op, i.s.reg, z, t), z.f, c)
<1> DEFINE q == i.s.reg
           p == OddOf(q)
           kd == Aget(k, i.d, 2)
           ky == MemRead(kd, kd.out, 2)
           zz == Long2(i.op, k, q, ky.out, u)
           kw == Flagged(ky, zz.f)
           ka == Sets(kw, q, zz.hi)
<1>1. Executed(k, i, u) =
          IF ~Runs(ky) \/ ~zz.store THEN kw
          ELSE IF i.op = "ASH" THEN ka
          ELSE IF i.op = "MUL" /\ q % 2 = 1 THEN Sets(kw, q, zz.lo)
          ELSE Sets(ka, p, zz.lo)
  <2>1. ~(i.op = "MUL" /\ q = 0 /\ i.d = [mode |-> 0, reg |-> 0])
    OBVIOUS
  <2>2. Executed(k, i, u) = Extended2(k, i, u)
    BY ExecutedAs
  <2> HIDE DEF ky, kw, zz, q, p
  <2>3. Extended2(k, i, u) =
          IF ~Runs(ky) \/ ~zz.store THEN kw
          ELSE IF i.op = "ASH" THEN Sets(kw, q, zz.hi)
          ELSE IF i.op = "MUL" /\ q % 2 = 1 THEN Sets(kw, q, zz.lo)
          ELSE Sets(Sets(kw, q, zz.hi), p, zz.lo)
    BY <2>1 DEF Extended2, ky, kw, zz, kd, q, p
  <2> QED BY <2>2, <2>3
<1>2. Loaded(k, kd, ky, b, t, y, f, c)
  BY LoadsGive
<1> HIDE DEF kd, ky
<1>3. Comes(ky, t, f, c) /\ (Runs(ky) => ky.out = y /\ k.r = r /\ y \in Word) /\ k \in Machines
  BY <1>2 DEF Loaded, Gives, Comes
<1>4. p \in 0 .. 7 /\ q \in 0 .. 7
  BY OddOfTyped
<1>5. Runs(ky) => zz = z /\ z \in LongResults
  <2>1. Runs(ky) => zz \in LongResults
    BY <1>3, <1>4, Long2Typed
  <2>2. Runs(ky) => zz = z
    BY <1>3 DEF Long2, LongOf
  <2> QED BY <2>1, <2>2
<1> HIDE DEF zz, q, p
<1>6. CASE ~Runs(ky)
  <2>1. kw = ky
    BY <1>6, LeftFacts
  <2> HIDE DEF kw
  <2> QED BY <1>1, <1>3, <1>6, <2>1 DEF Comes
<1>7. CASE Runs(ky)
  <2>1. zz = z /\ z.f \in Flags /\ z.hi \in Int /\ z.lo \in Int /\ z.store \in BOOLEAN
    BY <1>5, <1>7 DEF LongResults
  <2>2. Comes(kw, t, z.f, c)
    BY <1>3, <2>1, FlaggedComes
  <2> HIDE DEF kw
  <2>3. Comes(ka, [t EXCEPT ![q] = z.hi % 2^(2 * W)], z.f, c)
    BY <1>4, <2>1, <2>2, SetsComes
  <2>4. Comes(Sets(kw, q, z.lo), [t EXCEPT ![q] = z.lo % 2^(2 * W)], z.f, c)
    BY <1>4, <2>1, <2>2, SetsComes
  <2> HIDE DEF ka
  <2>5. Comes(Sets(ka, p, z.lo),
              [[t EXCEPT ![q] = z.hi % 2^(2 * W)] EXCEPT ![p] = z.lo % 2^(2 * W)], z.f, c)
    BY <1>4, <2>1, <2>3, SetsComes
  <2>6. CASE ~z.store
    BY <1>1, <1>7, <2>1, <2>2, <2>6 DEF Extends
  <2>7. CASE z.store /\ i.op = "ASH"
    BY <1>1, <1>7, <2>1, <2>3, <2>7 DEF Extends, q
  <2>8. CASE z.store /\ i.op = "MUL" /\ q % 2 = 1
    BY <1>1, <1>7, <2>1, <2>4, <2>8 DEF Extends, q
  <2>9. CASE z.store /\ i.op # "ASH" /\ ~(i.op = "MUL" /\ q % 2 = 1)
    BY <1>1, <1>7, <2>1, <2>5, <2>9 DEF Extends, q, p
  <2> QED BY <2>1, <2>6, <2>7, <2>8, <2>9
<1> QED BY <1>6, <1>7

\* Branches, SOB and CCC reach for nothing: they cannot fault.
LEMMA BranchComes ==
    ASSUME NEW k, NEW r, NEW f, NEW c, Comes(k, r, f, c), Runs(k),
           NEW i \in TextWords, i.op \in Branches, NEW u
    PROVE  LET w == Executed(k, i, u)
           IN /\ Comes(w, IF Taken(i.op, f) THEN [r EXCEPT ![PC] = (r[PC] + 2 * i.n) % 2^(2 * W)]
                          ELSE r, f, c)
              /\ Runs(w)
<1> DEFINE w == Executed(k, i, u)
<1>1. w = IF Taken(i.op, f) THEN Sets(k, PC, r[PC] + 2 * i.n) ELSE k
  BY ExecutedAs DEF Branch, Displaced, Comes
<1> HIDE DEF w
<1>2. r[PC] + 2 * i.n \in Int /\ PC \in 0 .. 7
  <2>1. k \in Machines /\ k.r = r /\ PC \in 0 .. 7
    BY DEF Comes, PC
  <2>2. r[PC] \in Int /\ i.n \in Int
    BY <2>1, RegisterTyped DEF TextWords
  <2> QED BY <2>1, <2>2
<1>3. /\ Comes(Sets(k, PC, r[PC] + 2 * i.n), [r EXCEPT ![PC] = (r[PC] + 2 * i.n) % 2^(2 * W)], f, c)
      /\ Sets(k, PC, r[PC] + 2 * i.n).left = k.left
  BY <1>2, SetsComes
<1> QED BY <1>1, <1>3 DEF w, Runs

\* CLC.
LEMMA SetFlagsComes ==
    ASSUME NEW k, NEW r, NEW f, NEW c, Comes(k, r, f, c), Runs(k),
           NEW i, i.op = "CCC", i.n = 1, NEW u,
           NEW g, g = [n |-> f.n, z |-> f.z, v |-> f.v, c |-> FALSE]
    PROVE  Comes(Executed(k, i, u), r, g, c) /\ Runs(Executed(k, i, u))
<1>1. f \in Flags /\ k.f = f
  BY DEF Comes, Machines
<1>2. Bit(1, 0) = TRUE /\ Bit(1, 1) = FALSE /\ Bit(1, 2) = FALSE /\ Bit(1, 3) = FALSE /\ Bit(1, 4) = FALSE
  BY DEF Bit
<1>3. Executed(k, i, u) = Flagged(k, g)
  <2> DEFINE Put(old, bit) == IF Bit(i.n, bit) THEN Bit(i.n, 4) ELSE old
  <2>1. Executed(k, i, u) = Flagged(k, [n |-> Put(f.n, 3), z |-> Put(f.z, 2),
                                        v |-> Put(f.v, 1), c |-> Put(f.c, 0)])
    BY <1>1, ExecutedAs DEF SetFlags
  <2>2. Put(f.n, 3) = f.n /\ Put(f.z, 2) = f.z /\ Put(f.v, 1) = f.v /\ Put(f.c, 0) = FALSE
    BY <1>2
  <2> HIDE DEF Put
  <2> QED BY <2>1, <2>2
<1>4. g \in Flags
  BY <1>1 DEF Flags
<1>5. Comes(Flagged(k, g), r, g, c) /\ Flagged(k, g).left = k.left
  BY <1>4, FlaggedComes
<1> QED BY <1>3, <1>5 DEF Runs

\* SOB.
LEMMA SOBComes ==
    ASSUME NEW k, NEW r, NEW f, NEW c, Comes(k, r, f, c), Runs(k),
           NEW i \in TextWords, i.op = "SOB", i.s.reg \in 0 .. SP, NEW u,
           NEW x, x = (r[i.s.reg] - 1) % 2^(2 * W), NEW s, s = [r EXCEPT ![i.s.reg] = x]
    PROVE  Comes(Executed(k, i, u),
                 IF x # 0 THEN [s EXCEPT ![PC] = (r[PC] - 2 * i.n) % 2^(2 * W)] ELSE s, f, c)
<1> DEFINE q == i.s.reg
           w == Sets(k, q, k.r[q] - 1)
           v == Sets(w, PC, w.r[PC] + 2 * (-i.n))
<1>1. Executed(k, i, u) = IF w.r[q] # 0 THEN v ELSE w
  BY ExecutedAs DEF SOB, Displaced
<1>2. q \in 0 .. 7 /\ PC \in 0 .. 7 /\ q # PC /\ k \in Machines /\ k.r = r /\ i.n \in Int
      /\ r \in [0 .. 7 -> Long]
  BY DEF SP, PC, Comes, TextWords, Machines
<1>3. k.r[q] - 1 \in Int
  BY <1>2, RegisterTyped
<1> HIDE DEF q
<1>4. Comes(w, s, f, c) /\ Runs(w)
  BY <1>2, <1>3, SetsComes, ZenonT(60) DEF Runs, q
<1> HIDE DEF w
<1>5. w.r = s /\ s[q] = x /\ s[PC] = r[PC] /\ w \in Machines
  BY <1>2, <1>4 DEF Comes, q
<1>6. w.r[PC] \in Int
  BY <1>2, <1>5, RegisterTyped
<1>7. w.r[PC] + 2 * (-i.n) \in Int /\ w.r[PC] + 2 * (-i.n) = r[PC] - 2 * i.n
  BY <1>2, <1>5, <1>6
<1>8. Comes(v, [s EXCEPT ![PC] = (r[PC] - 2 * i.n) % 2^(2 * W)], f, c)
  BY <1>2, <1>4, <1>7, SetsComes
<1> HIDE DEF v
<1> QED BY <1>1, <1>4, <1>5, <1>8

\* JMP.
LEMMA JMPComes ==
    ASSUME Surroundings, NEW k, NEW r, NEW f, NEW c, Comes(k, r, f, c),
           NEW i, i.op = "JMP", NEW u, NEW b, NEW t, Finds(i.d, 2, r, c, b, t), ~IsReg(b)
    PROVE  Comes(Executed(k, i, u), [t EXCEPT ![PC] = b], f, c)
<1> DEFINE d == Aget(k, i.d, 2)
<1>1. Executed(k, i, u) = IF Runs(d) /\ IsReg(d.out) THEN Leaves(d, "invalid") ELSE Sets(d, PC, d.out)
  BY ExecutedAs DEF JMP
<1>2. Gives(d, b, t, f, c) /\ b \in Word
  BY FindGives
<1> HIDE DEF d
<1>3. Comes(d, t, f, c) /\ (Runs(d) => d.out = b) /\ d.out \in Int /\ PC \in 0 .. 7
  BY <1>2, ComesTyped DEF Gives, PC
<1>4. Executed(k, i, u) = Sets(d, PC, d.out)
  BY <1>1, <1>3
<1>5. Comes(Sets(d, PC, d.out), [t EXCEPT ![PC] = d.out % 2^(2 * W)], f, c)
      /\ Sets(d, PC, d.out).left = d.left
  BY <1>3, SetsComes
<1>6. b % 2^(2 * W) = b
  BY <1>2, SmallSums
<1> QED BY <1>3, <1>4, <1>5, <1>6 DEF Comes, Runs

\* JSR.
LEMMA JSRComes ==
    ASSUME Surroundings, NEW k, NEW r, NEW f, NEW c, Comes(k, r, f, c),
           NEW i, i.op = "JSR", NEW u, NEW b, NEW t, Finds(i.d, 2, r, c, b, t), ~IsReg(b),
           NEW q, q = i.s.reg, q \in 0 .. 7 \ {SP}, NEW a \in Cells, t[SP] = a + 2
    PROVE  Comes(Executed(k, i, u), [[[t EXCEPT ![SP] = a] EXCEPT ![q] = t[PC]] EXCEPT ![PC] = b],
                 f, [c EXCEPT ![a] = t[q] % 2^W])
<1> DEFINE d == Aget(k, i.d, 2)
           w == Push(d, d.r[q])
           v == Sets(w, q, w.r[PC])
           x == Sets(v, PC, d.out)
           e == [c EXCEPT ![a] = t[q] % 2^W]
           s == [t EXCEPT ![SP] = a]
<1>1. Executed(k, i, u) = IF Runs(d) /\ IsReg(d.out) THEN Leaves(d, "invalid") ELSE x
  BY ExecutedAs DEF JSR
<1>2. Gives(d, b, t, f, c) /\ b \in Word
  BY FindGives
<1> HIDE DEF d
<1>3. /\ Comes(d, t, f, c) /\ (Runs(d) => d.out = b /\ d.r = t) /\ d.out \in Int
      /\ PC \in 0 .. 7 /\ SP \in 0 .. 7 /\ PC # SP /\ d \in Machines
  BY <1>2, ComesTyped DEF Gives, PC, SP, Comes
<1>4. Executed(k, i, u) = x
  BY <1>1, <1>3
<1>5. (Runs(d) => t[q] \in Int) /\ (Runs(d) => d.r[q] = t[q])
  BY <1>3, RegisterTyped
<1>6. Comes(w, s, f, e) /\ (Runs(w) => Runs(d))
  BY <1>3, <1>5, PushesComes
<1> HIDE DEF w, e
<1>7. w.r[PC] \in Long /\ w.r[PC] \in Int /\ w \in Machines
  BY <1>3, <1>6, RegisterTyped DEF Comes
<1>8. Comes(v, [s EXCEPT ![q] = w.r[PC] % 2^(2 * W)], f, e) /\ v.left = w.left
  BY <1>6, <1>7, SetsComes, ZenonT(60)
<1>9. w.r[PC] % 2^(2 * W) = w.r[PC]
  BY <1>7, LongCut
<1>10. Runs(w) => w.r[PC] = t[PC]
  <2>1. Runs(w) => w.r = s /\ t \in [0 .. 7 -> Long]
    BY <1>3, <1>6, ComesTyped DEF Comes
  <2> QED BY <1>3, <2>1
<1> HIDE DEF v, s
<1>11. Comes(v, [s EXCEPT ![q] = t[PC]], f, e)
  BY <1>8, <1>9, <1>10 DEF Comes, Runs
<1>12. Comes(x, [[s EXCEPT ![q] = t[PC]] EXCEPT ![PC] = d.out % 2^(2 * W)], f, e)
       /\ x.left = v.left
  BY <1>3, <1>11, SetsComes, ZenonT(60)
<1>13. b % 2^(2 * W) = b
  BY <1>2, SmallSums
<1>14. Runs(x) => d.out = b
  BY <1>3, <1>6, <1>8, <1>12 DEF Runs
<1> HIDE DEF x
<1> QED BY <1>4, <1>12, <1>13, <1>14 DEF Comes, s, e

\* RTS.
LEMMA RTSComes ==
    ASSUME Surroundings, NEW k, NEW r, NEW f, NEW c, Comes(k, r, f, c),
           NEW i, i.op = "RTS", NEW u, NEW q, q = i.d.reg, q \in 0 .. 7 \ {SP},
           NEW a, a = r[SP], a \in Cells
    PROVE  Comes(Executed(k, i, u), [[[r EXCEPT ![PC] = r[q]] EXCEPT ![SP] = a + 2]
                                     EXCEPT ![q] = c[a]], f, c)
<1> DEFINE v == Sets(k, PC, k.r[q])
           w == Pop(v)
           s == [r EXCEPT ![PC] = r[q]]
           p == [s EXCEPT ![SP] = a + 2]
<1>1. Executed(k, i, u) = Sets(w, q, w.out)
  BY ExecutedAs DEF RTS
<1>2. k \in Machines /\ PC \in 0 .. 7 /\ SP \in 0 .. 7 /\ PC # SP /\ (Runs(k) => k.r = r)
  BY DEF Comes, PC, SP
<1>3. k.r[q] \in Int /\ k.r[q] \in Long /\ k.r[q] % 2^(2 * W) = k.r[q]
  <2>1. k.r[q] \in Long
    BY <1>2, RegisterTyped
  <2> QED BY <2>1, LongCut, Sizes
<1>4. Comes(v, [r EXCEPT ![PC] = k.r[q] % 2^(2 * W)], f, c) /\ v.left = k.left
  BY <1>2, <1>3, SetsComes, ZenonT(60)
<1> HIDE DEF v
<1>5. Comes(v, s, f, c)
  BY <1>2, <1>3, <1>4 DEF Comes, Runs
<1>6. CASE Runs(v)
  <2>1. s \in [0 .. 7 -> Long] /\ s[SP] = a
    <3>1. Runs(k) /\ r \in [0 .. 7 -> Long] /\ v.r = s /\ v \in Machines
      BY <1>4, <1>5, <1>6, ComesTyped DEF Comes, Runs
    <3> QED BY <1>2, <3>1 DEF Machines
  <2> HIDE DEF s
  <2>2. Gives(w, c[a], p, f, c)
    BY <1>5, <2>1, PopsGives
  <2> HIDE DEF w
  <2>3. Comes(w, p, f, c) /\ (Runs(w) => w.out = c[a]) /\ w.out \in Int
    BY <2>2, ComesTyped DEF Gives
  <2> HIDE DEF p
  <2>4. Comes(Sets(w, q, w.out), [p EXCEPT ![q] = w.out % 2^(2 * W)], f, c)
        /\ Sets(w, q, w.out).left = w.left
    <3>1. q \in 0 .. 7
      OBVIOUS
    <3> QED BY <2>3, <3>1, SetsComes, ZenonT(60)
  <2>5. c[a] % 2^(2 * W) = c[a]
    <3>1. c \in [Cells -> Word]
      BY <1>5, <1>6, ComesTyped
    <3>2. c[a] \in Word
      BY <3>1
    <3> QED BY <3>2, SmallSums
  <2> DEFINE x == Sets(w, q, w.out)
  <2> HIDE DEF x
  <2>6. Runs(x) => w.out % 2^(2 * W) = c[a]
    BY <2>3, <2>4, <2>5 DEF x, Runs
  <2>7. Comes(x, [p EXCEPT ![q] = c[a]], f, c)
    BY <2>4, <2>6 DEF x, Comes
  <2> QED BY <1>1, <2>7 DEF x, p, s
<1>7. CASE ~Runs(v)
  <2>1. w = v
    BY <1>5, <1>7, PopFacts DEF Comes
  <2> HIDE DEF w
  <2>2. Sets(w, q, w.out) = v
    BY <1>7, <2>1, LeftFacts
  <2> QED BY <1>1, <1>5, <1>7, <2>2 DEF Comes
<1> QED BY <1>6, <1>7

\* MFPI pushes the stack pointer or a word of core.
LEMMA MFPIComes ==
    ASSUME Surroundings, NEW k, NEW r, NEW f, NEW c, Comes(k, r, f, c),
           NEW i, i.op = "MFPI", NEW u, NEW b, NEW t, Finds(i.d, 2, r, c, b, t), NEW x,
           \/ b = Pseudo + SP /\ x = t[SP]
           \/ ~IsReg(b) /\ Backed(b) /\ x = Held(c, b),
           NEW a \in Cells, t[SP] = a + 2
    PROVE  Comes(Executed(k, i, u), [t EXCEPT ![SP] = a], Moved(x, TRUE), [c EXCEPT ![a] = x % 2^W])
<1> DEFINE d == Aget(k, i.d, 2)
           y == IF d.out = Pseudo + SP THEN Returns(d, d.r[SP] % 2^(2 * W)) ELSE Read16(d, d.out)
           w == Push(y, y.out)
<1>1. Executed(k, i, u) = IF Runs(d) /\ IsReg(d.out) /\ d.out # Pseudo + SP THEN Leaves(d, "invalid")
                          ELSE Flagged(w, Moved(y.out, TRUE))
  BY ExecutedAs DEF MFPI
<1>2. Gives(d, b, t, f, c) /\ b \in Word
  BY FindGives
<1> HIDE DEF d
<1>3. Comes(d, t, f, c) /\ (Runs(d) => d.out = b) /\ d \in Machines /\ d.out \in Int /\ SP \in 0 .. 7
  BY <1>2, ComesTyped DEF Gives, SP
<1>4. Gives(y, x, t, f, c) /\ (Runs(y) => Runs(d))
  <2>1. CASE ~Runs(d)
    <3>1. Read16(d, d.out) = d /\ Returns(d, d.r[SP] % 2^(2 * W)) = d
      BY <1>3, <2>1, Read16Facts, LeftFacts
    <3>2. y = d
      BY <3>1
    <3> QED BY <1>3, <2>1, <3>2 DEF Gives, Comes
  <2>2. CASE Runs(d) /\ b = Pseudo + SP /\ x = t[SP]
    <3>1. d.r = t /\ t[SP] \in Long /\ t[SP] % 2^(2 * W) = t[SP] /\ t[SP] \in Int
      <4>1. d.r = t /\ t[SP] \in Long
        BY <1>3, <2>2, RegisterTyped DEF Comes
      <4> QED BY <4>1, Sizes
    <3>2. y = Returns(d, x)
      BY <1>3, <2>2, <3>1
    <3> HIDE DEF y
    <3> QED BY <1>3, <2>2, <3>1, <3>2, ReturnsGives
  <2>3. CASE Runs(d) /\ ~IsReg(b) /\ Backed(b) /\ x = Held(c, b)
    <3>1. d.out # Pseudo + SP
      BY <1>3, <2>3, ByteSizeTyped DEF IsReg, SP
    <3>2. y = Read16(d, d.out)
      BY <3>1
    <3> HIDE DEF y
    <3>3. Runs(d) => d.out % 2^W = b
      BY <1>2, <1>3, SmallSums
    <3> QED BY <1>3, <2>3, <3>2, <3>3, Read16Gives
  <2> QED BY <2>1, <2>2, <2>3
<1> HIDE DEF y
<1>5. Comes(y, t, f, c) /\ (Runs(y) => y.out = x) /\ y.out \in Int
  BY <1>4, ComesTyped DEF Gives
<1>6. Comes(w, [t EXCEPT ![SP] = a], f, [c EXCEPT ![a] = x % 2^W]) /\ (Runs(w) => Runs(y))
  BY <1>5, PushesComes
<1> HIDE DEF w
<1>7. Moved(y.out, TRUE) \in Flags
  BY MovedTyped
<1>8. Comes(Flagged(w, Moved(y.out, TRUE)), [t EXCEPT ![SP] = a], Moved(y.out, TRUE),
            [c EXCEPT ![a] = x % 2^W]) /\ Flagged(w, Moved(y.out, TRUE)).left = w.left
  BY <1>6, <1>7, FlaggedComes
<1>9. Executed(k, i, u) = Flagged(w, Moved(y.out, TRUE))
  BY <1>1, <1>3
<1> QED BY <1>5, <1>6, <1>8, <1>9 DEF Comes, Runs

\* MTPI.
LEMMA MTPIComes ==
    ASSUME Surroundings, NEW k, NEW r, NEW f, NEW c, Comes(k, r, f, c),
           NEW i, i.op = "MTPI", NEW u, NEW b, NEW t, Finds(i.d, 2, r, c, b, t),
           NEW a, a = t[SP], a \in Cells, NEW s, NEW d,
           Writes(b, 2, c[a], [t EXCEPT ![SP] = a + 2], c, s, d)
    PROVE  Comes(Executed(k, i, u), s, Moved(c[a], FALSE), d)
<1> DEFINE e == Aget(k, i.d, 2)
           y == Pop(e)
           w == IF IsReg(e.out) THEN Sets(y, e.out - Pseudo, y.out) ELSE Write16(y, e.out, y.out)
           p == [t EXCEPT ![SP] = a + 2]
<1>1. Executed(k, i, u) = Flagged(w, Moved(y.out, FALSE))
  BY ExecutedAs DEF MTPI
<1>2. w = MemWrite(y, e.out, 2, y.out)
  BY DEF MemWrite
<1>3. Gives(e, b, t, f, c) /\ b \in Word
  BY FindGives
<1> HIDE DEF e, w
<1>4. Comes(e, t, f, c) /\ (Runs(e) => e.out = b)
  BY <1>3 DEF Gives
<1>5. Gives(y, c[a], p, f, c) /\ (Runs(y) => Runs(e))
  BY <1>4, PopsGives
<1> HIDE DEF y
<1>6. Comes(y, p, f, c) /\ (Runs(y) => y.out = c[a]) /\ y.out \in Int
  BY <1>5, ComesTyped DEF Gives
<1>7. CASE ~Runs(y)
  <2>1. w = y
    BY <1>2, <1>7, LeftFacts
  <2>2. Flagged(w, Moved(y.out, FALSE)) = y
    BY <1>7, <2>1, LeftFacts
  <2> QED BY <1>1, <1>6, <1>7, <2>2 DEF Comes
<1>8. CASE Runs(y)
  <2>1. e.out = b /\ y.out = c[a] /\ 2 \in {1, 2}
    BY <1>4, <1>5, <1>6, <1>8
  <2>2. Comes(w, s, f, d)
    BY <1>2, <1>3, <1>6, <2>1, WriteComes
  <2>3. Moved(c[a], FALSE) \in Flags
    BY MovedTyped
  <2> QED BY <1>1, <2>1, <2>2, <2>3, FlaggedComes
<1> QED BY <1>7, <1>8

-----------------------------------------------------------------------------
\* Whatever an instruction does, it leaves the machine's PC where the
\* instruction is.
Stays(k, p) == "pc" \in DOMAIN k /\ k.pc = p

\* Registers, flags and values set leave the machine's PC alone.
LEMMA SettingsStay ==
    ASSUME NEW p
    PROVE  \A k, x, y : Stays(k, p) => /\ Stays(Returns(k, x), p) /\ Stays(Leaves(k, x), p)
                                     /\ Stays(Flagged(k, x), p) /\ Stays(Sets(k, x, y), p)
                                     /\ Stays(Aborts(k, x, y), p)
<1>1. \A k, x, y : Stays(k, p) => /\ Stays(Returns(k, x), p) /\ Stays(Leaves(k, x), p)
                                /\ Stays(Flagged(k, x), p) /\ Stays(Sets(k, x, y), p)
  BY DEF Stays, Returns, Leaves, Flagged, Sets
<1> QED BY <1>1 DEF Aborts

\* So does each access.
LEMMA AccessesStay ==
    ASSUME NEW p
    PROVE  \A k, a, x, l : Stays(k, p) =>
               /\ Stays(Read16(k, a), p) /\ Stays(Write16(k, a, x), p)
               /\ Stays(MemRead(k, a, l), p) /\ Stays(MemWrite(k, a, l, x), p)
               /\ Stays(Fetch16(k), p) /\ Stays(Push(k, x), p) /\ Stays(Pop(k), p)
               /\ (a \in Operands => Stays(Aget(k, a, l), p)) /\ Stays(Stored(k, a, l, x), p)
<1>1. \A k, a : Stays(k, p) => Stays(Read16(k, a), p)
  BY SettingsStay DEF Read16
<1>2. \A k, a, x : Stays(k, p) => Stays(Write16(k, a, x), p)
  <2>1. \A k, a, x : Stays(k, p) => Stays([k EXCEPT !.core[a] = x], p)
    BY DEF Stays
  <2> QED BY <2>1, SettingsStay DEF Write16
<1>3. \A k, a : Stays(k, p) => Stays(Read8(k, a), p)
  BY <1>1, SettingsStay DEF Read8
<1>4. \A k, a, x : Stays(k, p) => Stays(Write8(k, a, x), p)
  BY <1>1, <1>2 DEF Write8
<1>5. \A k, a, l : Stays(k, p) => Stays(MemRead(k, a, l), p)
  BY <1>1, <1>3, SettingsStay DEF MemRead
<1>6. \A k, a, x, l : Stays(k, p) => Stays(MemWrite(k, a, l, x), p)
  BY <1>2, <1>4, SettingsStay DEF MemWrite
<1>7. \A k : Stays(k, p) => Stays(Fetch16(k), p)
  BY <1>1, SettingsStay DEF Fetch16
<1>8. \A k, x : Stays(k, p) => Stays(Push(k, x), p)
  BY <1>2, SettingsStay DEF Push
<1>9. \A k : Stays(k, p) => Stays(Pop(k), p)
  BY <1>1, SettingsStay DEF Pop
<1>10. \A k, o : Stays(k, p) => Stays(Deferred(k, o), p)
  BY <1>1, SettingsStay DEF Deferred
<1>11. \A k, l : \A o \in Operands : Stays(k, p) => Stays(Aget(k, o, l), p)
  <2> SUFFICES ASSUME NEW k, NEW l, NEW o \in Operands, Stays(k, p) PROVE Stays(Aget(k, o, l), p)
    OBVIOUS
  <2>1. CASE o.mode \in {0, 1}
    BY <2>1, SettingsStay DEF Aget
  <2>2. CASE o.mode \in {2, 3}
    <3> DEFINE w == Sets(Returns(k, k.r[o.reg]), o.reg, k.r[o.reg] + Stride(o, l))
    <3>1. Stays(w, p) /\ Aget(k, o, l) = Deferred(w, o)
      BY <2>2, SettingsStay DEF Aget
    <3> HIDE DEF w
    <3> QED BY <1>10, <3>1
  <2>3. CASE o.mode \in {4, 5}
    <3> DEFINE v == Sets(k, o.reg, k.r[o.reg] - Stride(o, l))
               w == Returns(v, v.r[o.reg])
    <3>1. Aget(k, o, l) = Deferred(w, o)
      BY <2>3 DEF Aget
    <3>2. Stays(v, p)
      BY SettingsStay
    <3> HIDE DEF v
    <3>3. Stays(w, p)
      BY <3>2, SettingsStay
    <3> HIDE DEF w
    <3> QED BY <1>10, <3>1, <3>3
  <2>4. CASE o.mode \in {6, 7}
    BY <1>7, <1>10, <2>4, SettingsStay DEF Aget
  <2> QED BY <2>1, <2>2, <2>3, <2>4 DEF Operands
<1>12. \A k, a, l, x : Stays(k, p) => Stays(Stored(k, a, l, x), p)
  BY <1>6, SettingsStay DEF Stored
<1> QED BY <1>1, <1>2, <1>5, <1>6, <1>7, <1>8, <1>9, <1>11, <1>12

\* So does each instruction.
LEMMA ExecutedStays ==
    ASSUME NEW p, NEW k, Stays(k, p), NEW i \in TextWords, i.op # "MARK", NEW u
    PROVE  Stays(Executed(k, i, u), p)
<1> USE SettingsStay, AccessesStay
<1>0. i.s \in Operands /\ i.d \in Operands
  BY DEF TextWords
<1> USE <1>0
<1>1. Stays(Move(k, i), p)
  <2> DEFINE s == Aget(k, i.s, i.l)
             x == MemRead(s, s.out, i.l)
             d == Aget(x, i.d, i.l)
             f == Flagged(d, Logical(x.out, i.l, k.f).f)
  <2>1. Stays(d, p)
    OBVIOUS
  <2> HIDE DEF d
  <2>2. Stays(f, p)
    BY <2>1
  <2> HIDE DEF f, x
  <2>3. \A l, y : Stays(MemWrite(f, d.out, l, y), p)
    BY <2>2
  <2> QED BY <2>3 DEF Move, f, x, d
<1>2. Stays(Binary(k, i), p)
  BY DEF Binary
<1>3. Stays(Unary(k, i), p)
  BY DEF Unary
<1>4. Stays(Clear(k, i), p)
  BY DEF Clear
<1>5. Stays(SignExtend(k, i), p)
  BY DEF SignExtend
<1>6. Stays(ExclusiveOr(k, i), p)
  BY DEF ExclusiveOr
<1>7. Stays(Extended2(k, i, u), p)
  BY DEF Extended2
<1>8. Stays(SOB(k, i), p) /\ Stays(Branch(k, i), p)
  BY DEF SOB, Branch, Displaced
<1>9. Stays(JMP(k, i), p)
  BY DEF JMP
<1>10. Stays(JSR(k, i), p)
  BY DEF JSR
<1>11. Stays(RTS(k, i), p)
  BY DEF RTS
<1>12. Stays(MFPI(k, i), p)
  <2> DEFINE d == Aget(k, i.d, 2)
             y == IF d.out = Pseudo + SP THEN Returns(d, d.r[SP] % 2^(2 * W)) ELSE Read16(d, d.out)
             w == Push(y, y.out)
  <2>1. Stays(d, p)
    OBVIOUS
  <2> HIDE DEF d
  <2>2. Stays(y, p)
    BY <2>1
  <2> HIDE DEF y
  <2>3. Stays(w, p)
    BY <2>2
  <2> QED BY <2>1, <2>3 DEF MFPI, d, y
<1>13. Stays(MTPI(k, i), p)
  BY DEF MTPI
<1>14. Stays(SetFlags(k, i), p)
  BY DEF SetFlags
<1>15. Stays(Leaves(k, "invalid"), p)
  OBVIOUS
<1> QED BY <1>1, <1>2, <1>3, <1>4, <1>5, <1>6, <1>7, <1>8, <1>9, <1>10, <1>11, <1>12,
           <1>13, <1>14, <1>15 DEF Executed
=============================================================================
