---------------------------- MODULE GuestProofs ----------------------------
(***************************************************************************)
(* Proofs about GuestRoutines: what each routine has computed when it has  *)
(* come to its end, for words of 8 and of 16 bits, every contents of core, *)
(* every flag left by what ran before and however often its pages are      *)
(* taken away, so that instructions abort and are executed again.          *)
(*                                                                         *)
(* Hosted says which routines these are and where their data lies.  Each   *)
(* has an assertion in front of each of its instructions, XAt; the         *)
(* inductive invariant is that the one at the PC holds, and that an        *)
(* aborted instruction has left enough for the kernel to go back to it.    *)
(***************************************************************************)
EXTENDS GuestRoutines, InstructionProofs

-----------------------------------------------------------------------------
(***************************************************************************)
(* Steps of a routine that the guest kernel resumes.                       *)
(***************************************************************************)

\* The three pages that are not the text's, and what lies in them.
LEMMA Places ==
    /\ A \in Int /\ 32 <= A /\ A % 2 = 0 /\ B = 2 * A /\ Top = 4 * A /\ Top < Pseudo
    /\ Pseudo \in Int /\ Pseudo + 7 < 2^W /\ 2^W \in Int /\ A = 2^(W - 3)
BY Powers DEF A, B, Top

\* Core that is no register: two bytes.
Plain(a) == a \in Cells /\ a \in Int /\ 32 <= a /\ a < Pseudo /\ a % 2 = 0

\* The cells the routines work in are core like any other.
LEMMA PlainCells ==
    ASSUME Hosted
    PROVE  /\ Plain(A) /\ Plain(A + 2) /\ Plain(A + 4) /\ Plain(B) /\ Plain(B + 2) /\ Plain(B + 4)
           /\ Plain(Top - 2) /\ Plain(Top - 4) /\ Plain(Top - 6)
BY Places DEF Hosted, Plain

\* A plain cell answers, with what it holds.
LEMMA PlainFacts ==
    ASSUME NEW a, Plain(a)
    PROVE  /\ a \in Word /\ a \in Cells /\ ~IsReg(a) /\ a \in Int /\ Backed(a)
           /\ \A c : Held(c, a) = c[a]
<1>1. a \in Word /\ ~IsReg(a)
  BY Places DEF Plain, Word, IsReg
<1> QED BY <1>1 DEF Plain, Backed, Held

\* The text: instruction i, or a word that reads n, lies at p.
Lies(p, i) == /\ p \in Int /\ 0 <= p /\ p < 32 /\ p % 2 = 0
              /\ InText(p) /\ routine.text[Text(p)] = i

\* So does a word of the text, which nothing can be stored to.
LEMMA LiesFacts ==
    ASSUME Hosted, NEW p, NEW i, Lies(p, i)
    PROVE  /\ p \in Word /\ p \notin Cells /\ ~IsReg(p) /\ Backed(p) /\ p < A /\ p \in Int
           /\ \A c : Held(c, p) = i.n % 2^W
<1>1. p \in Int /\ p < A /\ p < Pseudo /\ p < 2^W /\ 0 <= p
  BY Places DEF Lies
<1>2. p \in Word /\ ~IsReg(p) /\ p \notin Cells
  BY <1>1, Places DEF Word, IsReg, Hosted
<1> QED BY <1>1, <1>2 DEF Lies, Backed, Held

\* The page of the text is never taken away.
LEMMA TextStays ==
    ASSUME TypeOK, Hosted, NEW p, NEW i, Lies(p, i)
    PROVE  Page(p) \notin absent
<1>1. p \in Int /\ 0 <= p /\ p < A /\ A = 2^(W - 3)
  BY Places, LiesFacts DEF Lies
<1>2. \A a \in Cells : a \in Int /\ a >= A
  BY CellsAssumption, WordsInt DEF Hosted
<1>3. A = 32 \/ A = 8192
  BY Powers DEF A
<1>4. p \div A = 0 /\ \A a \in Cells : a \div A # 0
  <2>1. CASE A = 32
    BY <1>1, <1>2, <2>1
  <2>2. CASE A = 8192
    BY <1>1, <1>2, <2>2
  <2> QED BY <1>3, <2>1, <2>2
<1> QED BY <1>1, <1>4 DEF TypeOK, Pages, Page

\* A step executes instruction i, at p, on registers r.
Executes(p, i, r) ==
    /\ TypeOK /\ Hosted /\ Step /\ Lies(p, i)
    /\ m.r[PC] = p /\ r = [m.r EXCEPT ![PC] = p + 2]

\* The machine it leaves, if it has not been aborted.
Becomes(r, f, c) ==
    m'.left \in {"no", "fault"} /\ (Runs(m') => m'.r = r /\ m'.f = f /\ m'.core = c)

\* The end of an instruction is that of the step that executes it.
LEMMA SettledBecomes ==
    ASSUME NEW w, NEW r, NEW f, NEW c, Comes(w, r, f, c), m' = Settled(w)
    PROVE  Becomes(r, f, c)
BY DEF Comes, Machines, Settled, Becomes, Runs

\* What is known of the machine that executes instruction i at p.
LEMMA ExecutesTyped ==
    ASSUME NEW p, NEW i, NEW r, Executes(p, i, r)
    PROVE  /\ Surroundings /\ i \in TextWords /\ r \in [0 .. 7 -> Long] /\ r[PC] = p + 2
           /\ \A q \in 0 .. SP : r[q] = m.r[q]
           /\ m.core \in [Cells -> Word] /\ m.f \in Flags /\ p \in Int /\ p \in Word
<1>1. p \in Int /\ p \in Word /\ m \in Machine /\ Surroundings /\ InText(p) /\ routine.text[Text(p)] = i
  BY LiesFacts DEF Executes, Lies, TypeOK, Surroundings
<1>2. i \in TextWords
  BY <1>1, TextTyped
<1>3. p + 2 \in Long
  BY <1>1, SmallSums
<1> QED BY <1>1, <1>2, <1>3 DEF Executes, Machine, PC, SP

\* The step executes i, fetched and with the PC behind it.
LEMMA StepExecutes ==
    ASSUME NEW p, NEW i, NEW r, Executes(p, i, r)
    PROVE  \E k, u : /\ u \in BOOLEAN /\ Comes(k, r, m.f, m.core) /\ Runs(k)
                     /\ m' = Settled(Executed(k, i, u)) /\ Stays(k, m.r[PC])
<1> DEFINE j == [m EXCEPT !.pc = m.r[PC]]
           k == Fetch16(j)
<1>1. /\ p \in Int /\ p \in Word /\ p % 2^W = p /\ Backed(p) /\ p \notin Cells /\ InText(p)
      /\ Page(p) \notin absent /\ p % 2 = 0
  <2>1. TypeOK /\ Hosted /\ Lies(p, i)
    BY DEF Executes
  <2>2. p \in Word /\ p \in Int /\ Backed(p) /\ p \notin Cells
    BY <2>1, LiesFacts
  <2>3. p % 2^W = p
    BY <2>2, SmallSums
  <2> QED BY <2>1, <2>2, <2>3, TextStays DEF Lies
<1>2. Surroundings /\ m \in Machine /\ Runs(m) /\ PC \in 0 .. 7 /\ m.r[PC] = p
  BY DEF Executes, TypeOK, Surroundings, Step, PC
<1>3. j \in Machines /\ j.r = m.r /\ j.f = m.f /\ j.core = m.core /\ Runs(j) /\ Stays(j, m.r[PC])
  BY <1>2, WordFacts DEF Machine, Machines, Runs, Reasons, Stays
<1>4. PICK u \in BOOLEAN : m' = Settled(IF Runs(k) THEN Executed(k, i, u) ELSE k)
  <2>1. i = routine.text[Text(m.r[PC] % 2^W)]
    BY <1>1, <1>2 DEF Executes, Lies
  <2>2. Step
    BY DEF Executes
  <2> QED BY <2>1, <2>2 DEF Step
<1> HIDE DEF j
<1>5. Comes(j, m.r, m.f, m.core)
  BY <1>3 DEF Comes, Runs
<1>6. Gives(k, Held(m.core, p), [m.r EXCEPT ![PC] = p + 2], m.f, m.core)
  BY <1>1, <1>2, <1>5, Fetch16Comes
<1>7. Runs(k)
  <2>1. Read16(j, j.r[PC]) = Returns(j, routine.text[Text(p)].n % 2^W)
    BY <1>1, <1>2, <1>3 DEF Read16
  <2> DEFINE v == Read16(j, j.r[PC])
  <2>2. Runs(v)
    BY <1>3, <2>1 DEF Returns, Runs, Machines
  <2>3. v \in Machines
    BY <1>3, <1>2, Read16Facts, RegisterTyped, WordsInt
  <2>4. Fetch16(j) = Sets(v, PC, j.r[PC] + 2)
    BY DEF Fetch16
  <2> HIDE DEF v
  <2> QED BY <2>2, <2>3, <2>4 DEF Sets, Runs, Machines
<1>8. Stays(k, m.r[PC])
  BY <1>3, AccessesStay
<1> HIDE DEF k
<1> QED BY <1>4, <1>6, <1>7, <1>8 DEF Gives, Executes

\* An abort leaves core and the flags the instruction reads as they were, and
\* names the instruction.
LEMMA AbortLeaves ==
    ASSUME NEW p, NEW i, NEW r, Executes(p, i, r), i.op # "MARK", m'.left = "fault"
    PROVE  /\ m'.core = m.core /\ backup' = m.r /\ m'.pc = m.r[PC] /\ m'.f \in Flags
           /\ i.op \in {"ADC", "SBC", "ROR", "ROL"} => m'.f.c = m.f.c
           /\ i.op = "SXT" => m'.f.n = m.f.n
<1>1. TypeOK /\ Step /\ i \in TextWords
  BY ExecutesTyped DEF Executes
<1>2. i = routine.text[Text(m.r[PC] % 2^W)]
  <2>1. p % 2^W = p
    BY ExecutesTyped, SmallSums
  <2> QED BY <2>1 DEF Executes, Lies
<1>3. Undoable(m, m', i) /\ m' \in Machine
  BY <1>1, <1>2, StepFacts
<1>4. PICK k, u : m' = Settled(Executed(k, i, u)) /\ Stays(k, m.r[PC])
  BY StepExecutes
<1>5. Stays(Executed(k, i, u), m.r[PC])
  BY <1>1, <1>4, ExecutedStays
<1>6. m'.pc = m.r[PC]
  <2> DEFINE w == Executed(k, i, u)
  <2> HIDE DEF w
  <2>1. CASE Runs(w)
    <3>1. m' = [w EXCEPT !.out = 0, !.pc = 0]
      BY <1>4, <2>1 DEF Settled, w
    <3>2. m'.left = w.left \/ "left" \notin DOMAIN w
      BY <3>1
    <3>3. m'.left = "fault" /\ m' \in Machine
      BY <1>3
    <3>4. DOMAIN m' = DOMAIN w /\ "left" \in DOMAIN m'
      BY <3>1, <3>3 DEF Machine
    <3> QED BY <2>1, <3>2, <3>3, <3>4 DEF Runs
  <2>2. CASE ~Runs(w)
    BY <1>4, <1>5, <2>2 DEF Settled, Stays, w
  <2> QED BY <2>1, <2>2
<1>7. backup' = m.r
  BY <1>1 DEF Step
<1> QED BY <1>3, <1>6, <1>7 DEF Undoable, Machine

\* What a step makes of registers, flags and core, instruction by instruction.
LEMMA BinaryStep ==
    ASSUME NEW p, NEW i, NEW r, Executes(p, i, r), i.op \in TwoOperands,
           NEW a, NEW s, NEW x, Loads(i.s, i.l, r, m.core, a, s, x),
           NEW b, NEW t, NEW y, Loads(i.d, i.l, s, m.core, b, t, y),
           NEW z, z = Computed2(i.op, x, y, i.l, m.f), NEW v, NEW d,
           Stores(b, i.l, z, t, m.core, v, d)
    PROVE  Becomes(v, z.f, d)
<1>1. PICK k, u : Comes(k, r, m.f, m.core) /\ Runs(k) /\ m' = Settled(Executed(k, i, u))
  BY StepExecutes
<1>2. Surroundings /\ i \in TextWords
  BY ExecutesTyped
<1>3. Comes(Executed(k, i, u), v, z.f, d)
  BY <1>1, <1>2, BinaryComes
<1> QED BY <1>1, <1>3, SettledBecomes

\* An instruction of one operand.
LEMMA UnaryStep ==
    ASSUME NEW p, NEW i, NEW r, Executes(p, i, r), i.op \in OneOperand,
           NEW b, NEW t, NEW y, Loads(i.d, i.l, r, m.core, b, t, y),
           NEW z, z = Computed1(i.op, y, i.l, m.f), NEW v, NEW d,
           Stores(b, i.l, z, t, m.core, v, d)
    PROVE  Becomes(v, z.f, d)
<1>1. PICK k, u : Comes(k, r, m.f, m.core) /\ Runs(k) /\ m' = Settled(Executed(k, i, u))
  BY StepExecutes
<1>2. Surroundings /\ i \in TextWords
  BY ExecutesTyped
<1>3. Comes(Executed(k, i, u), v, z.f, d)
  BY <1>1, <1>2, UnaryComes
<1> QED BY <1>1, <1>3, SettledBecomes

\* MOV.
LEMMA MoveStep ==
    ASSUME NEW p, NEW i, NEW r, Executes(p, i, r), i.op = "MOV",
           NEW a, NEW s, NEW x \in Int, Loads(i.s, i.l, r, m.core, a, s, x),
           NEW b, NEW t, Finds(i.d, i.l, s, m.core, b, t), NEW v, NEW d,
           Writes(b, IF IsReg(b) THEN 2 ELSE i.l, MovedWord(x, i.l, b), t, m.core, v, d)
    PROVE  Becomes(v, Logical(x, i.l, m.f).f, d)
<1>1. PICK k, u : Comes(k, r, m.f, m.core) /\ Runs(k) /\ m' = Settled(Executed(k, i, u))
  BY StepExecutes
<1>2. Surroundings /\ i \in TextWords
  BY ExecutesTyped
<1>3. Comes(Executed(k, i, u), v, Logical(x, i.l, m.f).f, d)
  BY <1>1, <1>2, MoveComes
<1> QED BY <1>1, <1>3, SettledBecomes

\* CLR.
LEMMA ClearStep ==
    ASSUME NEW p, NEW i, NEW r, Executes(p, i, r), i.op = "CLR",
           NEW b, NEW t, Finds(i.d, i.l, r, m.core, b, t), NEW v, NEW d,
           Writes(b, i.l, 0, t, m.core, v, d)
    PROVE  Becomes(v, CLR(i.l, m.f).f, d)
<1>1. PICK k, u : Comes(k, r, m.f, m.core) /\ Runs(k) /\ m' = Settled(Executed(k, i, u))
  BY StepExecutes
<1>2. Surroundings /\ i \in TextWords
  BY ExecutesTyped
<1>3. Comes(Executed(k, i, u), v, CLR(i.l, m.f).f, d)
  BY <1>1, <1>2, ClearComes
<1> QED BY <1>1, <1>3, SettledBecomes

\* SXT.
LEMMA SignExtendStep ==
    ASSUME NEW p, NEW i, NEW r, Executes(p, i, r), i.op = "SXT",
           NEW b, NEW t, Finds(i.d, i.l, r, m.core, b, t), NEW v, NEW d,
           Writes(b, i.l, SXT(0, i.l, m.f).val, t, m.core, v, d)
    PROVE  Becomes(v, SXT(0, i.l, m.f).f, d)
<1>1. PICK k, u : Comes(k, r, m.f, m.core) /\ Runs(k) /\ m' = Settled(Executed(k, i, u))
  BY StepExecutes
<1>2. Surroundings /\ i \in TextWords
  BY ExecutesTyped
<1>3. Comes(Executed(k, i, u), v, SXT(0, i.l, m.f).f, d)
  BY <1>1, <1>2, SignExtendComes
<1> QED BY <1>1, <1>3, SettledBecomes

\* XOR.
LEMMA ExclusiveOrStep ==
    ASSUME NEW p, NEW i, NEW r, Executes(p, i, r), i.op = "XOR",
           NEW b, NEW t, NEW y, Loads(i.d, 2, r, m.core, b, t, y),
           NEW z, z = XOR(r[i.s.reg], y, m.f), NEW v, NEW d, Stores(b, 2, z, t, m.core, v, d)
    PROVE  Becomes(v, z.f, d)
<1>1. PICK k, u : Comes(k, r, m.f, m.core) /\ Runs(k) /\ m' = Settled(Executed(k, i, u))
  BY StepExecutes
<1>2. Surroundings /\ i \in TextWords
  BY ExecutesTyped
<1>3. Comes(Executed(k, i, u), v, z.f, d)
  BY <1>1, <1>2, ExclusiveOrComes
<1> QED BY <1>1, <1>3, SettledBecomes

\* u is what the build makes of a shift that C++ leaves undefined.
LEMMA ExtendedStep ==
    ASSUME NEW p, NEW i, NEW r, Executes(p, i, r), i.op \in LongOps, i.s.reg \in 0 .. 7,
           ~(i.op = "MUL" /\ i.s.reg = 0 /\ i.d.mode = 0),
           NEW b, NEW t, NEW y, Loads(i.d, 2, r, m.core, b, t, y)
    PROVE  \E u \in BOOLEAN :
               LET z == LongOf(i.op, r[i.s.reg], r[OddOf(i.s.reg)], y, u)
               IN Becomes(Extends(i.op, i.s.reg, z, t), z.f, m.core)
<1>1. PICK k, u : /\ u \in BOOLEAN /\ Comes(k, r, m.f, m.core)
                  /\ m' = Settled(Executed(k, i, u))
  BY StepExecutes
<1> DEFINE z == LongOf(i.op, r[i.s.reg], r[OddOf(i.s.reg)], y, u)
<1> HIDE DEF z
<1>2. Comes(Executed(k, i, u), Extends(i.op, i.s.reg, z, t), z.f, m.core)
  BY <1>1, ExecutesTyped, ExtendedComes DEF z
<1>3. Becomes(Extends(i.op, i.s.reg, z, t), z.f, m.core)
  BY <1>1, <1>2, SettledBecomes
<1> QED BY <1>1, <1>3 DEF z

\* The instructions that cannot be aborted.
LEMMA BranchStep ==
    ASSUME NEW p, NEW i, NEW r, Executes(p, i, r), i.op \in Branches
    PROVE  /\ Becomes(IF Taken(i.op, m.f)
                      THEN [r EXCEPT ![PC] = (r[PC] + 2 * i.n) % 2^(2 * W)] ELSE r, m.f, m.core)
           /\ Runs(m')
<1>1. PICK k, u : Comes(k, r, m.f, m.core) /\ Runs(k) /\ m' = Settled(Executed(k, i, u))
  BY StepExecutes
<1> DEFINE w == Executed(k, i, u)
           s == IF Taken(i.op, m.f) THEN [r EXCEPT ![PC] = (r[PC] + 2 * i.n) % 2^(2 * W)] ELSE r
<1>2. Comes(w, s, m.f, m.core) /\ Runs(w)
  BY <1>1, ExecutesTyped, BranchComes
<1> HIDE DEF w, s
<1>3. Becomes(s, m.f, m.core)
  BY <1>1, <1>2, SettledBecomes DEF w
<1>4. Runs(m')
  BY <1>1, <1>2 DEF Settled, Runs, w, Comes, Machines
<1> QED BY <1>3, <1>4 DEF s

\* CLC.
LEMMA SetFlagsStep ==
    ASSUME NEW p, NEW i, NEW r, Executes(p, i, r), i.op = "CCC", i.n = 1
    PROVE  Becomes(r, [n |-> m.f.n, z |-> m.f.z, v |-> m.f.v, c |-> FALSE], m.core)
<1>1. PICK k, u : Comes(k, r, m.f, m.core) /\ Runs(k) /\ m' = Settled(Executed(k, i, u))
  BY StepExecutes
<1>2. Surroundings /\ i \in TextWords
  BY ExecutesTyped
<1>3. Comes(Executed(k, i, u), r, [n |-> m.f.n, z |-> m.f.z, v |-> m.f.v, c |-> FALSE], m.core)
  BY <1>1, <1>2, SetFlagsComes
<1> QED BY <1>1, <1>3, SettledBecomes

\* SOB.
LEMMA SOBStep ==
    ASSUME NEW p, NEW i, NEW r, Executes(p, i, r), i.op = "SOB", i.s.reg \in 0 .. SP,
           NEW x, x = (r[i.s.reg] - 1) % 2^(2 * W), NEW s, s = [r EXCEPT ![i.s.reg] = x]
    PROVE  Becomes(IF x # 0 THEN [s EXCEPT ![PC] = (r[PC] - 2 * i.n) % 2^(2 * W)] ELSE s,
                   m.f, m.core)
<1>1. PICK k, u : Comes(k, r, m.f, m.core) /\ Runs(k) /\ m' = Settled(Executed(k, i, u))
  BY StepExecutes
<1>2. Surroundings /\ i \in TextWords
  BY ExecutesTyped
<1> DEFINE v == IF x # 0 THEN [s EXCEPT ![PC] = (r[PC] - 2 * i.n) % 2^(2 * W)] ELSE s
<1>3. Comes(Executed(k, i, u), v, m.f, m.core)
  <2> DEFINE w == Executed(k, i, u)
  <2> HIDE DEF w
  <2>1. Comes(w, IF x # 0 THEN [s EXCEPT ![PC] = (r[PC] - 2 * i.n) % 2^(2 * W)] ELSE s, m.f, m.core)
    BY <1>1, <1>2, SOBComes, ZenonT(60) DEF w
  <2> QED BY <2>1 DEF w
<1> HIDE DEF v
<1>4. Becomes(v, m.f, m.core)
  BY <1>1, <1>3, SettledBecomes
<1> QED BY <1>4 DEF v

\* JMP.
LEMMA JMPStep ==
    ASSUME NEW p, NEW i, NEW r, Executes(p, i, r), i.op = "JMP",
           NEW b, NEW t, Finds(i.d, 2, r, m.core, b, t), ~IsReg(b)
    PROVE  Becomes([t EXCEPT ![PC] = b], m.f, m.core)
<1>1. PICK k, u : Comes(k, r, m.f, m.core) /\ Runs(k) /\ m' = Settled(Executed(k, i, u))
  BY StepExecutes
<1>2. Surroundings /\ i \in TextWords
  BY ExecutesTyped
<1>3. Comes(Executed(k, i, u), [t EXCEPT ![PC] = b], m.f, m.core)
  BY <1>1, <1>2, JMPComes
<1> QED BY <1>1, <1>3, SettledBecomes

\* JSR: the linkage goes to the stack, the return address to the linkage.
LEMMA JSRStep ==
    ASSUME NEW p, NEW i, NEW r, Executes(p, i, r), i.op = "JSR",
           NEW b, NEW t, Finds(i.d, 2, r, m.core, b, t), ~IsReg(b),
           NEW q, q = i.s.reg, q \in 0 .. 7 \ {SP}, NEW a \in Cells, t[SP] = a + 2
    PROVE  Becomes([[[t EXCEPT ![SP] = a] EXCEPT ![q] = t[PC]] EXCEPT ![PC] = b],
                   m.f, [m.core EXCEPT ![a] = t[q] % 2^W])
<1>1. PICK k, u : Comes(k, r, m.f, m.core) /\ Runs(k) /\ m' = Settled(Executed(k, i, u))
  BY StepExecutes
<1>2. Surroundings /\ i \in TextWords
  BY ExecutesTyped
<1>3. Comes(Executed(k, i, u), [[[t EXCEPT ![SP] = a] EXCEPT ![q] = t[PC]] EXCEPT ![PC] = b],
                   m.f, [m.core EXCEPT ![a] = t[q] % 2^W])
  BY <1>1, <1>2, JSRComes
<1> QED BY <1>1, <1>3, SettledBecomes

\* RTS undoes it.
LEMMA RTSStep ==
    ASSUME NEW p, NEW i, NEW r, Executes(p, i, r), i.op = "RTS",
           NEW q, q = i.d.reg, q \in 0 .. 7 \ {SP}, NEW a, a = r[SP], a \in Cells
    PROVE  Becomes([[[r EXCEPT ![PC] = r[q]] EXCEPT ![SP] = a + 2] EXCEPT ![q] = m.core[a]],
                   m.f, m.core)
<1>1. PICK k, u : Comes(k, r, m.f, m.core) /\ Runs(k) /\ m' = Settled(Executed(k, i, u))
  BY StepExecutes
<1>2. Surroundings /\ i \in TextWords
  BY ExecutesTyped
<1>3. Comes(Executed(k, i, u), [[[r EXCEPT ![PC] = r[q]] EXCEPT ![SP] = a + 2] EXCEPT ![q] = m.core[a]],
                   m.f, m.core)
  BY <1>1, <1>2, RTSComes
<1> QED BY <1>1, <1>3, SettledBecomes

\* MFPI: a word of the previous space, or its SP, goes to the stack.
LEMMA MFPIStep ==
    ASSUME NEW p, NEW i, NEW r, Executes(p, i, r), i.op = "MFPI",
           NEW b, NEW t, Finds(i.d, 2, r, m.core, b, t), NEW x,
           \/ b = Pseudo + SP /\ x = t[SP]
           \/ ~IsReg(b) /\ Backed(b) /\ x = Held(m.core, b),
           NEW a \in Cells, t[SP] = a + 2
    PROVE  Becomes([t EXCEPT ![SP] = a], Moved(x, TRUE), [m.core EXCEPT ![a] = x % 2^W])
<1>1. PICK k, u : Comes(k, r, m.f, m.core) /\ Runs(k) /\ m' = Settled(Executed(k, i, u))
  BY StepExecutes
<1>2. Surroundings
  BY ExecutesTyped
<1>3. Comes(Executed(k, i, u), [t EXCEPT ![SP] = a], Moved(x, TRUE), [m.core EXCEPT ![a] = x % 2^W])
  BY <1>1, <1>2, MFPIComes
<1> QED BY <1>1, <1>3, SettledBecomes

\* MTPI: a word from the stack goes there.
LEMMA MTPIStep ==
    ASSUME NEW p, NEW i, NEW r, Executes(p, i, r), i.op = "MTPI",
           NEW b, NEW t, Finds(i.d, 2, r, m.core, b, t),
           NEW a, a = t[SP], a \in Cells, NEW s, NEW d,
           Writes(b, 2, m.core[a], [t EXCEPT ![SP] = a + 2], m.core, s, d)
    PROVE  Becomes(s, Moved(m.core[a], FALSE), d)
<1>1. PICK k, u : Comes(k, r, m.f, m.core) /\ Runs(k) /\ m' = Settled(Executed(k, i, u))
  BY StepExecutes
<1>2. Surroundings
  BY ExecutesTyped
<1>3. Comes(Executed(k, i, u), s, Moved(m.core[a], FALSE), d)
  BY <1>1, <1>2, MTPIComes
<1> QED BY <1>1, <1>3, SettledBecomes

-----------------------------------------------------------------------------
\* The operands that routines are written with.
LEMMA OperandsTyped ==
    /\ \A q \in 0 .. 7 : /\ Rg(q) \in Operands /\ At(q) \in Operands /\ Inc(q) \in Operands
                         /\ Dec(q) \in Operands /\ Idx(q) \in Operands
                         /\ IdxDeferred(q) \in Operands
    /\ Imm \in Operands /\ Abs \in Operands /\ 1 \in {1, 2} /\ 2 \in {1, 2}
BY DEF Rg, At, Inc, Dec, Idx, IdxDeferred, Imm, Abs, Operands, PC

\* A register.
LEMMA RgFinds ==
    ASSUME NEW q \in 0 .. 7, NEW l \in {1, 2}, NEW r, NEW c
    PROVE  Finds(Rg(q), l, r, c, Pseudo + q, r) /\ IsReg(Pseudo + q)
BY OperandsTyped, WordFacts DEF Finds, Rg, IsReg

\* Its value is cut to the width of the operand.
LEMMA RgLoads ==
    ASSUME NEW q \in 0 .. 7, NEW l \in {1, 2}, NEW r, NEW c
    PROVE  Loads(Rg(q), l, r, c, Pseudo + q, r, r[q] % 2^Bits(l))
<1>1. Pseudo + q \in Pseudo .. Pseudo + 7 /\ (Pseudo + q) - Pseudo = q
  BY ByteSizeTyped
<1> QED BY <1>1, RgFinds DEF Loads, Reads

\* The cell a register points to.
LEMMA AtFinds ==
    ASSUME NEW q \in 0 .. 7, NEW l \in {1, 2}, NEW r, NEW c, NEW a, Plain(a), r[q] = a
    PROVE  Finds(At(q), l, r, c, a, r)
BY OperandsTyped, PlainFacts DEF Finds, At

\* The same cell, with the register moved on.
LEMMA IncFinds ==
    ASSUME NEW q \in 0 .. 7, NEW l \in {1, 2}, NEW r, NEW c, NEW a, Plain(a), r[q] = a
    PROVE  Finds(Inc(q), l, r, c, a, [r EXCEPT ![q] = a + (IF q >= SP THEN 2 ELSE l)])
BY OperandsTyped, PlainFacts DEF Finds, Inc, Stride

\* The cell in front of it, with the register moved back.
LEMMA DecFinds ==
    ASSUME NEW q \in 0 .. 7, NEW r, NEW c, NEW a, Plain(a), r[q] = a + 2
    PROVE  Finds(Dec(q), 2, r, c, a, [r EXCEPT ![q] = a])
BY OperandsTyped, PlainFacts DEF Finds, Dec, Stride

\* The cell at a displacement from a register.
LEMMA IdxFinds ==
    ASSUME Hosted, NEW q \in 0 .. SP, NEW l \in {1, 2}, NEW r, NEW c, NEW p, NEW i, Lies(p, i),
           r[PC] = p, NEW a \in Word, a = ((i.n % 2^W) + r[q]) % 2^W
    PROVE  Finds(Idx(q), l, r, c, a, [r EXCEPT ![PC] = p + 2])
<1>1. q \in 0 .. 7 /\ q # PC
  BY DEF SP, PC
<1> QED BY <1>1, OperandsTyped, LiesFacts DEF Finds, Idx

\* An index reaches for a cell a from one that lies n before it.
LEMMA IdxReaches ==
    ASSUME Hosted, NEW q \in 0 .. SP, NEW l \in {1, 2}, NEW r, NEW c, NEW p, NEW i, Lies(p, i),
           r[PC] = p, NEW n, i.n = n, n \in Int, 0 <= n, n < 32, NEW b, Plain(b), r[q] = b,
           Plain(b + n - (n % 2))
    PROVE  Finds(Idx(q), l, r, c, b + n, With(r, PC, p + 2))
<1> DEFINE a == b + n
<1>1. b \in Int /\ a \in Int /\ 0 <= a /\ a < 2^W /\ a < Pseudo + 1
  BY Places, PlainFacts DEF Plain
<1>2. a \in Word
  BY <1>1, Places DEF Word
<1>3. a % 2^W = a /\ n % 2^W = n
  <2>1. n \in Word
    BY Places DEF Word
  <2> QED BY <1>2, <2>1, SmallSums
<1>4. a = ((i.n % 2^W) + r[q]) % 2^W
  <2>1. (i.n % 2^W) + r[q] = a
    BY <1>1, <1>3
  <2> QED BY <1>3, <2>1
<1>5. Finds(Idx(q), l, r, c, a, [r EXCEPT ![PC] = p + 2])
  BY <1>2, <1>4, IdxFinds
<1> QED BY <1>5 DEF With

\* The value behind the instruction.
LEMMA ImmLoads ==
    ASSUME Hosted, NEW r, NEW c, NEW p, NEW i, Lies(p, i), r[PC] = p
    PROVE  Loads(Imm, 2, r, c, p, [r EXCEPT ![PC] = p + 2], i.n % 2^W)
<1>1. p \in Word /\ ~IsReg(p) /\ Backed(p) /\ Held(c, p) = i.n % 2^W
  BY LiesFacts
<1>2. Finds(Imm, 2, r, c, p, [r EXCEPT ![PC] = p + 2])
  BY <1>1, OperandsTyped DEF Finds, Imm, Inc, Stride, PC, SP
<1> QED BY <1>1, <1>2 DEF Loads, Reads

\* The cell named behind the instruction.
LEMMA AbsFinds ==
    ASSUME Hosted, NEW r, NEW c, NEW p, NEW i, Lies(p, i), r[PC] = p, NEW a, a = i.n % 2^W,
           a \in Word
    PROVE  Finds(Abs, 2, r, c, a, [r EXCEPT ![PC] = p + 2])
<1>1. Backed(p) /\ Held(c, p) = i.n % 2^W
  BY LiesFacts
<1> QED BY <1>1, OperandsTyped DEF Finds, Abs, PC

\* What is found in a plain cell is what it holds, and stays there.
LEMMA PlainLoads ==
    ASSUME NEW o, NEW r, NEW c, NEW a, NEW s, Finds(o, 2, r, c, a, s), Plain(a)
    PROVE  Loads(o, 2, r, c, a, s, c[a])
BY PlainFacts DEF Loads, Reads

\* A byte of a plain cell.
LEMMA ByteLoads ==
    ASSUME NEW o, NEW r, NEW c, NEW a, NEW s, Finds(o, 1, r, c, a, s), NEW n \in {0, 1},
           Plain(a - n)
    PROVE  Loads(o, 1, r, c, a, s, IF n = 1 THEN c[a - n] \div ByteSize ELSE c[a - n] % ByteSize)
<1>1. a - n \in Int /\ (a - n) % 2 = 0 /\ 32 <= a - n /\ a - n < Pseudo
  BY DEF Plain
<1>2. a \in Word
  BY DEF Finds
<1>3. a \in Int /\ a % 2 = n /\ a < Pseudo
  <2>1. a \in Int
    BY <1>2, WordsInt
  <2>2. Pseudo % 2 = 0
    BY Sizes
  <2> QED BY <1>1, <2>1, <2>2, Places
<1>4. ~IsReg(a)
  BY <1>3, Places DEF IsReg
<1>5. Backed(a - n) /\ Held(c, a - n) = c[a - n]
  BY PlainFacts
<1> QED BY <1>3, <1>4, <1>5 DEF Loads, Reads

\* A result that is not stored changes nothing, one that is goes to a cell or a
\* register.
LEMMA StoresFacts ==
    ASSUME NEW z, NEW r, NEW c
    PROVE  /\ ~z.store => \A a, l : Stores(a, l, z, r, c, r, c)
           /\ z.store => \A a : Plain(a) => Stores(a, 2, z, r, c, r, [c EXCEPT ![a] = z.val % 2^W])
           /\ z.store => \A q \in 0 .. 7 : Stores(Pseudo + q, 2, z, r, c,
                                                  [r EXCEPT ![q] = z.val % 2^(2 * W)], c)
<1>1. \A a : Plain(a) => ~IsReg(a) /\ a \in Cells
  BY PlainFacts
<1>2. \A q \in 0 .. 7 : IsReg(Pseudo + q) /\ (Pseudo + q) - Pseudo = q
  BY ByteSizeTyped DEF IsReg
<1> QED BY <1>1, <1>2 DEF Stores, Writes

\* A word written goes to a cell or a register.
LEMMA WritesFacts ==
    ASSUME NEW x, NEW r, NEW c
    PROVE  /\ \A a : Plain(a) => Writes(a, 2, x, r, c, r, [c EXCEPT ![a] = x % 2^W])
           /\ \A q \in 0 .. 7 : Writes(Pseudo + q, 2, x, r, c, [r EXCEPT ![q] = x % 2^(2 * W)], c)
<1>1. \A a : Plain(a) => ~IsReg(a) /\ a \in Cells
  BY PlainFacts
<1>2. \A q \in 0 .. 7 : IsReg(Pseudo + q) /\ (Pseudo + q) - Pseudo = q
  BY ByteSizeTyped DEF IsReg
<1> QED BY <1>1, <1>2 DEF Writes

\* A cell read as a word or as a byte.
LEMMA CellLoads ==
    ASSUME NEW o, NEW l \in {1, 2}, NEW r, NEW c \in [Cells -> Word], NEW a, NEW s,
           Finds(o, l, r, c, a, s), Plain(a)
    PROVE  Loads(o, l, r, c, a, s, c[a] % 2^Bits(l))
<1>1. CASE l = 2
  <2>1. c[a] \in Word /\ Bits(l) = W
    BY <1>1, PlainFacts DEF Bits
  <2>2. c[a] % 2^W = c[a]
    BY <2>1, SmallSums
  <2> QED BY <1>1, <2>1, <2>2, PlainLoads
<1>2. CASE l = 1
  <2>1. 2^Bits(l) = ByteSize
    BY <1>2 DEF Bits, ByteSize
  <2>2. a - 0 = a
    BY DEF Plain
  <2>3. Loads(o, 1, r, c, a, s, IF 0 = 1 THEN c[a - 0] \div ByteSize ELSE c[a - 0] % ByteSize)
    BY <1>2, <2>2, ByteLoads
  <2> QED BY <1>2, <2>1, <2>2, <2>3
<1> QED BY <1>1, <1>2

\* The n-th word of a text lies at 2n.
LEMMA LiesAt ==
    ASSUME NEW n \in 0 .. 15, n + 1 \in DOMAIN routine.text
    PROVE  Lies(2 * n, routine.text[n + 1])
<1>1. (2 * n) \div 2 + 1 = n + 1
  OBVIOUS
<1> QED BY <1>1 DEF Lies, InText, Text

\* Behind its text a routine has ended.
LEMMA EndsBehind ==
    ASSUME NEW n \in 0 .. 15, DOMAIN routine.text = 1 .. n
    PROVE  /\ Step => m.r[PC] # 2 * n
           /\ Ended => \A k \in 0 .. n - 1 : m.r[PC] # 2 * k
<1>1. \A k \in 0 .. 15 : (2 * k) % 2^W = 2 * k /\ (2 * k) \div 2 + 1 = k + 1
  BY Sizes
<1>2. Text((2 * n) % 2^W) \notin DOMAIN routine.text
  BY <1>1, SMTT(60) DEF Text
<1>3. \A k \in 0 .. n - 1 : Text((2 * k) % 2^W) \in DOMAIN routine.text
  <2> TAKE k \in 0 .. n - 1
  <2>1. k \in 0 .. 15 /\ k + 1 \in 1 .. n
    OBVIOUS
  <2>2. Text((2 * k) % 2^W) = k + 1
    BY <1>1, <2>1 DEF Text
  <2> QED BY <2>1, <2>2
<1>4. Step => Text(m.r[PC] % 2^W) \in DOMAIN routine.text
  BY DEF Step, Ended, InText
<1>5. Ended => Text(m.r[PC] % 2^W) \notin DOMAIN routine.text
  BY DEF Ended, InText
<1> QED BY <1>2, <1>3, <1>4, <1>5

\* Numbers of the words of a text.
LEMMA Numbers ==
    /\ 0 \in 0 .. 15 /\ 1 \in 0 .. 15 /\ 2 \in 0 .. 15 /\ 3 \in 0 .. 15 /\ 4 \in 0 .. 15
    /\ 5 \in 0 .. 15 /\ 6 \in 0 .. 15 /\ 7 \in 0 .. 15 /\ 8 \in 0 .. 15 /\ 9 \in 0 .. 15
    /\ 10 \in 0 .. 15 /\ 11 \in 0 .. 15 /\ 12 \in 0 .. 15 /\ 13 \in 0 .. 15
    /\ 2 * 0 = 0 /\ 2 * 1 = 2 /\ 2 * 2 = 4 /\ 2 * 3 = 6 /\ 2 * 4 = 8 /\ 2 * 5 = 10 /\ 2 * 6 = 12
    /\ 2 * 7 = 14 /\ 2 * 8 = 16 /\ 2 * 9 = 18 /\ 2 * 10 = 20 /\ 2 * 11 = 22 /\ 2 * 12 = 24 /\ 2 * 13 = 26
    /\ 0 + 1 = 1 /\ 1 + 1 = 2 /\ 2 + 1 = 3 /\ 3 + 1 = 4 /\ 4 + 1 = 5 /\ 5 + 1 = 6 /\ 6 + 1 = 7
    /\ 7 + 1 = 8 /\ 8 + 1 = 9 /\ 9 + 1 = 10 /\ 10 + 1 = 11 /\ 11 + 1 = 12 /\ 12 + 1 = 13
OBVIOUS

\* Numbers of registers.
LEMMA Registered ==
    /\ 0 \in 0 .. SP /\ 1 \in 0 .. SP /\ 2 \in 0 .. SP /\ 3 \in 0 .. SP /\ 4 \in 0 .. SP
    /\ 5 \in 0 .. SP /\ SP \in 0 .. SP /\ \A q \in 0 .. SP : q \in 0 .. 7 /\ q # PC
    /\ 1 \in 0 .. 5 /\ 2 \in 0 .. 5 /\ 5 \in 0 .. 5 /\ 5 \in 0 .. 7 \ {SP} /\ PC \in 0 .. 7 \ {SP}
    /\ 1 \in {1, 2} /\ 2 \in {1, 2} /\ \A q \in {0, 1, 2, 3, 4, 5, 6, 7} : q \in 0 .. 7
    /\ PC \in 0 .. 7 /\ 0 # SP /\ 1 # SP /\ 2 # SP /\ 3 # SP /\ 4 # SP /\ 5 # SP
BY DEF SP, PC

\* The machine after a step: as it becomes, or where it was if it is aborted.
Goes(r, f, c) ==
    /\ Becomes(r, f, c)
    /\ m'.left = "fault" => m'.pc = m.r[PC] /\ m'.core = m.core

\* An instruction of two operands in core.
LEMMA BinaryCells ==
    ASSUME NEW p, NEW op \in TwoOperands, NEW l \in {1, 2}, NEW o, NEW e, NEW n, NEW r,
           Executes(p, Instruction(op, l, o, e, n), r),
           NEW a, NEW s, Finds(o, l, r, m.core, a, s), Plain(a),
           NEW b, NEW t, Finds(e, l, s, m.core, b, t), Plain(b),
           NEW z, z = Computed2(op, m.core[a] % 2^Bits(l), m.core[b] % 2^Bits(l), l, m.f),
           ~z.store \/ l = 2
    PROVE  Goes(t, z.f, IF z.store THEN [m.core EXCEPT ![b] = z.val % 2^W] ELSE m.core)
<1> DEFINE i == Instruction(op, l, o, e, n)
           d == IF z.store THEN [m.core EXCEPT ![b] = z.val % 2^W] ELSE m.core
<1>1. i.op = op /\ i.l = l /\ i.s = o /\ i.d = e /\ op # "MARK" /\ op \in TwoOperands
  BY DEF Instruction, TwoOperands
<1> HIDE DEF i
<1>2. Executes(p, i, r) /\ m.core \in [Cells -> Word]
  BY ExecutesTyped DEF i
<1>3. /\ Loads(o, l, r, m.core, a, s, m.core[a] % 2^Bits(l))
      /\ Loads(e, l, s, m.core, b, t, m.core[b] % 2^Bits(l))
  BY <1>2, CellLoads
<1>4. Stores(b, l, z, t, m.core, t, d)
  <2>1. CASE z.store
    <3>1. l = 2 /\ d = [m.core EXCEPT ![b] = z.val % 2^W]
      BY <2>1
    <3> HIDE DEF d
    <3>2. Stores(b, 2, z, t, m.core, t, d)
      BY <2>1, <3>1, StoresFacts
    <3> QED BY <3>1, <3>2
  <2>2. CASE ~z.store
    BY <2>2, StoresFacts
  <2> QED BY <2>1, <2>2
<1> HIDE DEF d
<1>5. Becomes(t, z.f, d)
  BY <1>1, <1>2, <1>3, <1>4, BinaryStep
<1>6. m'.left = "fault" => m'.pc = m.r[PC] /\ m'.core = m.core
  BY <1>1, <1>2, AbortLeaves
<1> QED BY <1>5, <1>6 DEF Goes, d

\* The same for words.
LEMMA BinaryWords ==
    ASSUME NEW p, NEW op \in TwoOperands, NEW o, NEW e, NEW r, Executes(p, Two(op, o, e), r),
           NEW a, NEW s, Finds(o, 2, r, m.core, a, s), Plain(a),
           NEW b, NEW t, Finds(e, 2, s, m.core, b, t), Plain(b),
           NEW z, Is(z, Computed2(op, m.core[a], m.core[b], 2, m.f))
    PROVE  /\ z.store => Goes(t, z.f, With(m.core, b, z.val % 2^W))
           /\ ~z.store => Goes(t, z.f, m.core)
<1>1. PICK l \in {1, 2} : l = 2
  OBVIOUS
<1>2. Two(op, o, e) = Instruction(op, l, o, e, 0) /\ Bits(l) = W
  BY <1>1 DEF Two, Bits
<1>3. m.core \in [Cells -> Word]
  BY ExecutesTyped
<1>4. m.core[a] \in Word /\ m.core[b] \in Word
  BY <1>3, PlainFacts
<1>5. m.core[a] % 2^Bits(l) = m.core[a] /\ m.core[b] % 2^Bits(l) = m.core[b]
  BY <1>2, <1>4, SmallSums
<1>6. z = Computed2(op, m.core[a] % 2^Bits(l), m.core[b] % 2^Bits(l), l, m.f)
  BY <1>1, <1>5 DEF Is
<1>7. /\ Executes(p, Instruction(op, l, o, e, 0), r)
      /\ Finds(o, l, r, m.core, a, s) /\ Finds(e, l, s, m.core, b, t) /\ l = 2
  BY <1>1, <1>2
<1>8. Goes(t, z.f, IF z.store THEN [m.core EXCEPT ![b] = z.val % 2^W] ELSE m.core)
  BY <1>6, <1>7, BinaryCells
<1> QED BY <1>8 DEF With

\* An instruction whose destination is a register.
LEMMA BinaryRegister ==
    ASSUME NEW p, NEW op \in TwoOperands, NEW o, NEW q \in 0 .. 7, NEW r,
           Executes(p, Two(op, o, Rg(q)), r),
           NEW a, NEW s, NEW x, Loads(o, 2, r, m.core, a, s, x),
           NEW z, z = Computed2(op, x, s[q] % 2^W, 2, m.f)
    PROVE  Goes(IF z.store THEN [s EXCEPT ![q] = z.val % 2^(2 * W)] ELSE s, z.f, m.core)
<1> DEFINE i == Two(op, o, Rg(q))
           d == IF z.store THEN [s EXCEPT ![q] = z.val % 2^(2 * W)] ELSE s
<1>1. i.op = op /\ i.l = 2 /\ i.s = o /\ i.d = Rg(q) /\ op # "MARK" /\ Bits(2) = W /\ 2 \in {1, 2}
  BY DEF Two, Instruction, TwoOperands, Bits
<1> HIDE DEF i
<1>2. Executes(p, i, r)
  BY DEF i
<1>3. Loads(Rg(q), 2, s, m.core, Pseudo + q, s, s[q] % 2^W)
  BY <1>1, RgLoads
<1>4. Stores(Pseudo + q, 2, z, s, m.core, d, m.core)
  BY StoresFacts
<1> HIDE DEF d
<1>5. Becomes(d, z.f, m.core)
  BY <1>1, <1>2, <1>3, <1>4, BinaryStep
<1>6. m'.left = "fault" => m'.pc = m.r[PC] /\ m'.core = m.core
  BY <1>1, <1>2, AbortLeaves
<1> QED BY <1>5, <1>6 DEF Goes, d

\* An instruction of one operand in core; where it is aborted, those that take
\* the carry in keep it.
LEMMA UnaryCell ==
    ASSUME NEW p, NEW op \in OneOperand, NEW e, NEW r, Executes(p, One(op, e), r),
           NEW b, NEW t, Finds(e, 2, r, m.core, b, t), Plain(b),
           NEW z, z = Computed1(op, m.core[b], 2, m.f)
    PROVE  /\ Goes(t, z.f, IF z.store THEN [m.core EXCEPT ![b] = z.val % 2^W] ELSE m.core)
           /\ m'.left = "fault" /\ op \in {"ADC", "SBC", "ROR", "ROL"} => m'.f.c = m.f.c
<1> DEFINE i == One(op, e)
           d == IF z.store THEN [m.core EXCEPT ![b] = z.val % 2^W] ELSE m.core
<1>1. i.op = op /\ i.l = 2 /\ i.d = e /\ op # "MARK"
  BY DEF One, Instruction, OneOperand
<1> HIDE DEF i
<1>2. Executes(p, i, r)
  BY DEF i
<1>3. Loads(e, 2, r, m.core, b, t, m.core[b])
  BY PlainLoads
<1>4. Stores(b, 2, z, t, m.core, t, d)
  BY StoresFacts
<1> HIDE DEF d
<1>5. Becomes(t, z.f, d)
  BY <1>1, <1>2, <1>3, <1>4, UnaryStep
<1>6. /\ m'.left = "fault" => m'.pc = m.r[PC] /\ m'.core = m.core
      /\ m'.left = "fault" /\ op \in {"ADC", "SBC", "ROR", "ROL"} => m'.f.c = m.f.c
  BY <1>1, <1>2, AbortLeaves
<1> QED BY <1>5, <1>6 DEF Goes, d

\* The same in a register.
LEMMA UnaryRegister ==
    ASSUME NEW p, NEW op \in OneOperand, NEW q \in 0 .. 7, NEW r, Executes(p, One(op, Rg(q)), r),
           NEW z, z = Computed1(op, r[q] % 2^W, 2, m.f)
    PROVE  /\ Goes(IF z.store THEN [r EXCEPT ![q] = z.val % 2^(2 * W)] ELSE r, z.f, m.core)
           /\ m'.left = "fault" /\ op \in {"ADC", "SBC", "ROR", "ROL"} => m'.f.c = m.f.c
<1> DEFINE i == One(op, Rg(q))
           d == IF z.store THEN [r EXCEPT ![q] = z.val % 2^(2 * W)] ELSE r
<1>1. i.op = op /\ i.l = 2 /\ i.d = Rg(q) /\ op # "MARK" /\ Bits(2) = W /\ 2 \in {1, 2}
  BY DEF One, Instruction, OneOperand, Bits
<1> HIDE DEF i
<1>2. Executes(p, i, r)
  BY DEF i
<1>3. Loads(Rg(q), 2, r, m.core, Pseudo + q, r, r[q] % 2^W)
  BY <1>1, RgLoads
<1>4. Stores(Pseudo + q, 2, z, r, m.core, d, m.core)
  BY StoresFacts
<1> HIDE DEF d
<1>5. Becomes(d, z.f, m.core)
  BY <1>1, <1>2, <1>3, <1>4, UnaryStep
<1>6. /\ m'.left = "fault" => m'.pc = m.r[PC] /\ m'.core = m.core
      /\ m'.left = "fault" /\ op \in {"ADC", "SBC", "ROR", "ROL"} => m'.f.c = m.f.c
  BY <1>1, <1>2, AbortLeaves
<1> QED BY <1>5, <1>6 DEF Goes, d

\* MOV of a word.
LEMMA MoveWord ==
    ASSUME NEW p, NEW o, NEW e, NEW r, Executes(p, Two("MOV", o, e), r),
           NEW a, NEW s, NEW x \in Word, Loads(o, 2, r, m.core, a, s, x),
           NEW b, NEW t, Finds(e, 2, s, m.core, b, t), NEW v, NEW d,
           Writes(b, 2, x, t, m.core, v, d)
    PROVE  Goes(v, Logical(x, 2, m.f).f, d)
<1> DEFINE i == Two("MOV", o, e)
<1>1. i.op = "MOV" /\ i.l = 2 /\ i.s = o /\ i.d = e /\ x \in Int
  BY WordsInt DEF Two, Instruction
<1> HIDE DEF i
<1>2. Executes(p, i, r)
  BY DEF i
<1>3. MovedWord(x, 2, b) = x /\ (IF IsReg(b) THEN 2 ELSE i.l) = 2
  BY <1>1 DEF MovedWord
<1>4. Becomes(v, Logical(x, 2, m.f).f, d)
  BY <1>1, <1>2, <1>3, MoveStep
<1>5. m'.left = "fault" => m'.pc = m.r[PC] /\ m'.core = m.core
  BY <1>1, <1>2, AbortLeaves
<1> QED BY <1>4, <1>5 DEF Goes

\* A word moved to a register, or from anywhere to a cell.
LEMMA MoveToRegister ==
    ASSUME NEW p, NEW o, NEW q \in 0 .. 7, NEW r, Executes(p, Two("MOV", o, Rg(q)), r),
           NEW a, NEW s, NEW x \in Word, Loads(o, 2, r, m.core, a, s, x)
    PROVE  Goes([s EXCEPT ![q] = x], Logical(x, 2, m.f).f, m.core)
<1>1. Finds(Rg(q), 2, s, m.core, Pseudo + q, s)
  BY RgFinds
<1>2. x % 2^(2 * W) = x
  BY SmallSums
<1>3. Writes(Pseudo + q, 2, x, s, m.core, [s EXCEPT ![q] = x], m.core)
  BY <1>2, WritesFacts
<1> QED BY <1>1, <1>3, MoveWord

\* MOV of a word to core.
LEMMA MoveToCell ==
    ASSUME NEW p, NEW o, NEW e, NEW r, Executes(p, Two("MOV", o, e), r),
           NEW a, NEW s, NEW x \in Word, Loads(o, 2, r, m.core, a, s, x),
           NEW b, NEW t, Finds(e, 2, s, m.core, b, t), Plain(b)
    PROVE  Goes(t, Logical(x, 2, m.f).f, [m.core EXCEPT ![b] = x])
<1>1. x % 2^W = x
  BY SmallSums
<1>2. Writes(b, 2, x, t, m.core, t, [m.core EXCEPT ![b] = x])
  BY <1>1, WritesFacts
<1> QED BY <1>2, MoveWord

\* A branch goes to its target or on, and never faults behind its fetch.
LEMMA BranchGoes ==
    ASSUME NEW p, NEW op \in Branches, NEW n, NEW r, Executes(p, Go(op, n), r),
           NEW t, (p + 2 + 2 * n) % 2^(2 * W) = t
    PROVE  /\ Goes(IF Taken(op, m.f) THEN [r EXCEPT ![PC] = t] ELSE r, m.f, m.core)
           /\ Runs(m')
<1> DEFINE i == Go(op, n)
<1>1. i.op = op /\ i.n = n
  BY DEF Go, Instruction
<1> HIDE DEF i
<1>2. Executes(p, i, r) /\ r[PC] = p + 2
  BY ExecutesTyped DEF i
<1>3. /\ Becomes(IF Taken(op, m.f) THEN [r EXCEPT ![PC] = (r[PC] + 2 * n) % 2^(2 * W)] ELSE r,
                 m.f, m.core)
      /\ Runs(m')
  BY <1>1, <1>2, BranchStep
<1> QED BY <1>2, <1>3 DEF Goes, Runs

-----------------------------------------------------------------------------
(***************************************************************************)
(* Where a routine is, and what registers, flags and core are there: s is  *)
(* the machine it has started with.                                        *)
(***************************************************************************)
Compared(s, l) == CMP(s.core[A] % 2^Bits(l), s.core[B] % 2^Bits(l), l, s.f).f

CompareAt(op, l, s, r, f, c) ==
    /\ r[PC] \in {0, 2, 4, 6}
    /\ r[PC] = 0 => r[1] = A /\ r[2] = B /\ c[A] = s.core[A] /\ c[B] = s.core[B]
    /\ r[PC] = 2 => f = Compared(s, l)
    /\ r[PC] = 4 => ~Taken(op, Compared(s, l))
    /\ r[PC] \in {0, 2, 4} => r[5] = 0
    /\ r[PC] = 6 => ((r[5] = 0) <=> Taken(op, Compared(s, l)))

\* What lies in the text of a routine that compares.
LEMMA CompareText ==
    ASSUME NEW op, NEW l, routine = Compare(op, l)
    PROVE  /\ Lies(0, Instruction("CMP", l, At(1), At(2), 0)) /\ Lies(2, Go(op, 1))
           /\ Lies(4, One("INC", Rg(5))) /\ DOMAIN routine.text = 1 .. 3
<1> DEFINE t == routine.text
<1>1. t = <<Instruction("CMP", l, At(1), At(2), 0), Go(op, 1), One("INC", Rg(5))>>
  BY DEF Compare, Routine
<1>2. /\ DOMAIN t = 1 .. 3 /\ t[1] = Instruction("CMP", l, At(1), At(2), 0)
      /\ t[2] = Go(op, 1) /\ t[3] = One("INC", Rg(5))
  BY <1>1
<1> QED BY <1>2, Numbers, LiesAt

\* Each step of a routine that compares, and each abort, keeps its assertion.
LEMMA CompareKept ==
    ASSUME TypeOK, Hosted, Step, NEW op \in Branches, NEW l \in {1, 2}, routine = Compare(op, l),
           CompareAt(op, l, start, m.r, m.f, m.core)
    PROVE  /\ m'.left \in {"no", "fault"}
           /\ Runs(m') => CompareAt(op, l, start, m'.r, m'.f, m'.core)
           /\ m'.left = "fault" => /\ m'.pc = m.r[PC] /\ m'.core = m.core
                                   /\ CompareAt(op, l, start, m.r, m'.f, m.core)
<1> DEFINE r == [m.r EXCEPT ![PC] = m.r[PC] + 2]
<1>1. CASE m.r[PC] = 0
  <2> DEFINE i == Instruction("CMP", l, At(1), At(2), 0)
             z == Computed2("CMP", m.core[A] % 2^Bits(l), m.core[B] % 2^Bits(l), l, m.f)
  <2>1. Executes(0, i, r)
    BY <1>1, CompareText DEF Executes
  <2> HIDE DEF r
  <2>2. /\ r[PC] = 2 /\ r[1] = A /\ r[2] = B /\ r[5] = 0
        /\ m.core[A] = start.core[A] /\ m.core[B] = start.core[B]
    BY <1>1, <2>1, ExecutesTyped, Registered DEF CompareAt
  <2>3. Finds(At(1), l, r, m.core, A, r) /\ Finds(At(2), l, r, m.core, B, r)
    BY <2>2, Registered, AtFinds, PlainCells
  <2>4. ~z.store /\ z.f = Compared(start, l) /\ "CMP" \in TwoOperands
    BY <2>2 DEF Computed2, CMP, FlagsOnly, Result, Compared, TwoOperands
  <2> HIDE DEF z
  <2>5. Goes(r, z.f, m.core)
    BY <2>1, <2>3, <2>4, PlainCells, BinaryCells DEF z
  <2> QED BY <1>1, <2>2, <2>4, <2>5 DEF Goes, Becomes, CompareAt
<1>2. CASE m.r[PC] = 2
  <2>1. Executes(2, Go(op, 1), r)
    BY <1>2, CompareText DEF Executes
  <2> HIDE DEF r
  <2>2. r[PC] = 4 /\ r[5] = 0 /\ r \in [0 .. 7 -> Long] /\ m.f = Compared(start, l)
    BY <1>2, <2>1, ExecutesTyped, Registered DEF CompareAt
  <2>3. (2 + 2 + 2 * 1) % 2^(2 * W) = 6
    BY Sizes
  <2>4. Goes(IF Taken(op, m.f) THEN [r EXCEPT ![PC] = 6] ELSE r, m.f, m.core) /\ Runs(m')
    BY <2>1, <2>3, BranchGoes
  <2> DEFINE v == IF Taken(op, m.f) THEN [r EXCEPT ![PC] = 6] ELSE r
  <2>5. v[5] = 0 /\ v[PC] = IF Taken(op, m.f) THEN 6 ELSE 4
    BY <2>2, Registered
  <2> HIDE DEF v
  <2>6. Goes(v, m.f, m.core) /\ Runs(m')
    BY <2>4 DEF v
  <2> QED BY <2>2, <2>5, <2>6 DEF Goes, Becomes, CompareAt, Runs
<1>3. CASE m.r[PC] = 4
  <2> DEFINE z == Computed1("INC", r[5] % 2^W, 2, m.f)
  <2>1. Executes(4, One("INC", Rg(5)), r)
    BY <1>3, CompareText DEF Executes
  <2> HIDE DEF r
  <2>2. r[PC] = 6 /\ r[5] = 0 /\ r \in [0 .. 7 -> Long] /\ 5 \in 0 .. 7 /\ "INC" \in OneOperand
    BY <1>3, <2>1, ExecutesTyped, Registered DEF CompareAt, OneOperand
  <2>3. z.store /\ z.val % 2^(2 * W) = 1
    <3>1. 0 % 2^W = 0 /\ (0 + 1) % 2^W = 1 /\ 1 % 2^(2 * W) = 1
      BY Sizes
    <3> QED BY <2>2, <3>1 DEF Computed1, INC, Result, Bits
  <2> HIDE DEF z
  <2>4. Goes(IF z.store THEN [r EXCEPT ![5] = z.val % 2^(2 * W)] ELSE r, z.f, m.core)
    BY <2>1, <2>2, UnaryRegister DEF z
  <2> DEFINE v == [r EXCEPT ![5] = 1]
  <2>5. v[PC] = 6 /\ v[5] = 1
    BY <2>2, Registered
  <2> HIDE DEF v
  <2>6. Goes(v, z.f, m.core)
    BY <2>3, <2>4 DEF v
  <2> QED BY <1>3, <2>2, <2>5, <2>6 DEF Goes, Becomes, CompareAt
<1>4. m.r[PC] # 6
  BY CompareText, Numbers, EndsBehind
<1> QED BY <1>1, <1>2, <1>3, <1>4 DEF CompareAt

\* An instruction on two operands that is aborted has not touched the flags.
LEMMA BinaryKeepsFlags ==
    ASSUME NEW p, NEW i, NEW r, Executes(p, i, r), i.op \in TwoOperands, m'.left = "fault"
    PROVE  m'.f = m.f
<1>1. PICK k, u : Comes(k, r, m.f, m.core) /\ Runs(k) /\ m' = Settled(Executed(k, i, u))
  BY StepExecutes
<1>2. Executed(k, i, u) = Binary(k, i)
  BY ExecutedAs
<1>3. /\ k \in Machines /\ i \in TextWords /\ i.s \in Operands /\ i.d \in Operands
      /\ i.l \in {1, 2} /\ k.f \in Flags /\ k.f = m.f /\ Surroundings
  BY <1>1, ExecutesTyped, ComesTyped DEF Comes, TextWords, Machines
<1> DEFINE s == Aget(k, i.s, i.l)
           x == MemRead(s, s.out, i.l)
           d == Aget(x, i.d, i.l)
           y == MemRead(d, d.out, i.l)
           c == Computed2(i.op, x.out, y.out, i.l, k.f)
           w == Binary(k, i)
<1>4. s \in Machines /\ Quiet(k, s)
  BY <1>3, AgetFacts
<1> HIDE DEF s
<1>5. s.out \in Int
  BY <1>4 DEF Machines
<1>6. /\ x \in Machines /\ Quiet(s, x)
      /\ Runs(x) => x.out \in Word
  BY <1>3, <1>4, <1>5, MemReadFacts
<1> HIDE DEF x
<1>7. d \in Machines /\ Quiet(x, d) /\ (Runs(d) => Runs(x))
  BY <1>3, <1>6, AgetFacts
<1> HIDE DEF d
<1>8. d.out \in Int
  BY <1>7 DEF Machines
<1>9. /\ y \in Machines /\ Quiet(d, y)
      /\ Runs(y) => Runs(d) /\ y.out \in Word /\ Present(d.out, i.l)
  BY <1>3, <1>7, <1>8, MemReadFacts
<1>10. w = Stored(y, d.out, i.l, c)
  BY DEF Binary, s, x, d
<1> HIDE DEF y, w
<1>11. m' = Settled(w)
  BY <1>1, <1>2 DEF w
<1>12. CASE Runs(y)
  <2>1. c \in Results
    BY <1>3, <1>6, <1>7, <1>9, <1>12, Computed2Typed
  <2> HIDE DEF c
  <2>2. w \in Machines /\ w.left # "fault"
    BY <1>3, <1>8, <1>9, <1>10, <1>12, <2>1, StoredFacts
  <2>3. m'.left = w.left
    BY <1>11, <2>2 DEF Settled, Machines
  <2> QED BY <2>2, <2>3
<1>13. CASE ~Runs(y)
  <2>1. w = y
    BY <1>10, <1>13, StoredLeft
  <2>2. m' = y
    BY <1>11, <1>13, <2>1 DEF Settled
  <2> QED BY <1>3, <1>4, <1>6, <1>7, <1>9, <2>2 DEF Quiet
<1> QED BY <1>12, <1>13

\* An instruction of one operand that is stored.
LEMMA UnaryAt ==
    ASSUME NEW p, NEW i, NEW r, Executes(p, i, r), i.op \in OneOperand, i.l = 2,
           NEW b, NEW t, Finds(i.d, 2, r, m.core, b, t), Plain(b),
           NEW z, z = Computed1(i.op, m.core[b], 2, m.f), z.store
    PROVE  Goes(t, z.f, [m.core EXCEPT ![b] = z.val % 2^W])
<1> DEFINE d == [m.core EXCEPT ![b] = z.val % 2^W]
<1>1. i.op # "MARK"
  BY DEF OneOperand
<1>2. Loads(i.d, 2, r, m.core, b, t, m.core[b])
  BY PlainLoads
<1>3. Stores(b, 2, z, t, m.core, t, d)
  BY StoresFacts
<1> HIDE DEF d
<1>4. Becomes(t, z.f, d)
  BY <1>2, <1>3, UnaryStep
<1>5. m'.left = "fault" => m'.pc = m.r[PC] /\ m'.core = m.core
  BY <1>1, AbortLeaves
<1> QED BY <1>4, <1>5 DEF Goes, d

\* The two lowest bits, put together.
LEMMA LowestBits ==
    /\ Or(1, 0) = 1 /\ Or(2, 0) = 2 /\ Or(2, 1) = 3
    /\ \A x \in Long : And(3, x) = x % 4
<1>1. /\ 0 \in 0 .. 2 * W /\ 1 \in 0 .. 2 * W /\ 2 \in 0 .. 2 * W /\ 1 \in 0 .. 2 * W - 1
      /\ 2^0 - 1 = 0 /\ 2^1 - 1 = 1 /\ 2^2 - 1 = 3 /\ 2^1 = 2 /\ 2^2 = 4
  BY WidthAssumption
<1>2. /\ BitsOf(0) = {} /\ BitsOf(1) = {0} /\ 0 \in Long /\ 1 \in Long
  <2>1. 0 .. 0 - 1 = {} /\ 0 .. 1 - 1 = {0}
    OBVIOUS
  <2> QED BY <1>1, <2>1, OnesBits
<1>3. BitsOf(2) = {1} /\ 2 \in Long
  <2>1. 0 \in 0 .. 2^1 - 1
    BY <1>1
  <2>2. BitsOf(2^1 + 0) = BitsOf(0) \cup {1}
    BY <1>1, <2>1, TopBit
  <2>3. 2^1 + 0 = 2 /\ 2 \in Long
    BY <1>1, Powers DEF Long
  <2> QED BY <1>2, <2>2, <2>3
<1>4. Or(1, 0) = 1 + 0 /\ Or(2, 0) = 2 + 0 /\ Or(2, 1) = 2 + 1
  BY <1>2, <1>3, BitsAdd
<1>5. \A x \in Long : And(3, x) = x % 4
  BY <1>1, LowBits
<1> QED BY <1>4, <1>5

-----------------------------------------------------------------------------
\* What an instruction tells by V and C of the words it is given.
Told(op, s) ==
    IF op \in TwoOperands THEN Computed2(op, s.core[A], s.core[B], 2, s.f).f
    ELSE Computed1(op, s.core[B], 2, s.f).f
Telling == {"ADD", "SUB", "CMP", "NEG", "ASL"}

OverflowAt(op, s, r, f, c) ==
    /\ r[PC] \in {0, 2, 4, 8, 10, 14}
    /\ r[PC] = 0 => r[1] = A /\ r[2] = B /\ c[A] = s.core[A] /\ c[B] = s.core[B]
    /\ r[PC] \in {0, 2, 4} => r[5] = 0
    /\ r[PC] = 2 => f = Told(op, s)
    /\ r[PC] = 4 => Told(op, s).v
    /\ r[PC] \in {4, 8} => f.c = Told(op, s).c
    /\ r[PC] \in {8, 10} => r[5] = IF Told(op, s).v THEN 1 ELSE 0
    /\ r[PC] = 10 => Told(op, s).c
    /\ r[PC] = 14 => r[5] = (IF Told(op, s).v THEN 1 ELSE 0) + (IF Told(op, s).c THEN 2 ELSE 0)

\* What lies in the text of a routine that looks at V and C.
LEMMA OverflowText ==
    ASSUME NEW op, routine = Overflow(op)
    PROVE  /\ Lies(0, Instruction(op, 2, At(1), At(2), 0)) /\ Lies(2, Go("BVC", 2))
           /\ Lies(4, Two("BIS", Imm, Rg(5))) /\ Lies(6, Data(1)) /\ Lies(8, Go("BCC", 2))
           /\ Lies(10, Two("BIS", Imm, Rg(5))) /\ Lies(12, Data(2)) /\ DOMAIN routine.text = 1 .. 7
<1> DEFINE t == routine.text
<1>1. t = <<Instruction(op, 2, At(1), At(2), 0), Go("BVC", 2), Two("BIS", Imm, Rg(5)), Data(1),
            Go("BCC", 2), Two("BIS", Imm, Rg(5)), Data(2)>>
  BY DEF Overflow, Routine
<1>2. /\ DOMAIN t = 1 .. 7 /\ t[1] = Instruction(op, 2, At(1), At(2), 0) /\ t[2] = Go("BVC", 2)
      /\ t[3] = Two("BIS", Imm, Rg(5)) /\ t[4] = Data(1) /\ t[5] = Go("BCC", 2)
      /\ t[6] = Two("BIS", Imm, Rg(5)) /\ t[7] = Data(2)
  BY <1>1
<1> QED BY <1>2, Numbers, LiesAt

\* The first instruction.
LEMMA OverflowTells ==
    ASSUME TypeOK, Hosted, Step, NEW op \in Telling, routine = Overflow(op), m.r[PC] = 0,
           OverflowAt(op, start, m.r, m.f, m.core), NEW r, r = [m.r EXCEPT ![PC] = m.r[PC] + 2]
    PROVE  \E d : Goes(r, Told(op, start), d)
<1> DEFINE i == Instruction(op, 2, At(1), At(2), 0)
<1>1. Executes(0, i, r) /\ i.op = op /\ i.l = 2 /\ i.d = At(2)
  BY OverflowText DEF Executes, Instruction
<1> HIDE DEF i
<1>2. /\ r[1] = A /\ r[2] = B /\ m.core[A] = start.core[A] /\ m.core[B] = start.core[B]
      /\ m.core \in [Cells -> Word] /\ m.f \in Flags
  BY <1>1, ExecutesTyped, Registered DEF OverflowAt
<1>3. /\ Finds(At(1), 2, r, m.core, A, r) /\ Finds(At(2), 2, r, m.core, B, r)
      /\ 2 \in {1, 2} /\ Plain(A) /\ Plain(B)
  <2>1. 1 \in 0 .. 7 /\ 2 \in 0 .. 7 /\ 2 \in {1, 2} /\ Plain(A) /\ Plain(B)
    BY <1>1, PlainCells DEF Executes
  <2> QED BY <1>2, <2>1, AtFinds, ZenonT(60)
<1>5. CASE op \in TwoOperands
  <2> DEFINE z == Computed2(op, m.core[A], m.core[B], 2, m.f)
  <2>1. z.f = Told(op, start)
    BY <1>2, <1>5 DEF Told, Computed2, ADD, SUB, CMP, FlagsOnly, Result, Telling, TwoOperands
  <2>2. Executes(0, Two(op, At(1), At(2)), r)
    BY <1>1 DEF i, Two
  <2>3. Is(z, Computed2(op, m.core[A], m.core[B], 2, m.f))
    BY DEF Is
  <2> HIDE DEF z
  <2>4. /\ z.store => Goes(r, z.f, With(m.core, B, z.val % 2^W))
        /\ ~z.store => Goes(r, z.f, m.core)
    BY <1>3, <1>5, <2>2, <2>3, BinaryWords
  <2> QED BY <2>1, <2>4
<1>6. CASE op \notin TwoOperands
  <2> DEFINE z == Computed1(op, m.core[B], 2, m.f)
  <2>1. op \in OneOperand
    BY <1>6 DEF Telling, TwoOperands, OneOperand
  <2>2. z.f = Told(op, start) /\ z.store
    BY <1>2, <1>6 DEF Told, Computed1, NEG, ASL, Result, Telling, TwoOperands
  <2>0. z = Computed1(op, m.core[B], 2, m.f)
    OBVIOUS
  <2> HIDE DEF z
  <2>3. Goes(r, z.f, [m.core EXCEPT ![B] = z.val % 2^W])
    BY <1>1, <1>3, <2>0, <2>1, <2>2, UnaryAt
  <2> QED BY <2>2, <2>3
<1> QED BY <1>5, <1>6

\* BIS of a bit into R5.
LEMMA OverflowSets ==
    ASSUME TypeOK, Hosted, Step, NEW p, NEW n \in {1, 2}, Lies(p, Two("BIS", Imm, Rg(5))),
           Lies(p + 2, Data(n)), m.r[PC] = p, m.r[5] \in {0, 1},
           NEW x, x = Or(n, m.r[5]), x \in Word
    PROVE  \E v, f : /\ Goes(v, f, m.core) /\ f.c = m.f.c /\ v[PC] = p + 4 /\ v[5] = x
                     /\ m'.left = "fault" => m'.f = m.f
<1> DEFINE i == Two("BIS", Imm, Rg(5))
           r == [m.r EXCEPT ![PC] = p + 2]
           s == [r EXCEPT ![PC] = p + 4]
<1>1. Executes(p, i, r) /\ i.op = "BIS" /\ "BIS" \in TwoOperands
  BY DEF Executes, Two, Instruction, TwoOperands
<1> HIDE DEF r, i
<1>2. r[PC] = p + 2 /\ r[5] = m.r[5] /\ r \in [0 .. 7 -> Long] /\ p \in Int /\ (p + 2) + 2 = p + 4
  BY <1>1, ExecutesTyped, Registered
<1>3. Data(n).n % 2^W = n
  BY Sizes DEF Data, Instruction
<1>4. Loads(Imm, 2, r, m.core, p + 2, s, n)
  <2>1. Loads(Imm, 2, r, m.core, p + 2, [r EXCEPT ![PC] = (p + 2) + 2], Data(n).n % 2^W)
    BY <1>2, ImmLoads
  <2> QED BY <1>2, <1>3, <2>1
<1>5. s[5] = m.r[5] /\ s[PC] = p + 4 /\ DOMAIN s = 0 .. 7
  BY <1>2, Registered
<1> HIDE DEF s
<1> DEFINE z == Computed2("BIS", n, s[5] % 2^W, 2, m.f)
           v == [s EXCEPT ![5] = x]
<1>6. z.store /\ z.val = x /\ z.f.c = m.f.c /\ x % 2^(2 * W) = x
  <2>1. s[5] % 2^W = m.r[5]
    BY <1>5, Sizes
  <2> QED BY <2>1, SmallSums DEF Computed2, BIS, Logical, Result
<1> HIDE DEF z
<1>7. Goes(IF z.store THEN [s EXCEPT ![5] = z.val % 2^(2 * W)] ELSE s, z.f, m.core)
  BY <1>1, <1>4, Registered, BinaryRegister DEF z, i
<1>8. v[PC] = p + 4 /\ v[5] = x
  BY <1>5, Registered
<1> HIDE DEF v
<1>9. Goes(v, z.f, m.core)
  BY <1>6, <1>7 DEF v
<1>10. m'.left = "fault" => m'.f = m.f
  BY <1>1, BinaryKeepsFlags
<1> QED BY <1>6, <1>8, <1>9, <1>10

\* Each step of a routine that looks at V and C, and each abort, keeps its
\* assertion.
LEMMA OverflowKept ==
    ASSUME TypeOK, Hosted, Step, NEW op \in Telling, routine = Overflow(op),
           OverflowAt(op, start, m.r, m.f, m.core)
    PROVE  /\ m'.left \in {"no", "fault"}
           /\ Runs(m') => OverflowAt(op, start, m'.r, m'.f, m'.core)
           /\ m'.left = "fault" => /\ m'.pc = m.r[PC] /\ m'.core = m.core
                                   /\ OverflowAt(op, start, m.r, m'.f, m.core)
<1> DEFINE r == [m.r EXCEPT ![PC] = m.r[PC] + 2]
           t == Told(op, start)
<1>0. t.v \in BOOLEAN /\ t.c \in BOOLEAN
  <2>1. start.core[A] \in Word /\ start.core[B] \in Word /\ start.f \in Flags /\ 2 \in {1, 2}
    BY PlainCells, PlainFacts DEF TypeOK, Machine
  <2>2. CASE op \in TwoOperands
    <3>1. Computed2(op, start.core[A], start.core[B], 2, start.f) \in Results
      BY <2>1, <2>2, Computed2Typed
    <3> QED BY <2>2, <3>1 DEF Results, Flags, Told
  <2>3. CASE op \notin TwoOperands
    <3>1. op \in OneOperand
      BY <2>3 DEF Telling, TwoOperands, OneOperand
    <3>2. Computed1(op, start.core[B], 2, start.f) \in Results
      BY <2>1, <3>1, Computed1Typed
    <3> QED BY <2>3, <3>2 DEF Results, Flags, Told
  <2> QED BY <2>2, <2>3
<1> HIDE DEF t
<1>1. CASE m.r[PC] = 0
  <2>1. PICK d : Goes(r, t, d)
    BY <1>1, OverflowTells DEF t
  <2>2. Executes(0, Instruction(op, 2, At(1), At(2), 0), r)
    BY <1>1, OverflowText DEF Executes
  <2> HIDE DEF r
  <2>3. r[PC] = 2 /\ r[5] = 0
    BY <1>1, <2>2, ExecutesTyped, Registered DEF OverflowAt
  <2> QED BY <1>1, <2>1, <2>3 DEF Goes, Becomes, OverflowAt, t
<1>2. CASE m.r[PC] = 2
  <2>1. Executes(2, Go("BVC", 2), r) /\ "BVC" \in Branches
    BY <1>2, OverflowText DEF Executes, Branches
  <2> HIDE DEF r
  <2>2. r[PC] = 4 /\ r[5] = 0 /\ r \in [0 .. 7 -> Long] /\ m.f = t
    BY <1>2, <2>1, ExecutesTyped, Registered DEF OverflowAt, t
  <2>3. (2 + 2 + 2 * 2) % 2^(2 * W) = 8
    BY Sizes
  <2>4. Goes(IF Taken("BVC", m.f) THEN [r EXCEPT ![PC] = 8] ELSE r, m.f, m.core) /\ Runs(m')
    BY <2>1, <2>3, BranchGoes
  <2>5. Taken("BVC", m.f) <=> ~t.v
    BY <1>0, <2>2 DEF Taken
  <2> DEFINE v == IF Taken("BVC", m.f) THEN [r EXCEPT ![PC] = 8] ELSE r
  <2>6. v[5] = 0 /\ v[PC] = IF Taken("BVC", m.f) THEN 8 ELSE 4
    BY <2>2, Registered
  <2> HIDE DEF v
  <2>7. Goes(v, m.f, m.core)
    BY <2>4 DEF v
  <2> QED BY <2>2, <2>4, <2>5, <2>6, <2>7 DEF Goes, Becomes, OverflowAt, Runs, t
<1>3. CASE m.r[PC] = 4
  <2>1. m.r[5] = 0 /\ t.v /\ m.f.c = t.c
    BY <1>3 DEF OverflowAt, t
  <2>2. 1 = Or(1, m.r[5]) /\ 1 \in Word /\ 4 + 2 = 6 /\ 4 + 4 = 8
    BY <2>1, LowestBits, Sizes
  <2>3. PICK v, f : /\ Goes(v, f, m.core) /\ f.c = m.f.c /\ v[PC] = 4 + 4 /\ v[5] = 1
                    /\ m'.left = "fault" => m'.f = m.f
    BY <1>3, <2>1, <2>2, OverflowText, OverflowSets
  <2> QED BY <1>3, <2>1, <2>2, <2>3 DEF Goes, Becomes, OverflowAt, t
<1>4. CASE m.r[PC] = 8
  <2>1. Executes(8, Go("BCC", 2), r) /\ "BCC" \in Branches
    BY <1>4, OverflowText DEF Executes, Branches
  <2> HIDE DEF r
  <2>2. /\ r[PC] = 10 /\ r[5] = (IF t.v THEN 1 ELSE 0) /\ r \in [0 .. 7 -> Long]
        /\ m.f.c = t.c
    BY <1>4, <2>1, ExecutesTyped, Registered DEF OverflowAt, t
  <2>3. (8 + 2 + 2 * 2) % 2^(2 * W) = 14
    BY Sizes
  <2>4. Goes(IF Taken("BCC", m.f) THEN [r EXCEPT ![PC] = 14] ELSE r, m.f, m.core) /\ Runs(m')
    BY <2>1, <2>3, BranchGoes
  <2>5. Taken("BCC", m.f) <=> ~t.c
    BY <1>0, <2>2 DEF Taken
  <2> DEFINE v == IF Taken("BCC", m.f) THEN [r EXCEPT ![PC] = 14] ELSE r
  <2>6. v[5] = (IF t.v THEN 1 ELSE 0) /\ v[PC] = IF Taken("BCC", m.f) THEN 14 ELSE 10
    BY <2>2, Registered
  <2> HIDE DEF v
  <2>7. Goes(v, m.f, m.core)
    BY <2>4 DEF v
  <2> QED BY <2>2, <2>4, <2>5, <2>6, <2>7 DEF Goes, Becomes, OverflowAt, Runs, t
<1>5. CASE m.r[PC] = 10
  <2>1. m.r[5] = (IF t.v THEN 1 ELSE 0) /\ t.c
    BY <1>5 DEF OverflowAt, t
  <2> DEFINE x == Or(2, m.r[5])
  <2>2. x = (IF t.v THEN 3 ELSE 2) /\ x \in Word /\ 10 + 2 = 12 /\ 10 + 4 = 14
    BY <2>1, LowestBits, Sizes
  <2> HIDE DEF x
  <2>3. PICK v, f : Goes(v, f, m.core) /\ v[PC] = 14 /\ v[5] = x
    BY <1>5, <2>1, <2>2, OverflowText, OverflowSets DEF x
  <2>4. x = (IF t.v THEN 1 ELSE 0) + (IF t.c THEN 2 ELSE 0)
    BY <1>0, <2>1, <2>2
  <2>5. OverflowAt(op, start, v, f, m.core)
    BY <2>3, <2>4 DEF OverflowAt, t
  <2> QED BY <1>5, <2>3, <2>5 DEF Goes, Becomes, OverflowAt
<1>6. m.r[PC] # 14
  BY OverflowText, Numbers, EndsBehind
<1> QED BY <1>1, <1>2, <1>3, <1>4, <1>5, <1>6 DEF OverflowAt

-----------------------------------------------------------------------------
\* SOB counts a register of a few down.
LEMMA SobGoes ==
    ASSUME NEW p, NEW q \in 0 .. SP, NEW n, NEW r, Executes(p, SobBack(q, n), r),
           NEW k \in 1 .. 3, r[q] = k, NEW t, (r[PC] - 2 * n) % 2^(2 * W) = t
    PROVE  Goes(IF k # 1 THEN With(With(r, q, k - 1), PC, t) ELSE With(r, q, k - 1), m.f, m.core)
<1> DEFINE i == SobBack(q, n)
           s == With(r, q, k - 1)
           x == (r[i.s.reg] - 1) % 2^(2 * W)
<1>1. i.op = "SOB" /\ i.n = n /\ i.s.reg = q /\ i.op # "MARK"
  BY DEF SobBack, Instruction, Rg
<1> HIDE DEF i
<1>2. Executes(p, i, r) /\ r[PC] = p + 2
  BY ExecutesTyped DEF i
<1>3. x = k - 1
  <2>1. (k - 1) % 2^(2 * W) = k - 1
    BY Sizes
  <2> QED BY <1>1, <2>1
<1> HIDE DEF x
<1>4. s = [r EXCEPT ![i.s.reg] = x] /\ (x # 0 <=> k # 1)
  BY <1>1, <1>3 DEF With
<1> HIDE DEF s
<1>5. Becomes(IF x # 0 THEN [s EXCEPT ![PC] = (r[PC] - 2 * i.n) % 2^(2 * W)] ELSE s, m.f, m.core)
  BY <1>1, <1>2, <1>4, SOBStep DEF x
<1>6. m'.left = "fault" => m'.pc = m.r[PC] /\ m'.core = m.core
  BY <1>1, <1>2, AbortLeaves
<1>7. (r[PC] - 2 * i.n) % 2^(2 * W) = t
  <2>1. i.n = n
    BY <1>1
  <2> QED BY <2>1
<1> DEFINE v == IF x # 0 THEN [s EXCEPT ![PC] = (r[PC] - 2 * i.n) % 2^(2 * W)] ELSE s
<1>8. v = IF k # 1 THEN With(s, PC, t) ELSE s
  BY <1>4, <1>7 DEF With
<1> HIDE DEF v
<1>9. Goes(v, m.f, m.core)
  BY <1>5, <1>6 DEF Goes, v
<1> QED BY <1>8, <1>9 DEF s

\* k words have been copied.
CopyAt(s, r, f, c) ==
    /\ r[PC] \in {0, 2, 4}
    /\ c[A] = s.core[A] /\ c[A + 2] = s.core[A + 2] /\ c[A + 4] = s.core[A + 4]
    /\ \E k \in 0 .. 3 : /\ r[1] = A + 2 * k /\ r[2] = B + 2 * k
                         /\ r[PC] = 0 => k < 3 /\ r[0] = 3 - k
                         /\ r[PC] = 2 => k > 0 /\ r[0] = 4 - k
                         /\ r[PC] = 4 => k = 3 /\ r[0] = 0
                         /\ k > 0 => c[B] = s.core[A]
                         /\ k > 1 => c[B + 2] = s.core[A + 2]
                         /\ k > 2 => c[B + 4] = s.core[A + 4]

\* What lies in the text of the copying routine.
LEMMA CopyText ==
    ASSUME routine = CopyWords
    PROVE  /\ Lies(0, Two("MOV", Inc(1), Inc(2))) /\ Lies(2, SobBack(0, 2))
           /\ DOMAIN routine.text = 1 .. 2
<1> DEFINE t == routine.text
<1>1. t = <<Two("MOV", Inc(1), Inc(2)), SobBack(0, 2)>>
  BY DEF CopyWords, Routine
<1>2. DOMAIN t = 1 .. 2 /\ t[1] = Two("MOV", Inc(1), Inc(2)) /\ t[2] = SobBack(0, 2)
  BY <1>1
<1> QED BY <1>2, Numbers, LiesAt

\* Each step of the copying routine, and each abort, keeps its assertion.
LEMMA CopyKept ==
    ASSUME TypeOK, Hosted, Step, routine = CopyWords, CopyAt(start, m.r, m.f, m.core)
    PROVE  /\ m'.left \in {"no", "fault"}
           /\ Runs(m') => CopyAt(start, m'.r, m'.f, m'.core)
           /\ m'.left = "fault" => /\ m'.pc = m.r[PC] /\ m'.core = m.core
                                   /\ CopyAt(start, m.r, m'.f, m.core)
<1> DEFINE r == [m.r EXCEPT ![PC] = m.r[PC] + 2]
<1>0. PICK k \in 0 .. 3 :
           /\ m.r[1] = A + 2 * k /\ m.r[2] = B + 2 * k
           /\ m.r[PC] = 0 => k < 3 /\ m.r[0] = 3 - k
           /\ m.r[PC] = 2 => k > 0 /\ m.r[0] = 4 - k
           /\ m.r[PC] = 4 => k = 3 /\ m.r[0] = 0
           /\ k > 0 => m.core[B] = start.core[A]
           /\ k > 1 => m.core[B + 2] = start.core[A + 2]
           /\ k > 2 => m.core[B + 4] = start.core[A + 4]
  BY DEF CopyAt
<1>1. CASE m.r[PC] = 0
  <2> DEFINE a == A + 2 * k
             b == B + 2 * k
             s == [r EXCEPT ![1] = a + 2]
             v == [s EXCEPT ![2] = b + 2]
             d == [m.core EXCEPT ![b] = m.core[a]]
  <2>1. Executes(0, Two("MOV", Inc(1), Inc(2)), r)
    BY <1>1, CopyText DEF Executes
  <2> HIDE DEF r
  <2>2. /\ r[PC] = 2 /\ r \in [0 .. 7 -> Long] /\ r[0] = 3 - k /\ r[1] = a /\ r[2] = b
        /\ k \in {0, 1, 2} /\ m.core \in [Cells -> Word]
    BY <1>0, <1>1, <2>1, ExecutesTyped, Registered
  <2>3. /\ Plain(a) /\ Plain(b) /\ a \in {A, A + 2, A + 4} /\ b \in {B, B + 2, B + 4}
        /\ a + 2 = A + 2 * (k + 1) /\ b + 2 = B + 2 * (k + 1) /\ m.core[a] = start.core[a]
    <3>1. A \in Int /\ B \in Int
      BY Places
    <3>2. CASE k = 0
      BY <3>1, <3>2, PlainCells DEF CopyAt
    <3>3. CASE k = 1
      BY <3>1, <3>3, PlainCells DEF CopyAt
    <3>4. CASE k = 2
      BY <3>1, <3>4, PlainCells DEF CopyAt
    <3> QED BY <2>2, <3>2, <3>3, <3>4
  <2>4. s[PC] = 2 /\ s[2] = b /\ s[0] = 3 - k /\ s[1] = a + 2 /\ DOMAIN s = 0 .. 7
    BY <2>2, Registered
  <2>5. v[PC] = 2 /\ v[2] = b + 2 /\ v[0] = 3 - k /\ v[1] = a + 2
    BY <2>4, Registered
  <2>6. \A x \in Cells : d[x] = IF x = b THEN m.core[a] ELSE m.core[x]
    BY <2>2
  <2>7. m.core[a] \in Word
    BY <2>2, <2>3, PlainFacts
  <2>8. Finds(Inc(1), 2, r, m.core, a, s) /\ Finds(Inc(2), 2, s, m.core, b, v)
    BY <2>2, <2>3, <2>4, IncFinds, Registered
  <2> HIDE DEF s, v, d, a, b
  <2>9. Goes(v, Logical(m.core[a], 2, m.f).f, d)
    BY <2>1, <2>3, <2>7, <2>8, PlainLoads, MoveToCell, SMTT(60) DEF d
  <2>10. /\ d[A] = start.core[A] /\ d[A + 2] = start.core[A + 2] /\ d[A + 4] = start.core[A + 4]
         /\ d[B] = start.core[A]
         /\ k > 0 => d[B + 2] = start.core[A + 2]
         /\ k > 1 => d[B + 4] = start.core[A + 4]
    <3>1. /\ A \in Int /\ 32 <= A /\ B = 2 * A
          /\ A \in Cells /\ A + 2 \in Cells /\ A + 4 \in Cells
          /\ B \in Cells /\ B + 2 \in Cells /\ B + 4 \in Cells
      BY Places, PlainCells, PlainFacts
    <3>2. /\ m.core[A] = start.core[A] /\ m.core[A + 2] = start.core[A + 2]
          /\ m.core[A + 4] = start.core[A + 4]
      BY DEF CopyAt
    <3>3. CASE k = 0
      BY <1>0, <2>3, <2>6, <3>1, <3>2, <3>3
    <3>4. CASE k = 1
      BY <1>0, <2>3, <2>6, <3>1, <3>2, <3>4
    <3>5. CASE k = 2
      BY <1>0, <2>3, <2>6, <3>1, <3>2, <3>5
    <3> QED BY <2>2, <3>3, <3>4, <3>5
  <2> DEFINE n == k + 1
  <2>11. /\ n \in 0 .. 3 /\ n > 0 /\ v[1] = A + 2 * n /\ v[2] = B + 2 * n /\ v[0] = 4 - n
         /\ n > 1 => d[B + 2] = start.core[A + 2]
         /\ n > 2 => d[B + 4] = start.core[A + 4]
    BY <2>2, <2>3, <2>5, <2>10
  <2> HIDE DEF n
  <2>12. CopyAt(start, v, Logical(m.core[a], 2, m.f).f, d)
    BY <2>5, <2>10, <2>11 DEF CopyAt
  <2> QED BY <1>1, <2>9, <2>12 DEF Goes, Becomes, CopyAt
<1>2. CASE m.r[PC] = 2
  <2> DEFINE j == 4 - k
             v == IF j # 1 THEN With(With(r, 0, j - 1), PC, 0) ELSE With(r, 0, j - 1)
  <2>1. Executes(2, SobBack(0, 2), r)
    BY <1>2, CopyText DEF Executes
  <2> HIDE DEF r
  <2>2. /\ r[PC] = 4 /\ r \in [0 .. 7 -> Long] /\ r[0] = j /\ j \in 1 .. 3
        /\ r[1] = A + 2 * k /\ r[2] = B + 2 * k
    BY <1>0, <1>2, <2>1, ExecutesTyped, Registered
  <2>3. (r[PC] - 2 * 2) % 2^(2 * W) = 0 /\ 0 \in 0 .. SP
    <3>1. (4 - 2 * 2) % 2^(2 * W) = 0
      BY Sizes
    <3> QED BY <2>2, <3>1, Registered
  <2> HIDE DEF j
  <2>4. /\ v[PC] = (IF j # 1 THEN 0 ELSE 4) /\ v[0] = j - 1 /\ v[1] = A + 2 * k /\ v[2] = B + 2 * k
    BY <2>2, Registered DEF With
  <2>5. Goes(v, m.f, m.core)
    BY <2>1, <2>2, <2>3, SobGoes
  <2> HIDE DEF v
  <2>6. CopyAt(start, v, m.f, m.core)
    <3>1. j - 1 = 3 - k /\ (j # 1 <=> k < 3) /\ k > 0
      BY <2>2 DEF j
    <3>2. v[PC] = (IF k < 3 THEN 0 ELSE 4) /\ v[0] = 3 - k /\ v[1] = A + 2 * k /\ v[2] = B + 2 * k
      BY <2>4, <3>1
    <3> QED BY <1>0, <3>1, <3>2 DEF CopyAt
  <2> QED BY <1>2, <2>5, <2>6 DEF Goes, Becomes, CopyAt
<1>3. m.r[PC] # 4
  BY CopyText, Numbers, EndsBehind
<1> QED BY <1>1, <1>2, <1>3 DEF CopyAt

-----------------------------------------------------------------------------
\* The byte at address a, in core c.
ByteIn(c, a) == IF a % 2 = 1 THEN c[a - 1] \div ByteSize ELSE c[a] % ByteSize

\* Core d is c but for the byte at a, which is x.
Puts(c, a, x, d) ==
    /\ ByteIn(d, a) = x
    /\ \A e : Plain(e) => /\ e + 0 # a => ByteIn(d, e) = ByteIn(c, e)
                          /\ e + 1 # a => ByteIn(d, e + 1) = ByteIn(c, e + 1)

\* The two bytes of a plain cell.
LEMMA PlainBytes ==
    ASSUME NEW e, Plain(e)
    PROVE  /\ e % 2 = 0 /\ (e + 1) % 2 = 1 /\ (e + 1) - 1 = e /\ e \in Int /\ e + 0 = e
           /\ e \in Word /\ e + 1 \in Word /\ ~IsReg(e) /\ ~IsReg(e + 1) /\ e \in Cells
           /\ \A c : /\ ByteIn(c, e) = c[e] % ByteSize
                     /\ ByteIn(c, e + 1) = c[e] \div ByteSize
<1>1. e \in Int /\ 32 <= e /\ e < Pseudo /\ e % 2 = 0 /\ e \in Cells
  BY DEF Plain
<1>2. e % 2 = 0 /\ (e + 1) % 2 = 1 /\ (e + 1) - 1 = e /\ e + 0 = e
  BY <1>1
<1>3. Pseudo \in Int /\ Pseudo % 2 = 0
  BY Sizes
<1>4. e + 1 < Pseudo
  BY <1>1, <1>2, <1>3
<1>5. e \in Word /\ e + 1 \in Word /\ ~IsReg(e) /\ ~IsReg(e + 1)
  BY <1>1, <1>4, Places DEF Word, IsReg
<1> QED BY <1>1, <1>2, <1>5 DEF ByteIn

\* Storing half of a word puts one byte.
LEMMA BytePut ==
    ASSUME NEW c, NEW e, Plain(e), c[e] \in Word, e \in DOMAIN c, NEW n \in {0, 1},
           NEW x \in 0 .. ByteSize - 1, NEW a, a = e + n, NEW w, w = c[e], NEW d,
           d = [c EXCEPT ![e] = IF n = 1 THEN x * ByteSize + (w % ByteSize)
                                ELSE (w \div ByteSize) * ByteSize + x]
    PROVE  Puts(c, a, x, d)
<1> DEFINE q == w \div ByteSize
           r == w % ByteSize
           y == IF n = 1 THEN x * ByteSize + r ELSE q * ByteSize + x
<1>1. ByteSize \in Nat \ {0} /\ w \in Int
  BY WordFacts, WordsInt
<1>2. q \in Int /\ r \in 0 .. ByteSize - 1
  BY <1>1, Remainders
<1>3. d[e] = y /\ \A z : z # e /\ z \in DOMAIN c => d[z] = c[z]
  OBVIOUS
<1>4. \A z : z # e => d[z] = c[z] \/ z \notin DOMAIN c
  BY <1>3
<1>5. ByteIn(c, e) = r /\ ByteIn(c, e + 1) = q
  BY PlainBytes
<1>6. ByteIn(d, e) = y % ByteSize /\ ByteIn(d, e + 1) = y \div ByteSize
  <2>1. ByteIn(d, e) = d[e] % ByteSize /\ ByteIn(d, e + 1) = d[e] \div ByteSize
    <3> QED BY PlainBytes
  <2> QED BY <1>3, <2>1
<1> HIDE DEF q, r
<1>7. IF n = 1 THEN y \div ByteSize = x /\ y % ByteSize = r
      ELSE y \div ByteSize = q /\ y % ByteSize = x
  <2>1. CASE n = 1
    <3>1. y = ByteSize * x + r /\ x \in Int
      BY <1>1, <1>2, <2>1
    <3> HIDE DEF y
    <3>2. y \div ByteSize = x /\ y % ByteSize = r
      BY <1>1, <1>2, <3>1, Divided
    <3> QED BY <2>1, <3>2
  <2>2. CASE n = 0
    <3>1. y = ByteSize * q + x
      BY <1>1, <1>2, <2>2
    <3> HIDE DEF y
    <3>2. y \div ByteSize = q /\ y % ByteSize = x
      BY <1>1, <1>2, <3>1, Divided
    <3> QED BY <2>2, <3>2
  <2> QED BY <2>1, <2>2
<1> HIDE DEF y
<1>8. ByteIn(d, a) = x
  BY <1>6, <1>7, PlainBytes
<1>9. ASSUME NEW g, Plain(g)
      PROVE  /\ g + 0 # a => ByteIn(d, g) = ByteIn(c, g)
             /\ g + 1 # a => ByteIn(d, g + 1) = ByteIn(c, g + 1)
  <2>1. CASE g = e
    BY <1>5, <1>6, <1>7, <2>1, PlainBytes
  <2>2. CASE g # e
    <3>1. d[g] = c[g]
      BY <2>2
    <3>2. /\ ByteIn(d, g) = d[g] % ByteSize /\ ByteIn(d, g + 1) = d[g] \div ByteSize
          /\ ByteIn(c, g) = c[g] % ByteSize /\ ByteIn(c, g + 1) = c[g] \div ByteSize
      BY <1>9, PlainBytes
    <3> QED BY <3>1, <3>2
  <2> QED BY <2>1, <2>2
<1> QED BY <1>8, <1>9 DEF Puts

\* Loading it yields that byte.
LEMMA ByteInLoads ==
    ASSUME NEW o, NEW r, NEW c \in [Cells -> Word], NEW g, Plain(g), NEW n \in {0, 1},
           NEW a, a = g + n, NEW s, Finds(o, 1, r, c, a, s)
    PROVE  Loads(o, 1, r, c, a, s, ByteIn(c, a)) /\ ByteIn(c, a) \in 0 .. ByteSize - 1
<1>1. g \in Int /\ a - n = g /\ (n = 0 => a = g) /\ a % 2 = n
  BY PlainBytes
<1>2. Loads(o, 1, r, c, a, s, IF n = 1 THEN c[a - n] \div ByteSize ELSE c[a - n] % ByteSize)
  BY <1>1, ByteLoads
<1>3. ByteIn(c, a) = IF n = 1 THEN c[g] \div ByteSize ELSE c[g] % ByteSize
  BY <1>1 DEF ByteIn
<1>4. c[g] \in Word
  BY PlainFacts
<1>5. \A w \in Word : w \div ByteSize \in 0 .. ByteSize - 1 /\ w % ByteSize \in 0 .. ByteSize - 1
  <2> TAKE w \in Word
  <2>1. w \in Int /\ 0 <= w /\ w < 2^W
    BY Sizes
  <2>2. 2^W = ByteSize * ByteSize /\ ByteSize \in Nat \ {0}
    BY Sizes
  <2>3. CASE ByteSize = 16
    BY <2>1, <2>2, <2>3
  <2>4. CASE ByteSize = 256
    BY <2>1, <2>2, <2>4
  <2> QED BY <2>3, <2>4, Sizes
<1> QED BY <1>1, <1>2, <1>3, <1>4, <1>5

\* A byte moved to a byte of a cell.
LEMMA MoveByte ==
    ASSUME NEW p, NEW o, NEW e, NEW r, Executes(p, TwoB("MOV", o, e), r),
           NEW a, NEW s, NEW x \in 0 .. ByteSize - 1, Loads(o, 1, r, m.core, a, s, x),
           NEW g, Plain(g), NEW n \in {0, 1}, NEW b, b = g + n, NEW t,
           Finds(e, 1, s, m.core, b, t)
    PROVE  \E d : Goes(t, Logical(x, 1, m.f).f, d) /\ Puts(m.core, b, x, d)
<1> DEFINE i == TwoB("MOV", o, e)
           w == m.core[g]
           y == IF n = 1 THEN x * ByteSize + (w % ByteSize) ELSE (w \div ByteSize) * ByteSize + x
           d == [m.core EXCEPT ![g] = y]
<1>1. i.op = "MOV" /\ i.l = 1 /\ i.s = o /\ i.d = e /\ x \in Int /\ ByteSize \in Nat \ {0}
  BY WordFacts DEF TwoB, Instruction
<1> HIDE DEF i
<1>2. Executes(p, i, r) /\ m.core \in [Cells -> Word]
  BY ExecutesTyped DEF i
<1>3. /\ g \in Int /\ b \in Int /\ b % 2 = n /\ b - n = g /\ (n = 0 => b = g) /\ ~IsReg(b) /\ g \in Cells
      /\ w \in Word
  <2>1. g \in Int /\ g % 2 = 0 /\ (g + 1) % 2 = 1 /\ ~IsReg(g) /\ ~IsReg(g + 1) /\ g \in Cells
    BY PlainBytes
  <2>2. CASE n = 0
    BY <1>2, <2>1, <2>2
  <2>3. CASE n = 1
    BY <1>2, <2>1, <2>3
  <2> QED BY <2>2, <2>3
<1>4. x % ByteSize = x
  BY <1>1, Small
<1>5. Writes(b, 1, x, t, m.core, t, d)
  <2>1. /\ b - (b % 2) = g
        /\ y = IF b % 2 = 1 THEN (x % ByteSize) * ByteSize + (m.core[b - 1] % ByteSize)
               ELSE (m.core[b] \div ByteSize) * ByteSize + (x % ByteSize)
    BY <1>3, <1>4
  <2> HIDE DEF y
  <2> QED BY <1>3, <2>1 DEF Writes
<1>6. Puts(m.core, b, x, d)
  BY <1>2, <1>3, BytePut
<1> HIDE DEF d
<1>7. MovedWord(x, 1, b) = x /\ (IF IsReg(b) THEN 2 ELSE 1) = 1
  BY <1>3 DEF MovedWord
<1>8. Becomes(t, Logical(x, 1, m.f).f, d)
  BY <1>1, <1>2, <1>5, <1>7, MoveStep
<1>9. m'.left = "fault" => m'.pc = m.r[PC] /\ m'.core = m.core
  BY <1>1, <1>2, AbortLeaves
<1> QED BY <1>6, <1>8, <1>9 DEF Goes

\* Autoincrement through bytes, which need not be even.
LEMMA IncReaches ==
    ASSUME NEW q \in 0 .. 5, NEW l \in {1, 2}, NEW r, NEW c, NEW a \in Word, r[q] = a,
           NEW s, s = [r EXCEPT ![q] = a + l]
    PROVE  Finds(Inc(q), l, r, c, a, s)
<1>1. q \in 0 .. 7 /\ ~(q >= SP)
  BY DEF SP
<1>2. Inc(q) \in Operands /\ Inc(q).mode = 2 /\ Inc(q).reg = q
  BY <1>1, OperandsTyped DEF Inc
<1>3. Stride(Inc(q), l) = l
  BY <1>1, <1>2 DEF Stride
<1> QED BY <1>2, <1>3 DEF Finds

\* The places of six bytes, in three cells each.
LEMMA SixBytes ==
    ASSUME Hosted, NEW x \in 0 .. 5
    PROVE  \E e \in {0, 2, 4}, n \in {0, 1} :
               x = e + n /\ Plain(A + e) /\ Plain(B + e) /\ A + x = (A + e) + n
               /\ B + x = (B + e) + n
<1>1. A + 0 = A /\ B + 0 = B /\ A \in Int /\ B \in Int
  BY Places
<1>2. \A e \in {0, 2, 4} : Plain(A + e) /\ Plain(B + e)
  BY <1>1, PlainCells
<1>3. x = 0 + 0 \/ x = 0 + 1 \/ x = 2 + 0 \/ x = 2 + 1 \/ x = 4 + 0 \/ x = 4 + 1
  OBVIOUS
<1> QED BY <1>1, <1>2, <1>3

\* n bytes have been copied.
StringAt(s, r, f, c) ==
    /\ r[PC] \in {0, 2, 4}
    /\ ByteIn(s.core, A + 4) = 0
    /\ \A x \in 0 .. 5 : ByteIn(c, A + x) = ByteIn(s.core, A + x)
    /\ \E n \in 0 .. 5 :
           /\ r[1] = A + n /\ r[2] = B + n
           /\ \A x \in 0 .. 5 : ByteIn(c, B + x) = IF x < n THEN ByteIn(s.core, A + x) ELSE 0
           /\ \A x \in 0 .. 5 : x + 1 < n => ByteIn(s.core, A + x) # 0
           /\ r[PC] = 0 => n < 5 /\ \A x \in 0 .. 5 : x < n => ByteIn(s.core, A + x) # 0
           /\ r[PC] = 2 => n > 0 /\ (f.z <=> ByteIn(s.core, A + (n - 1)) = 0)
           /\ r[PC] = 4 => n > 0 /\ ByteIn(s.core, A + (n - 1)) = 0

\* What lies in the text of the string routine.
LEMMA StringText ==
    ASSUME routine = CopyString
    PROVE  /\ Lies(0, TwoB("MOV", Inc(1), Inc(2))) /\ Lies(2, Go("BNE", -2))
           /\ DOMAIN routine.text = 1 .. 2
<1> DEFINE t == routine.text
<1>1. t = <<TwoB("MOV", Inc(1), Inc(2)), Go("BNE", -2)>>
  BY DEF CopyString, Routine
<1>2. DOMAIN t = 1 .. 2 /\ t[1] = TwoB("MOV", Inc(1), Inc(2)) /\ t[2] = Go("BNE", -2)
  BY <1>1
<1> QED BY <1>2, Numbers, LiesAt

\* Each step of the string routine, and each abort, keeps its assertion.
LEMMA StringKept ==
    ASSUME TypeOK, Hosted, Step, routine = CopyString, StringAt(start, m.r, m.f, m.core)
    PROVE  /\ m'.left \in {"no", "fault"}
           /\ Runs(m') => StringAt(start, m'.r, m'.f, m'.core)
           /\ m'.left = "fault" => /\ m'.pc = m.r[PC] /\ m'.core = m.core
                                   /\ StringAt(start, m.r, m'.f, m.core)
<1> DEFINE r == [m.r EXCEPT ![PC] = m.r[PC] + 2]
           S(x) == ByteIn(start.core, A + x)
<1>0. PICK n \in 0 .. 5 :
           /\ m.r[1] = A + n /\ m.r[2] = B + n
           /\ \A x \in 0 .. 5 : ByteIn(m.core, B + x) = IF x < n THEN S(x) ELSE 0
           /\ \A x \in 0 .. 5 : x + 1 < n => S(x) # 0
           /\ m.r[PC] = 0 => n < 5 /\ \A x \in 0 .. 5 : x < n => S(x) # 0
           /\ m.r[PC] = 2 => n > 0 /\ (m.f.z <=> S(n - 1) = 0)
           /\ m.r[PC] = 4 => n > 0 /\ S(n - 1) = 0
  BY DEF StringAt
<1>a. S(4) = 0 /\ \A x \in 0 .. 5 : ByteIn(m.core, A + x) = S(x)
  BY DEF StringAt
<1> HIDE DEF S
<1>1. CASE m.r[PC] = 0
  <2> DEFINE a == A + n
             b == B + n
             s == [r EXCEPT ![1] = a + 1]
             v == [s EXCEPT ![2] = b + 1]
             y == ByteIn(m.core, a)
             f == Logical(y, 1, m.f).f
  <2>1. Executes(0, TwoB("MOV", Inc(1), Inc(2)), r)
    BY <1>1, StringText DEF Executes
  <2> HIDE DEF r
  <2>2. /\ r[PC] = 2 /\ r \in [0 .. 7 -> Long] /\ r[1] = a /\ r[2] = b /\ n \in 0 .. 4
        /\ m.core \in [Cells -> Word]
    BY <1>0, <1>1, <2>1, ExecutesTyped, Registered
  <2>3. PICK e \in {0, 2, 4}, k \in {0, 1} :
             n = e + k /\ Plain(A + e) /\ Plain(B + e) /\ a = (A + e) + k /\ b = (B + e) + k
    BY <1>0, SixBytes
  <2>4. a \in Word /\ b \in Word /\ a + 1 = A + (n + 1) /\ b + 1 = B + (n + 1) /\ n + 1 \in 1 .. 5
    <3>1. A \in Int /\ B \in Int
      BY Places
    <3>2. \A g : Plain(g) => g \in Word /\ g + 1 \in Word /\ g + 0 = g
      BY PlainBytes
    <3>3. (A + e) + k \in Word /\ (B + e) + k \in Word
      BY <2>3, <3>2
    <3> QED BY <2>2, <2>3, <3>1, <3>3
  <2>5. s[PC] = 2 /\ s[2] = b /\ s[1] = a + 1 /\ DOMAIN s = 0 .. 7
    BY <2>2, Registered
  <2>6. v[PC] = 2 /\ v[2] = b + 1 /\ v[1] = a + 1
    BY <2>5, Registered
  <2> HIDE DEF a, b
  <2>a. s = [r EXCEPT ![1] = a + 1] /\ v = [s EXCEPT ![2] = b + 1]
    OBVIOUS
  <2> HIDE DEF s, v
  <2>7. Finds(Inc(1), 1, r, m.core, a, s)
    BY <2>2, <2>4, <2>a, IncReaches, Registered
  <2>8. Finds(Inc(2), 1, s, m.core, b, v)
    BY <2>4, <2>5, <2>a, IncReaches, Registered
  <2>9. Loads(Inc(1), 1, r, m.core, a, s, y) /\ y \in 0 .. ByteSize - 1
    BY <2>2, <2>3, <2>7, ByteInLoads
  <2>10. y = S(n)
    BY <1>0, <1>a DEF a
  <2> HIDE DEF y
  <2>11. PICK d : Goes(v, f, d) /\ Puts(m.core, b, y, d)
    BY <2>1, <2>3, <2>8, <2>9, MoveByte
  <2>12. f.z <=> y = 0
    BY DEF Logical, Result
  <2> HIDE DEF f
  <2>13. ASSUME NEW x \in 0 .. 5
         PROVE  /\ ByteIn(d, A + x) = S(x)
                /\ ByteIn(d, B + x) = IF x < n + 1 THEN S(x) ELSE 0
    <3>1. PICK g \in {0, 2, 4}, j \in {0, 1} :
               x = g + j /\ Plain(A + g) /\ Plain(B + g) /\ A + x = (A + g) + j
               /\ B + x = (B + g) + j
      BY SixBytes
    <3>2. A \in Int /\ 32 <= A /\ B = 2 * A
      BY Places
    <3>3. A + x # b /\ (x # n => B + x # b) /\ (x = n => B + x = b)
      BY <3>2 DEF b
    <3>4. (A + g) + 0 = A + g /\ (B + g) + 0 = B + g
      BY <3>2
    <3>5. ByteIn(d, A + x) = ByteIn(m.core, A + x)
      BY <2>11, <3>1, <3>3, <3>4 DEF Puts
    <3>6. x # n => ByteIn(d, B + x) = ByteIn(m.core, B + x)
      BY <2>11, <3>1, <3>3, <3>4 DEF Puts
    <3>7. x = n => ByteIn(d, B + x) = y
      BY <2>11, <3>3 DEF Puts
    <3>8. x # n => (x < n + 1 <=> x < n)
      OBVIOUS
    <3> QED BY <1>0, <1>a, <2>10, <3>5, <3>6, <3>7, <3>8
  <2> DEFINE k1 == n + 1
  <2>14. /\ k1 \in 0 .. 5 /\ k1 > 0 /\ v[1] = A + k1 /\ v[2] = B + k1 /\ k1 - 1 = n
         /\ \A x \in 0 .. 5 : x + 1 < k1 => S(x) # 0
    <3>1. k1 \in 0 .. 5 /\ k1 > 0 /\ k1 - 1 = n /\ \A x \in 0 .. 5 : x + 1 < k1 => x < n
      BY <2>2
    <3>2. v[1] = A + k1 /\ v[2] = B + k1
      BY <2>4, <2>6
    <3> QED BY <1>0, <1>1, <3>1, <3>2
  <2>15. \A x \in 0 .. 5 : ByteIn(d, A + x) = S(x) /\ ByteIn(d, B + x) = IF x < k1 THEN S(x) ELSE 0
    BY <2>13
  <2> HIDE DEF k1
  <2>16. StringAt(start, v, f, d)
    BY <1>a, <2>6, <2>10, <2>12, <2>14, <2>15 DEF StringAt, S
  <2> QED BY <1>1, <2>11, <2>16 DEF Goes, Becomes, StringAt
<1>2. CASE m.r[PC] = 2
  <2>1. Executes(2, Go("BNE", -2), r) /\ "BNE" \in Branches
    BY <1>2, StringText DEF Executes, Branches
  <2> HIDE DEF r
  <2>2. r[PC] = 4 /\ r \in [0 .. 7 -> Long] /\ r[1] = A + n /\ r[2] = B + n
    BY <1>0, <1>2, <2>1, ExecutesTyped, Registered
  <2>3. (2 + 2 + 2 * (-2)) % 2^(2 * W) = 0
    BY Sizes
  <2> DEFINE v == IF Taken("BNE", m.f) THEN [r EXCEPT ![PC] = 0] ELSE r
  <2>4. Goes(v, m.f, m.core) /\ Runs(m')
    BY <2>1, <2>3, BranchGoes
  <2>5. Taken("BNE", m.f) <=> ~m.f.z
    BY DEF Taken
  <2>6. v[1] = A + n /\ v[2] = B + n /\ v[PC] = IF m.f.z THEN 4 ELSE 0
    <3>1. m.f.z \in BOOLEAN
      BY <2>1, ExecutesTyped DEF Flags
    <3> QED BY <2>2, <2>5, <3>1, Registered
  <2> HIDE DEF v
  <2>7. /\ m.f.z => S(n - 1) = 0
        /\ ~m.f.z => n < 5 /\ \A x \in 0 .. 5 : x < n => S(x) # 0
        /\ n > 0
    <3>1. n > 0 /\ (m.f.z <=> S(n - 1) = 0) /\ \A x \in 0 .. 5 : x + 1 < n => S(x) # 0
      BY <1>0, <1>2
    <3>2. ~m.f.z => n # 5
      <4>1. 5 - 1 = 4
        OBVIOUS
      <4> QED BY <1>a, <3>1, <4>1
    <3>3. \A x \in 0 .. 5 : x < n => x + 1 < n \/ x = n - 1
      OBVIOUS
    <3> QED BY <3>1, <3>2, <3>3
  <2>8. StringAt(start, v, m.f, m.core)
    BY <1>0, <1>a, <2>6, <2>7 DEF StringAt, S
  <2> QED BY <2>4, <2>8 DEF Goes, Becomes, Runs
<1>3. m.r[PC] # 4
  BY StringText, Numbers, EndsBehind
<1> QED BY <1>1, <1>2, <1>3 DEF StringAt

-----------------------------------------------------------------------------
\* Calls and returns.
LEMMA JSRGoes ==
    ASSUME NEW p, NEW q \in 0 .. 7 \ {SP}, NEW r,
           Executes(p, Instruction("JSR", 2, Rg(q), Abs, 0), r), NEW n, Lies(p + 2, Data(n)),
           n \in Int, 0 <= n, n < 32, NEW a, Plain(a), r[SP] = a + 2
    PROVE  Goes(With(With(With(With(r, PC, p + 4), SP, a), q, p + 4), PC, n),
                m.f, With(m.core, a, With(r, PC, p + 4)[q] % 2^W))
<1> DEFINE t == [r EXCEPT ![PC] = p + 4]
           i == Instruction("JSR", 2, Rg(q), Abs, 0)
<1>1. i.op = "JSR" /\ i.s.reg = q /\ i.d = Abs /\ i.op # "MARK"
  BY DEF Instruction, Rg
<1> HIDE DEF i
<1>2. /\ Executes(p, i, r) /\ r[PC] = p + 2 /\ r \in [0 .. 7 -> Long] /\ p \in Int /\ Hosted
      /\ (p + 2) + 2 = p + 4
  <2>1. Executes(p, i, r)
    BY DEF i
  <2>2. r[PC] = p + 2 /\ r \in [0 .. 7 -> Long] /\ p \in Int
    BY <2>1, ExecutesTyped
  <2> QED BY <2>1, <2>2 DEF Executes
<1>3. n \in Word /\ n % 2^W = n /\ ~IsReg(n) /\ Data(n).n = n
  <2>1. n \in Word
    BY Places DEF Word
  <2> QED BY <2>1, SmallSums, Places DEF IsReg, Data, Instruction
<1>4. Finds(Abs, 2, r, m.core, n, t)
  BY <1>2, <1>3, AbsFinds
<1>5. t[SP] = a + 2 /\ t[PC] = p + 4 /\ a \in Cells
  BY <1>2, Registered, PlainFacts
<1> HIDE DEF i
<1>6. Becomes([[[t EXCEPT ![SP] = a] EXCEPT ![q] = t[PC]] EXCEPT ![PC] = n],
              m.f, [m.core EXCEPT ![a] = t[q] % 2^W])
  BY <1>1, <1>2, <1>3, <1>4, <1>5, JSRStep
<1>7. m'.left = "fault" => m'.pc = m.r[PC] /\ m'.core = m.core
  BY <1>1, <1>2, AbortLeaves
<1> QED BY <1>5, <1>6, <1>7 DEF Goes, With

\* RTS of a stack in plain cells.
LEMMA RTSGoes ==
    ASSUME NEW p, NEW q \in 0 .. 7 \ {SP}, NEW r, Executes(p, One("RTS", Rg(q)), r),
           NEW a, Plain(a), r[SP] = a
    PROVE  Goes([[[r EXCEPT ![PC] = r[q]] EXCEPT ![SP] = a + 2] EXCEPT ![q] = m.core[a]],
                m.f, m.core)
<1> DEFINE i == One("RTS", Rg(q))
<1>1. i.op = "RTS" /\ i.d.reg = q /\ i.op # "MARK"
  BY DEF One, Instruction, Rg
<1> HIDE DEF i
<1>2. Executes(p, i, r) /\ a \in Cells
  BY PlainFacts DEF i
<1>3. Becomes([[[r EXCEPT ![PC] = r[q]] EXCEPT ![SP] = a + 2] EXCEPT ![q] = m.core[a]],
              m.f, m.core)
  BY <1>1, <1>2, RTSStep
<1>4. m'.left = "fault" => m'.pc = m.r[PC] /\ m'.core = m.core
  BY <1>1, <1>2, AbortLeaves
<1> QED BY <1>3, <1>4 DEF Goes

\* A word of the text is found behind a register that points to it.
LEMMA IncTextLoads ==
    ASSUME Hosted, NEW q \in 0 .. 5, NEW r, NEW c, NEW p, NEW i, Lies(p, i), r[q] = p
    PROVE  Loads(Inc(q), 2, r, c, p, [r EXCEPT ![q] = p + 2], i.n % 2^W)
<1>1. p \in Word /\ ~IsReg(p) /\ Backed(p) /\ Held(c, p) = i.n % 2^W
  BY LiesFacts
<1>2. Finds(Inc(q), 2, r, c, p, [r EXCEPT ![q] = p + 2])
  BY <1>1, IncReaches
<1> QED BY <1>1, <1>2 DEF Loads, Reads

\* The addresses run through: 0, 2, 10, 14, 22, 24, 20, 6, 8 and 26.
CallsAt(s, r, f, c) ==
    LET x == s.core[A]
    IN /\ r[PC] \in {0, 2, 10, 14, 22, 24, 20, 6, 8, 26}
       /\ r[PC] = 0 => r[1] = A /\ c[A] = x
       /\ r[PC] \in {0, 8, 26} => r[SP] = Top
       /\ r[PC] \in {2, 6} => r[SP] = Top - 2
       /\ r[PC] \in {10, 14, 20} => r[SP] = Top - 4
       /\ r[PC] \in {22, 24} => r[SP] = Top - 6 /\ c[Top - 6] = 0
       /\ r[PC] \in {2, 10} => c[Top - 2] = x
       /\ r[PC] \in {10, 14, 22, 24, 20} => c[Top - 4] = 6
       /\ r[PC] \in {14, 22} => r[0] = x
       /\ r[PC] \in {24, 20, 6, 8, 26} => r[0] = (x + 3) % 2^W
       /\ r[PC] = 22 => r[5] = 18
       /\ r[PC] \notin {22, 24} => r[5] = 0
       /\ r[PC] = 24 => r[5] = 20

\* What lies in the text of the calling routine.
LEMMA CallsText ==
    ASSUME routine = Calls
    PROVE  /\ Lies(0, Two("MOV", At(1), Dec(SP))) /\ Lies(2, Instruction("JSR", 2, Rg(PC), Abs, 0))
           /\ Lies(4, Data(10)) /\ Lies(6, One("TST", Inc(SP))) /\ Lies(8, Go("BR", 8))
           /\ Lies(10, Two("MOV", Idx(SP), Rg(0))) /\ Lies(12, Data(2))
           /\ Lies(14, Instruction("JSR", 2, Rg(5), Abs, 0)) /\ Lies(16, Data(22))
           /\ Lies(18, Data(3)) /\ Lies(20, One("RTS", Rg(PC)))
           /\ Lies(22, Two("ADD", Inc(5), Rg(0))) /\ Lies(24, One("RTS", Rg(5)))
           /\ DOMAIN routine.text = 1 .. 13
<1> DEFINE t == routine.text
<1>1. t = <<Two("MOV", At(1), Dec(SP)), Instruction("JSR", 2, Rg(PC), Abs, 0), Data(10),
            One("TST", Inc(SP)), Go("BR", 8), Two("MOV", Idx(SP), Rg(0)), Data(2),
            Instruction("JSR", 2, Rg(5), Abs, 0), Data(22), Data(3), One("RTS", Rg(PC)),
            Two("ADD", Inc(5), Rg(0)), One("RTS", Rg(5))>>
  BY DEF Calls, Routine
<1>2. /\ DOMAIN t = 1 .. 13
      /\ t[1] = Two("MOV", At(1), Dec(SP)) /\ t[2] = Instruction("JSR", 2, Rg(PC), Abs, 0)
      /\ t[3] = Data(10) /\ t[4] = One("TST", Inc(SP)) /\ t[5] = Go("BR", 8)
      /\ t[6] = Two("MOV", Idx(SP), Rg(0)) /\ t[7] = Data(2)
      /\ t[8] = Instruction("JSR", 2, Rg(5), Abs, 0) /\ t[9] = Data(22) /\ t[10] = Data(3)
      /\ t[11] = One("RTS", Rg(PC)) /\ t[12] = Two("ADD", Inc(5), Rg(0))
      /\ t[13] = One("RTS", Rg(5))
  BY <1>1
<1> QED BY <1>2, Numbers, LiesAt

\* The stack of three words.
LEMMA StackPlaces ==
    ASSUME Hosted
    PROVE  /\ Plain(Top - 2) /\ Plain(Top - 4) /\ Plain(Top - 6) /\ Top \in Int
           /\ Top = (Top - 2) + 2 /\ Top - 2 = (Top - 4) + 2 /\ Top - 4 = (Top - 6) + 2
           /\ Top - 2 # Top - 4 /\ Top - 4 # Top - 6 /\ Top - 2 # Top - 6
           /\ A # Top - 2 /\ B # Top - 2 /\ A + 2 # Top - 2 /\ Top \in Word
<1>1. Top \in Int /\ Top = 4 * A /\ B = 2 * A /\ A \in Int /\ 32 <= A /\ Top < Pseudo /\ Pseudo < 2^W
  BY Places
<1>2. Top \in Word
  BY <1>1, Places DEF Word
<1> QED BY <1>1, <1>2, PlainCells

\* Each step of the calling routine, and each abort, keeps its assertion.
LEMMA CallsKept ==
    ASSUME TypeOK, Hosted, Step, routine = Calls, CallsAt(start, m.r, m.f, m.core)
    PROVE  /\ m'.left \in {"no", "fault"}
           /\ Runs(m') => CallsAt(start, m'.r, m'.f, m'.core)
           /\ m'.left = "fault" => /\ m'.pc = m.r[PC] /\ m'.core = m.core
                                   /\ CallsAt(start, m.r, m'.f, m.core)
<1> DEFINE r == [m.r EXCEPT ![PC] = m.r[PC] + 2]
           x == start.core[A]
<1>0. m.core \in [Cells -> Word] /\ x \in Word /\ A \in Cells
  BY PlainCells, PlainFacts DEF TypeOK, Machine
<1>1. CASE m.r[PC] = 0
  <2> DEFINE v == [r EXCEPT ![SP] = Top - 2]
             d == [m.core EXCEPT ![Top - 2] = x]
  <2>1. Executes(0, Two("MOV", At(1), Dec(SP)), r)
    BY <1>1, CallsText DEF Executes
  <2> HIDE DEF r
  <2>2. /\ r[PC] = 2 /\ r \in [0 .. 7 -> Long] /\ r[1] = A /\ m.core[A] = x /\ r[SP] = (Top - 2) + 2
        /\ r[5] = 0
    BY <1>1, <2>1, ExecutesTyped, Registered, StackPlaces DEF CallsAt
  <2>3. /\ Finds(At(1), 2, r, m.core, A, r) /\ Finds(Dec(SP), 2, r, m.core, Top - 2, v)
        /\ Plain(A) /\ Plain(Top - 2)
    BY <2>2, AtFinds, DecFinds, PlainCells, Registered
  <2>4. v[PC] = 2 /\ v[SP] = Top - 2 /\ v[5] = 0
    BY <2>2, Registered
  <2>5. d[Top - 2] = x
    BY <1>0, <2>3, PlainFacts
  <2> HIDE DEF v, d
  <2>6. Goes(v, Logical(x, 2, m.f).f, d)
    BY <1>0, <2>1, <2>2, <2>3, PlainLoads, MoveToCell DEF d
  <2> QED BY <1>1, <2>4, <2>5, <2>6 DEF Goes, Becomes, CallsAt
<1>2. CASE m.r[PC] = 2
  <2> DEFINE a == Top - 4
             t == With(r, PC, 2 + 4)
             v == With(With(With(t, SP, a), PC, 2 + 4), PC, 10)
             d == With(m.core, a, t[PC] % 2^W)
  <2>1. Executes(2, Instruction("JSR", 2, Rg(PC), Abs, 0), r)
    BY <1>2, CallsText DEF Executes
  <2> HIDE DEF r
  <2>2. /\ r[PC] = 4 /\ r \in [0 .. 7 -> Long] /\ m.core[Top - 2] = x /\ r[SP] = a + 2
        /\ r[5] = 0 /\ Plain(a) /\ Top - 2 # a
    BY <1>2, <2>1, ExecutesTyped, Registered, StackPlaces DEF CallsAt
  <2>3. /\ PC \in 0 .. 7 \ {SP} /\ 10 \in Int /\ 0 <= 10 /\ 10 < 32
        /\ Lies(2 + 2, Data(10))
    <3>1. 2 + 2 = 4
      OBVIOUS
    <3> QED BY <3>1, CallsText DEF PC, SP
  <2>4. v[PC] = 10 /\ v[SP] = Top - 4 /\ v[5] = 0
    BY <2>2, Registered DEF With
  <2>5. d[Top - 4] = 6 /\ d[Top - 2] = x
    <3>1. t[PC] = 6
      BY <2>2, Registered DEF With
    <3>2. 6 % 2^W = 6
      BY Sizes
    <3> QED BY <1>0, <2>2, <3>1, <3>2, PlainFacts DEF With
  <2> HIDE DEF a
  <2>7. Goes(v, m.f, d)
    BY <2>1, <2>2, <2>3, JSRGoes
  <2> HIDE DEF v, d
  <2> QED BY <1>2, <2>4, <2>5, <2>7 DEF Goes, Becomes, CallsAt
<1>3. CASE m.r[PC] = 10
  <2> DEFINE s == [r EXCEPT ![PC] = 14]
             v == [s EXCEPT ![0] = x]
  <2>1. Executes(10, Two("MOV", Idx(SP), Rg(0)), r) /\ Hosted
    BY <1>3, CallsText DEF Executes
  <2> HIDE DEF r
  <2>2. /\ r[PC] = 12 /\ r \in [0 .. 7 -> Long] /\ m.core[Top - 2] = x /\ m.core[Top - 4] = 6
        /\ r[SP] = Top - 4 /\ r[5] = 0
    BY <1>3, <2>1, ExecutesTyped, Registered DEF CallsAt
  <2>3. /\ Lies(12, Data(2)) /\ Data(2).n = 2 /\ 2 % 2 = 0 /\ Top - 2 = (Top - 4) + 2
        /\ Plain((Top - 4) + 2 - 0) /\ Plain(Top - 4) /\ Plain(Top - 2) /\ 12 + 2 = 14
    BY CallsText, StackPlaces DEF Data, Instruction
  <2>4. Finds(Idx(SP), 2, r, m.core, Top - 2, s)
    <3> DEFINE b == Top - 4
    <3>1. SP \in 0 .. SP /\ 2 \in {1, 2} /\ 2 \in Int /\ 0 <= 2 /\ 2 < 32
      BY Registered
    <3>2. Plain(b) /\ Plain(b + 2 - (2 % 2)) /\ r[SP] = b /\ Top - 2 = b + 2
      BY <2>2, <2>3
    <3> HIDE DEF b
    <3>3. Finds(Idx(SP), 2, r, m.core, b + 2, With(r, PC, 12 + 2))
      BY <2>1, <2>2, <2>3, <3>1, <3>2, IdxReaches
    <3> QED BY <3>2, <3>3 DEF With
  <2>5. s[PC] = 14 /\ s[SP] = Top - 4 /\ s[5] = 0 /\ DOMAIN s = 0 .. 7
    BY <2>2, Registered
  <2>6. v[PC] = 14 /\ v[SP] = Top - 4 /\ v[5] = 0 /\ v[0] = x
    BY <2>5, Registered
  <2> HIDE DEF s
  <2>7. Goes(v, Logical(x, 2, m.f).f, m.core)
    BY <1>0, <2>1, <2>2, <2>3, <2>4, PlainLoads, MoveToRegister, Registered
  <2> HIDE DEF v
  <2> QED BY <1>3, <2>2, <2>6, <2>7 DEF Goes, Becomes, CallsAt
<1>4. CASE m.r[PC] = 14
  <2> DEFINE a == Top - 6
             t == With(r, PC, 14 + 4)
             v == With(With(With(t, SP, a), 5, 14 + 4), PC, 22)
             d == With(m.core, a, t[5] % 2^W)
  <2>1. Executes(14, Instruction("JSR", 2, Rg(5), Abs, 0), r)
    BY <1>4, CallsText DEF Executes
  <2> HIDE DEF r
  <2>2. /\ r[PC] = 16 /\ r \in [0 .. 7 -> Long] /\ m.core[Top - 4] = 6 /\ r[SP] = a + 2
        /\ r[5] = 0 /\ r[0] = x /\ Plain(a) /\ Top - 4 # a
    BY <1>4, <2>1, ExecutesTyped, Registered, StackPlaces DEF CallsAt
  <2>3. /\ 5 \in 0 .. 7 \ {SP} /\ 22 \in Int /\ 0 <= 22 /\ 22 < 32
        /\ Lies(14 + 2, Data(22))
    <3>1. 14 + 2 = 16
      OBVIOUS
    <3> QED BY <3>1, CallsText DEF SP
  <2>4. v[PC] = 22 /\ v[SP] = Top - 6 /\ v[5] = 18 /\ v[0] = x
    BY <2>2, Registered DEF With
  <2>5. d[Top - 6] = 0 /\ d[Top - 4] = 6
    <3>1. t[5] = 0
      BY <2>2, Registered DEF With
    <3>2. 0 % 2^W = 0
      BY Sizes
    <3> QED BY <1>0, <2>2, <3>1, <3>2, PlainFacts DEF With
  <2> HIDE DEF a
  <2>7. Goes(v, m.f, d)
    BY <2>1, <2>2, <2>3, JSRGoes
  <2> HIDE DEF v, d
  <2> QED BY <1>4, <2>4, <2>5, <2>7 DEF Goes, Becomes, CallsAt
<1>5. CASE m.r[PC] = 22
  <2> DEFINE s == [r EXCEPT ![5] = 18 + 2]
             y == (x + 3) % 2^W
             v == [s EXCEPT ![0] = y]
             z == Computed2("ADD", 3, s[0] % 2^W, 2, m.f)
  <2>1. Executes(22, Two("ADD", Inc(5), Rg(0)), r) /\ Hosted /\ "ADD" \in TwoOperands
    BY <1>5, CallsText DEF Executes, TwoOperands
  <2> HIDE DEF r
  <2>2. /\ r[PC] = 24 /\ r \in [0 .. 7 -> Long] /\ m.core[Top - 4] = 6 /\ m.core[Top - 6] = 0
        /\ r[SP] = Top - 6 /\ r[5] = 18 /\ r[0] = x
    BY <1>5, <2>1, ExecutesTyped, Registered DEF CallsAt
  <2>3. Data(3).n % 2^W = 3
    BY Sizes DEF Data, Instruction
  <2>4. Loads(Inc(5), 2, r, m.core, 18, s, Data(3).n % 2^W)
    <3>1. 5 \in 0 .. 5 /\ Lies(18, Data(3))
      BY CallsText
    <3> QED BY <2>1, <2>2, <3>1, IncTextLoads
  <2>5. s[PC] = 24 /\ s[SP] = Top - 6 /\ s[5] = 20 /\ s[0] = x /\ DOMAIN s = 0 .. 7
    BY <2>2, Registered
  <2> HIDE DEF s
  <2>6. z.store /\ z.val % 2^(2 * W) = y
    <3>1. x % 2^W = x /\ 3 + x = x + 3 /\ y \in Word
      <4>1. x \in Int /\ x % 2^W = x
        BY <1>0, SmallSums
      <4> QED BY <4>1, WordFacts
    <3>2. y % 2^(2 * W) = y
      BY <3>1, SmallSums
    <3> QED BY <2>5, <3>1, <3>2 DEF Computed2, ADD, Result
  <2>7. v[PC] = 24 /\ v[SP] = Top - 6 /\ v[5] = 20 /\ v[0] = y
    BY <2>5, Registered
  <2> HIDE DEF z
  <2>8. Goes(IF z.store THEN [s EXCEPT ![0] = z.val % 2^(2 * W)] ELSE s, z.f, m.core)
    BY <2>1, <2>3, <2>4, BinaryRegister, Registered DEF z
  <2>9. Goes(v, z.f, m.core)
    BY <2>6, <2>8
  <2> HIDE DEF v
  <2> QED BY <1>5, <2>2, <2>7, <2>9 DEF Goes, Becomes, CallsAt
<1>6. CASE m.r[PC] = 24
  <2> DEFINE a == Top - 6
             v == [[[r EXCEPT ![PC] = r[5]] EXCEPT ![SP] = a + 2] EXCEPT ![5] = m.core[a]]
  <2>1. Executes(24, One("RTS", Rg(5)), r) /\ 5 \in 0 .. 7 \ {SP}
    BY <1>6, CallsText DEF Executes, SP
  <2> HIDE DEF r
  <2>2. /\ r \in [0 .. 7 -> Long] /\ m.core[Top - 4] = 6 /\ m.core[a] = 0
        /\ r[SP] = a /\ r[5] = 20 /\ r[0] = (x + 3) % 2^W /\ Plain(a) /\ a + 2 = Top - 4
    BY <1>6, <2>1, ExecutesTyped, Registered, StackPlaces DEF CallsAt
  <2>3. v[PC] = 20 /\ v[SP] = Top - 4 /\ v[5] = 0 /\ v[0] = (x + 3) % 2^W
    BY <2>2, Registered
  <2>4. Goes([[[r EXCEPT ![PC] = r[5]] EXCEPT ![SP] = a + 2] EXCEPT ![5] = m.core[a]], m.f, m.core)
    BY <2>1, <2>2, RTSGoes
  <2>5. Goes(v, m.f, m.core)
    BY <2>4
  <2> HIDE DEF v
  <2> QED BY <1>6, <2>2, <2>3, <2>5 DEF Goes, Becomes, CallsAt
<1>7. CASE m.r[PC] = 20
  <2> DEFINE a == Top - 4
             v == [[[r EXCEPT ![PC] = r[PC]] EXCEPT ![SP] = a + 2] EXCEPT ![PC] = m.core[a]]
  <2>1. Executes(20, One("RTS", Rg(PC)), r) /\ PC \in 0 .. 7 \ {SP}
    BY <1>7, CallsText DEF Executes, SP, PC
  <2> HIDE DEF r
  <2>2. /\ r \in [0 .. 7 -> Long] /\ m.core[a] = 6
        /\ r[SP] = a /\ r[5] = 0 /\ r[0] = (x + 3) % 2^W /\ Plain(a) /\ a + 2 = Top - 2
    BY <1>7, <2>1, ExecutesTyped, Registered, StackPlaces DEF CallsAt
  <2>3. v[PC] = 6 /\ v[SP] = Top - 2 /\ v[5] = 0 /\ v[0] = (x + 3) % 2^W
    BY <2>2, Registered
  <2>4. Goes([[[r EXCEPT ![PC] = r[PC]] EXCEPT ![SP] = a + 2] EXCEPT ![PC] = m.core[a]], m.f, m.core)
    BY <2>1, <2>2, RTSGoes
  <2>5. Goes(v, m.f, m.core)
    BY <2>4
  <2> HIDE DEF v
  <2> QED BY <1>7, <2>2, <2>3, <2>5 DEF Goes, Becomes, CallsAt
<1>8. CASE m.r[PC] = 6
  <2> DEFINE a == Top - 2
             v == [r EXCEPT ![SP] = a + 2]
             z == Computed1("TST", m.core[a], 2, m.f)
  <2>1. Executes(6, One("TST", Inc(SP)), r) /\ "TST" \in OneOperand /\ SP >= SP /\ SP \in 0 .. 7
    BY <1>8, CallsText DEF Executes, OneOperand, SP
  <2> HIDE DEF r
  <2>2. /\ r \in [0 .. 7 -> Long] /\ r[PC] = 8
        /\ r[SP] = a /\ r[5] = 0 /\ r[0] = (x + 3) % 2^W /\ Plain(a) /\ a + 2 = Top
    BY <1>8, <2>1, ExecutesTyped, Registered, StackPlaces DEF CallsAt
  <2>3. v[PC] = 8 /\ v[SP] = Top /\ v[5] = 0 /\ v[0] = (x + 3) % 2^W
    BY <2>2, Registered
  <2>4. Finds(Inc(SP), 2, r, m.core, a, v)
    BY <2>1, <2>2, IncFinds
  <2>5. ~z.store
    BY DEF Computed1, TST, FlagsOnly, Result
  <2> HIDE DEF z, v
  <2>6. Goes(v, z.f, m.core)
    BY <2>1, <2>2, <2>4, <2>5, UnaryCell DEF z
  <2> QED BY <1>8, <2>2, <2>3, <2>6 DEF Goes, Becomes, CallsAt
<1>9. CASE m.r[PC] = 8
  <2> DEFINE v == [r EXCEPT ![PC] = 26]
  <2>1. Executes(8, Go("BR", 8), r) /\ "BR" \in Branches
    BY <1>9, CallsText DEF Executes, Branches
  <2> HIDE DEF r
  <2>2. /\ r \in [0 .. 7 -> Long] /\ r[PC] = 10
        /\ r[SP] = Top /\ r[5] = 0 /\ r[0] = (x + 3) % 2^W
    BY <1>9, <2>1, ExecutesTyped, Registered DEF CallsAt
  <2>3. v[PC] = 26 /\ v[SP] = Top /\ v[5] = 0 /\ v[0] = (x + 3) % 2^W
    BY <2>2, Registered
  <2>4. (8 + 2 + 2 * 8) % 2^(2 * W) = 26 /\ Taken("BR", m.f)
    BY Sizes DEF Taken
  <2>5. Goes(v, m.f, m.core) /\ Runs(m')
    BY <2>1, <2>4, BranchGoes
  <2> HIDE DEF v
  <2> QED BY <2>3, <2>5 DEF Goes, Becomes, CallsAt, Runs
<1>10. m.r[PC] # 26
  BY CallsText, Numbers, EndsBehind
<1> QED BY <1>1, <1>2, <1>3, <1>4, <1>5, <1>6, <1>7, <1>8, <1>9, <1>10 DEF CallsAt

-----------------------------------------------------------------------------
(***************************************************************************)
(* Instructions as straight routines use them: registers and core with one *)
(* place changed.                                                          *)
(***************************************************************************)
LEMMA WithGives ==
    ASSUME NEW c \in [Cells -> Word], NEW a, Plain(a), NEW y
    PROVE  With(c, a, y)[a] = y /\ \A b : Plain(b) /\ b # a => With(c, a, y)[b] = c[b]
BY PlainFacts DEF With

\* The words of the two pages are different cells.
LEMMA Apart ==
    /\ A # A + 2 /\ A # B /\ A # B + 2 /\ A + 2 # B /\ A + 2 # B + 2 /\ B # B + 2
    /\ A \in Int /\ B \in Int /\ (A + 2) + 2 = A + 4 /\ (B + 2) + 2 = B + 4
BY Places

\* Autoincrement by words.
LEMMA IncGoes ==
    ASSUME NEW q \in 0 .. SP, NEW r, NEW c, NEW a, Plain(a), r[q] = a
    PROVE  Finds(Inc(q), 2, r, c, a, With(r, q, a + 2))
<1>1. q \in 0 .. 7 /\ 2 \in {1, 2}
  BY Registered
<1>2. Finds(Inc(q), 2, r, c, a, [r EXCEPT ![q] = a + (IF q >= SP THEN 2 ELSE 2)])
  BY <1>1, IncFinds
<1> QED BY <1>2 DEF With

\* Autodecrement by words.
LEMMA DecGoes ==
    ASSUME NEW q \in 0 .. SP, NEW r, NEW c, NEW a, Plain(a), r[q] = a + 2
    PROVE  Finds(Dec(q), 2, r, c, a, With(r, q, a))
<1>1. q \in 0 .. 7
  BY Registered
<1>2. Finds(Dec(q), 2, r, c, a, [r EXCEPT ![q] = a])
  BY <1>1, DecFinds
<1> QED BY <1>2 DEF With

\* A word pointed to.
LEMMA AtGoes ==
    ASSUME NEW q \in 0 .. SP, NEW r, NEW c, NEW a, Plain(a), r[q] = a
    PROVE  Finds(At(q), 2, r, c, a, r)
BY Registered, AtFinds

\* The word behind the one that register q points to.
LEMMA NextGoes ==
    ASSUME Hosted, NEW q \in 0 .. SP, NEW r, NEW c, NEW p, Lies(p, Data(2)), r[PC] = p,
           NEW b, Plain(b), r[q] = b, Plain(b + 2)
    PROVE  Finds(Idx(q), 2, r, c, b + 2, With(r, PC, p + 2))
<1>1. Data(2).n = 2 /\ 2 \in Int /\ 0 <= 2 /\ 2 < 32 /\ 2 \in {1, 2}
  BY DEF Data, Instruction
<1>2. Plain(b + 2 - (2 % 2))
  <2>1. b \in Int /\ 2 % 2 = 0
    BY DEF Plain
  <2>2. b + 2 - (2 % 2) = b + 2
    BY <2>1
  <2> QED BY <2>2
<1> QED BY <1>1, <1>2, IdxReaches

\* A word moved to a register.
LEMMA MoveIn ==
    ASSUME NEW p, NEW o, NEW q \in 0 .. SP, NEW r, Executes(p, Two("MOV", o, Rg(q)), r),
           NEW a, Plain(a), NEW s, Finds(o, 2, r, m.core, a, s)
    PROVE  Goes(With(s, q, m.core[a]), Logical(m.core[a], 2, m.f).f, m.core)
<1>1. m.core[a] \in Word /\ q \in 0 .. 7
  BY ExecutesTyped, PlainFacts, Registered
<1>2. Loads(o, 2, r, m.core, a, s, m.core[a])
  BY PlainLoads
<1> QED BY <1>1, <1>2, MoveToRegister DEF With

\* MOV of a word to core.
LEMMA MoveOut ==
    ASSUME NEW p, NEW o, NEW e, NEW r, Executes(p, Two("MOV", o, e), r),
           NEW a, NEW s, NEW x \in Word, Loads(o, 2, r, m.core, a, s, x),
           NEW b, Plain(b), NEW t, Finds(e, 2, s, m.core, b, t)
    PROVE  Goes(t, Logical(x, 2, m.f).f, With(m.core, b, x))
BY MoveToCell DEF With

\* MOV from register to register.
LEMMA MoveAcross ==
    ASSUME NEW p, NEW n \in 0 .. SP, NEW q \in 0 .. SP, NEW r,
           Executes(p, Two("MOV", Rg(n), Rg(q)), r), NEW x \in Word, r[n] = x
    PROVE  Goes(With(r, q, x), Logical(x, 2, m.f).f, m.core)
<1>1. n \in 0 .. 7 /\ q \in 0 .. 7 /\ 2 \in {1, 2} /\ Bits(2) = W /\ x % 2^W = x
  BY SmallSums, Registered DEF Bits
<1>2. Loads(Rg(n), 2, r, m.core, Pseudo + n, r, r[n] % 2^Bits(2))
  BY <1>1, RgLoads
<1>3. Loads(Rg(n), 2, r, m.core, Pseudo + n, r, x)
  BY <1>1, <1>2
<1> QED BY <1>1, <1>3, MoveToRegister DEF With

\* One operand, in core and in a register.
LEMMA UnaryIn ==
    ASSUME NEW p, NEW op \in OneOperand, NEW e, NEW r, Executes(p, One(op, e), r),
           NEW a, Plain(a), NEW t, Finds(e, 2, r, m.core, a, t),
           NEW z, Is(z, Computed1(op, m.core[a], 2, m.f))
    PROVE  /\ z.store => Goes(t, z.f, With(m.core, a, z.val % 2^W))
           /\ ~z.store => Goes(t, z.f, m.core)
           /\ m'.left = "fault" /\ op \in {"ADC", "SBC", "ROR", "ROL"} => m'.f.c = m.f.c
<1>1. z = Computed1(op, m.core[a], 2, m.f)
  BY DEF Is
<1>2. /\ Goes(t, z.f, IF z.store THEN [m.core EXCEPT ![a] = z.val % 2^W] ELSE m.core)
      /\ m'.left = "fault" /\ op \in {"ADC", "SBC", "ROR", "ROL"} => m'.f.c = m.f.c
  BY <1>1, UnaryCell
<1> QED BY <1>2 DEF With

\* An instruction of one operand on a register.
LEMMA UnaryOn ==
    ASSUME NEW p, NEW op \in OneOperand, NEW q \in 0 .. SP, NEW r, Executes(p, One(op, Rg(q)), r),
           NEW x \in Word, r[q] = x, NEW z, Is(z, Computed1(op, x, 2, m.f))
    PROVE  /\ z.store => Goes(With(r, q, z.val % 2^(2 * W)), z.f, m.core)
           /\ ~z.store => Goes(r, z.f, m.core)
           /\ m'.left = "fault" /\ op \in {"ADC", "SBC", "ROR", "ROL"} => m'.f.c = m.f.c
<1>1. z = Computed1(op, r[q] % 2^W, 2, m.f) /\ q \in 0 .. 7
  BY SmallSums, Registered DEF Is
<1>2. /\ Goes(IF z.store THEN [r EXCEPT ![q] = z.val % 2^(2 * W)] ELSE r, z.f, m.core)
      /\ m'.left = "fault" /\ op \in {"ADC", "SBC", "ROR", "ROL"} => m'.f.c = m.f.c
  BY <1>1, UnaryRegister
<1> QED BY <1>2 DEF With

\* Two operands, the second of them a register.
LEMMA BinaryOn ==
    ASSUME NEW p, NEW op \in TwoOperands, NEW o, NEW q \in 0 .. SP, NEW r,
           Executes(p, Two(op, o, Rg(q)), r),
           NEW a, NEW s, NEW x, Loads(o, 2, r, m.core, a, s, x),
           NEW y \in Word, s[q] = y, NEW z, Is(z, Computed2(op, x, y, 2, m.f))
    PROVE  /\ z.store => Goes(With(s, q, z.val % 2^(2 * W)), z.f, m.core)
           /\ ~z.store => Goes(s, z.f, m.core)
<1>1. z = Computed2(op, x, s[q] % 2^W, 2, m.f) /\ q \in 0 .. 7
  BY SmallSums, Registered DEF Is
<1>2. Goes(IF z.store THEN [s EXCEPT ![q] = z.val % 2^(2 * W)] ELSE s, z.f, m.core)
  BY <1>1, BinaryRegister
<1> QED BY <1>2 DEF With

\* CLR of a register.
LEMMA ClearOn ==
    ASSUME NEW p, NEW q \in 0 .. SP, NEW r, Executes(p, One("CLR", Rg(q)), r)
    PROVE  Goes(With(r, q, 0), CLR(2, m.f).f, m.core)
<1> DEFINE i == One("CLR", Rg(q))
<1>1. i.op = "CLR" /\ i.l = 2 /\ i.d = Rg(q) /\ i.op # "MARK"
  BY DEF One, Instruction
<1> HIDE DEF i
<1>2. Executes(p, i, r) /\ q \in 0 .. 7 /\ 2 \in {1, 2}
  BY Registered DEF i
<1>3. Finds(Rg(q), 2, r, m.core, Pseudo + q, r)
  BY <1>2, RgFinds
<1>4. Writes(Pseudo + q, 2, 0, r, m.core, With(r, q, 0), m.core)
  <2>1. 0 % 2^(2 * W) = 0
    BY Sizes
  <2>2. Writes(Pseudo + q, 2, 0, r, m.core, [r EXCEPT ![q] = 0 % 2^(2 * W)], m.core)
    BY <1>2, WritesFacts
  <2> QED BY <2>1, <2>2 DEF With
<1>5. Becomes(With(r, q, 0), CLR(2, m.f).f, m.core)
  BY <1>1, <1>2, <1>3, <1>4, ClearStep
<1>6. m'.left = "fault" => m'.pc = m.r[PC] /\ m'.core = m.core
  BY <1>1, <1>2, AbortLeaves
<1> QED BY <1>5, <1>6 DEF Goes

\* MFPI of SP or of a plain cell.
LEMMA MFPIGoes ==
    ASSUME NEW p, NEW o, NEW r, Executes(p, One("MFPI", o), r),
           NEW b, NEW t, Finds(o, 2, r, m.core, b, t), NEW x \in Word,
           \/ b = Pseudo + SP /\ x = t[SP]
           \/ Plain(b) /\ x = m.core[b],
           NEW a, Plain(a), t[SP] = a + 2
    PROVE  Goes(With(t, SP, a), Moved(x, TRUE), With(m.core, a, x))
<1> DEFINE i == One("MFPI", o)
<1>1. i.op = "MFPI" /\ i.d = o /\ i.op # "MARK"
  BY DEF One, Instruction
<1> HIDE DEF i
<1>2. Executes(p, i, r) /\ a \in Cells
  BY PlainFacts DEF i
<1>3. \/ b = Pseudo + SP /\ x = t[SP]
      \/ ~IsReg(b) /\ Backed(b) /\ x = Held(m.core, b)
  BY PlainFacts
<1>4. Becomes([t EXCEPT ![SP] = a], Moved(x, TRUE), [m.core EXCEPT ![a] = x % 2^W])
  BY <1>1, <1>2, <1>3, MFPIStep
<1>5. x % 2^W = x
  BY SmallSums
<1>6. m'.left = "fault" => m'.pc = m.r[PC] /\ m'.core = m.core
  BY <1>1, <1>2, AbortLeaves
<1> QED BY <1>4, <1>5, <1>6 DEF Goes, With

\* MTPI to a plain cell or to a register.
LEMMA MTPIGoes ==
    ASSUME NEW p, NEW o, NEW r, Executes(p, One("MTPI", o), r),
           NEW b, NEW t, Finds(o, 2, r, m.core, b, t),
           NEW a, Plain(a), t[SP] = a
    PROVE  /\ Plain(b) => Goes(With(t, SP, a + 2), Moved(m.core[a], FALSE),
                               With(m.core, b, m.core[a]))
           /\ \A q \in 0 .. 7 : b = Pseudo + q =>
                  Goes(With(With(t, SP, a + 2), q, m.core[a]), Moved(m.core[a], FALSE), m.core)
<1> DEFINE i == One("MTPI", o)
           x == m.core[a]
           w == With(t, SP, a + 2)
<1>1. i.op = "MTPI" /\ i.d = o /\ i.op # "MARK"
  BY DEF One, Instruction
<1> HIDE DEF i
<1>2. Executes(p, i, r) /\ a \in Cells /\ x \in Word
  BY ExecutesTyped, PlainFacts DEF i
<1> HIDE DEF x
<1>3. x % 2^W = x /\ x % 2^(2 * W) = x
  BY <1>2, SmallSums
<1>4. ASSUME NEW s, NEW d, Writes(b, 2, x, w, m.core, s, d)
      PROVE  Goes(s, Moved(x, FALSE), d)
  <2>1. Becomes(s, Moved(x, FALSE), d)
    BY <1>1, <1>2, <1>4, MTPIStep DEF x, With
  <2>2. m'.left = "fault" => m'.pc = m.r[PC] /\ m'.core = m.core
    BY <1>1, <1>2, AbortLeaves
  <2> QED BY <2>1, <2>2 DEF Goes
<1> HIDE DEF w
<1>5. Plain(b) => Goes(w, Moved(x, FALSE), With(m.core, b, x))
  <2>1. Plain(b) => Writes(b, 2, x, w, m.core, w, With(m.core, b, x))
    BY <1>3, WritesFacts DEF With
  <2> QED BY <1>4, <2>1
<1>6. ASSUME NEW q \in 0 .. 7, b = Pseudo + q
      PROVE  Goes(With(w, q, x), Moved(x, FALSE), m.core)
  <2>1. Writes(b, 2, x, w, m.core, With(w, q, x), m.core)
    BY <1>3, <1>6, WritesFacts DEF With
  <2> QED BY <1>4, <2>1
<1> QED BY <1>5, <1>6 DEF w, x

-----------------------------------------------------------------------------
\* R1 and R2 are saved, used and restored.
SaveAt(s, r, f, c) ==
    /\ r[PC] \in {0, 2, 4, 6, 8, 10, 12}
    /\ r[0] = 0 /\ r[3] = 0 /\ r[4] = 0 /\ r[5] = 0
    /\ r[PC] \in {0, 2, 4, 12} => r[1] = A
    /\ r[PC] = 6 => r[1] = 0
    /\ r[PC] \notin {8} => r[2] = B
    /\ r[PC] \in {0, 12} => r[SP] = Top
    /\ r[PC] \in {2, 10} => r[SP] = Top - 2
    /\ r[PC] \in {4, 6, 8} => r[SP] = Top - 4 /\ c[Top - 4] = B
    /\ r[PC] \in {2, 4, 6, 8, 10} => c[Top - 2] = A

\* What lies in the text of the saving routine.
LEMMA SaveText ==
    ASSUME routine = Save(Top)
    PROVE  /\ Lies(0, Two("MOV", Rg(1), Dec(SP))) /\ Lies(2, Two("MOV", Rg(2), Dec(SP)))
           /\ Lies(4, One("CLR", Rg(1))) /\ Lies(6, Two("MOV", Rg(1), Rg(2)))
           /\ Lies(8, Two("MOV", Inc(SP), Rg(2))) /\ Lies(10, Two("MOV", Inc(SP), Rg(1)))
           /\ DOMAIN routine.text = 1 .. 6
<1> DEFINE t == routine.text
<1>1. t = <<Two("MOV", Rg(1), Dec(SP)), Two("MOV", Rg(2), Dec(SP)),
            One("CLR", Rg(1)), Two("MOV", Rg(1), Rg(2)),
            Two("MOV", Inc(SP), Rg(2)), Two("MOV", Inc(SP), Rg(1))>>
  BY DEF Save, Routine
<1>2. /\ DOMAIN t = 1 .. 6 /\ t[1] = Two("MOV", Rg(1), Dec(SP)) /\ t[2] = Two("MOV", Rg(2), Dec(SP))
      /\ t[3] = One("CLR", Rg(1)) /\ t[4] = Two("MOV", Rg(1), Rg(2))
      /\ t[5] = Two("MOV", Inc(SP), Rg(2)) /\ t[6] = Two("MOV", Inc(SP), Rg(1))
  BY <1>1
<1> QED BY <1>2, Numbers, LiesAt

\* A register is pushed.
LEMMA PushGoes ==
    ASSUME NEW p, NEW q \in 0 .. 5, NEW r, Executes(p, Two("MOV", Rg(q), Dec(SP)), r),
           NEW x \in Word, r[q] = x, NEW a, Plain(a), r[SP] = a + 2
    PROVE  Goes(With(r, SP, a), Logical(x, 2, m.f).f, With(m.core, a, x))
<1>1. q \in 0 .. 7 /\ SP \in 0 .. SP /\ 2 \in {1, 2} /\ Bits(2) = W /\ x % 2^W = x
  BY SmallSums, Registered DEF Bits, SP
<1>2. Loads(Rg(q), 2, r, m.core, Pseudo + q, r, r[q] % 2^Bits(2))
  BY <1>1, RgLoads
<1>3. Loads(Rg(q), 2, r, m.core, Pseudo + q, r, x)
  BY <1>1, <1>2
<1>4. Finds(Dec(SP), 2, r, m.core, a, With(r, SP, a))
  BY <1>1, DecGoes
<1> QED BY <1>3, <1>4, MoveOut

\* It is popped.
LEMMA PopGoes ==
    ASSUME NEW p, NEW q \in 0 .. 5, NEW r, Executes(p, Two("MOV", Inc(SP), Rg(q)), r),
           NEW a, Plain(a), r[SP] = a
    PROVE  Goes(With(With(r, SP, a + 2), q, m.core[a]), Logical(m.core[a], 2, m.f).f, m.core)
<1>1. q \in 0 .. SP /\ SP \in 0 .. SP
  BY DEF SP
<1>2. Finds(Inc(SP), 2, r, m.core, a, With(r, SP, a + 2))
  BY <1>1, IncGoes
<1> QED BY <1>1, <1>2, MoveIn

\* Each step of the saving routine, and each abort, keeps its assertion.
LEMMA SaveKept ==
    ASSUME TypeOK, Hosted, Step, routine = Save(Top), SaveAt(start, m.r, m.f, m.core)
    PROVE  /\ m'.left \in {"no", "fault"}
           /\ Runs(m') => SaveAt(start, m'.r, m'.f, m'.core)
           /\ m'.left = "fault" => /\ m'.pc = m.r[PC] /\ m'.core = m.core
                                   /\ SaveAt(start, m.r, m'.f, m.core)
<1> DEFINE r == [m.r EXCEPT ![PC] = m.r[PC] + 2]
<1>0. m.core \in [Cells -> Word] /\ A \in Word /\ B \in Word
  BY PlainCells, PlainFacts DEF TypeOK, Machine
<1>1. CASE m.r[PC] = 0
  <2> DEFINE a == Top - 2
             v == With(r, SP, a)
             d == With(m.core, a, A)
             g == Logical(A, 2, m.f).f
  <2>1. Executes(0, Two("MOV", Rg(1), Dec(SP)), r)
    BY <1>1, SaveText DEF Executes
  <2> HIDE DEF r
  <2>2. /\ r[PC] = 2 /\ r \in [0 .. 7 -> Long] /\ r[1] = A /\ r[2] = B /\ r[SP] = a + 2
        /\ r[0] = 0 /\ r[3] = 0 /\ r[4] = 0 /\ r[5] = 0 /\ Plain(a)
    BY <1>1, <2>1, ExecutesTyped, Registered, StackPlaces DEF SaveAt
  <2>3. /\ v[PC] = 2 /\ v[1] = A /\ v[2] = B /\ v[SP] = a
        /\ v[0] = 0 /\ v[3] = 0 /\ v[4] = 0 /\ v[5] = 0
    BY <2>2, Registered DEF With
  <2> HIDE DEF a
  <2>4. d[a] = A
    BY <1>0, <2>2, WithGives
  <2>5. Goes(v, g, d)
    BY <1>0, <2>1, <2>2, Registered, PushGoes
  <2> HIDE DEF v, d, g
  <2>6. SaveAt(start, v, g, d)
    BY <2>3, <2>4 DEF SaveAt, a
  <2> QED BY <1>1, <2>5, <2>6 DEF Goes, Becomes, SaveAt
<1>2. CASE m.r[PC] = 2
  <2> DEFINE a == Top - 4
             v == With(r, SP, a)
             d == With(m.core, a, B)
             g == Logical(B, 2, m.f).f
  <2>1. Executes(2, Two("MOV", Rg(2), Dec(SP)), r)
    BY <1>2, SaveText DEF Executes
  <2> HIDE DEF r
  <2>2. /\ r[PC] = 4 /\ r \in [0 .. 7 -> Long] /\ r[1] = A /\ r[2] = B /\ r[SP] = a + 2
        /\ r[0] = 0 /\ r[3] = 0 /\ r[4] = 0 /\ r[5] = 0 /\ Plain(a)
        /\ m.core[Top - 2] = A /\ Plain(Top - 2) /\ Top - 2 # a
    BY <1>2, <2>1, ExecutesTyped, Registered, StackPlaces DEF SaveAt
  <2>3. /\ v[PC] = 4 /\ v[1] = A /\ v[2] = B /\ v[SP] = a
        /\ v[0] = 0 /\ v[3] = 0 /\ v[4] = 0 /\ v[5] = 0
    BY <2>2, Registered DEF With
  <2> HIDE DEF a
  <2>4. d[a] = B /\ d[Top - 2] = A
    BY <1>0, <2>2, WithGives
  <2>5. Goes(v, g, d)
    BY <1>0, <2>1, <2>2, Registered, PushGoes
  <2> HIDE DEF v, d, g
  <2>6. SaveAt(start, v, g, d)
    BY <2>3, <2>4 DEF SaveAt, a
  <2> QED BY <1>2, <2>5, <2>6 DEF Goes, Becomes, SaveAt
<1>3. CASE m.r[PC] = 4
  <2> DEFINE v == With(r, 1, 0)
             g == CLR(2, m.f).f
  <2>1. Executes(4, One("CLR", Rg(1)), r)
    BY <1>3, SaveText DEF Executes
  <2> HIDE DEF r
  <2>2. /\ r[PC] = 6 /\ r \in [0 .. 7 -> Long] /\ r[2] = B /\ r[SP] = Top - 4
        /\ r[0] = 0 /\ r[3] = 0 /\ r[4] = 0 /\ r[5] = 0
        /\ m.core[Top - 2] = A /\ m.core[Top - 4] = B
    BY <1>3, <2>1, ExecutesTyped, Registered DEF SaveAt
  <2>3. /\ v[PC] = 6 /\ v[1] = 0 /\ v[2] = B /\ v[SP] = Top - 4
        /\ v[0] = 0 /\ v[3] = 0 /\ v[4] = 0 /\ v[5] = 0
    BY <2>2, Registered DEF With
  <2>5. Goes(v, g, m.core)
    BY <2>1, Registered, ClearOn
  <2> HIDE DEF v, g
  <2>6. SaveAt(start, v, g, m.core)
    BY <2>2, <2>3 DEF SaveAt
  <2> QED BY <1>3, <2>5, <2>6 DEF Goes, Becomes, SaveAt
<1>4. CASE m.r[PC] = 6
  <2> DEFINE v == With(r, 2, 0)
             g == Logical(0, 2, m.f).f
  <2>1. Executes(6, Two("MOV", Rg(1), Rg(2)), r)
    BY <1>4, SaveText DEF Executes
  <2> HIDE DEF r
  <2>2. /\ r[PC] = 8 /\ r \in [0 .. 7 -> Long] /\ r[1] = 0 /\ r[SP] = Top - 4
        /\ r[0] = 0 /\ r[3] = 0 /\ r[4] = 0 /\ r[5] = 0
        /\ m.core[Top - 2] = A /\ m.core[Top - 4] = B
    BY <1>4, <2>1, ExecutesTyped, Registered DEF SaveAt
  <2>3. /\ v[PC] = 8 /\ v[SP] = Top - 4
        /\ v[0] = 0 /\ v[3] = 0 /\ v[4] = 0 /\ v[5] = 0 /\ 0 \in Word
    BY <2>2, Registered, Sizes DEF With
  <2>5. Goes(v, g, m.core)
    BY <2>1, <2>2, <2>3, Registered, MoveAcross
  <2> HIDE DEF v, g
  <2>6. SaveAt(start, v, g, m.core)
    BY <2>2, <2>3 DEF SaveAt
  <2> QED BY <1>4, <2>5, <2>6 DEF Goes, Becomes, SaveAt
<1>5. CASE m.r[PC] = 8
  <2> DEFINE a == Top - 4
             v == With(With(r, SP, a + 2), 2, m.core[a])
             g == Logical(m.core[a], 2, m.f).f
  <2>1. Executes(8, Two("MOV", Inc(SP), Rg(2)), r)
    BY <1>5, SaveText DEF Executes
  <2> HIDE DEF r
  <2>2. /\ r[PC] = 10 /\ r \in [0 .. 7 -> Long] /\ r[SP] = a
        /\ r[0] = 0 /\ r[3] = 0 /\ r[4] = 0 /\ r[5] = 0 /\ Plain(a) /\ a + 2 = Top - 2
        /\ m.core[Top - 2] = A /\ m.core[a] = B
    BY <1>5, <2>1, ExecutesTyped, Registered, StackPlaces DEF SaveAt
  <2>3. /\ v[PC] = 10 /\ v[2] = B /\ v[SP] = Top - 2
        /\ v[0] = 0 /\ v[3] = 0 /\ v[4] = 0 /\ v[5] = 0
    BY <2>2, Registered DEF With
  <2> HIDE DEF a
  <2>5. Goes(v, g, m.core)
    BY <2>1, <2>2, Registered, PopGoes
  <2> HIDE DEF v, g
  <2>6. SaveAt(start, v, g, m.core)
    BY <2>2, <2>3 DEF SaveAt
  <2> QED BY <1>5, <2>5, <2>6 DEF Goes, Becomes, SaveAt
<1>6. CASE m.r[PC] = 10
  <2> DEFINE a == Top - 2
             v == With(With(r, SP, a + 2), 1, m.core[a])
             g == Logical(m.core[a], 2, m.f).f
  <2>1. Executes(10, Two("MOV", Inc(SP), Rg(1)), r)
    BY <1>6, SaveText DEF Executes
  <2> HIDE DEF r
  <2>2. /\ r[PC] = 12 /\ r \in [0 .. 7 -> Long] /\ r[SP] = a /\ r[2] = B
        /\ r[0] = 0 /\ r[3] = 0 /\ r[4] = 0 /\ r[5] = 0 /\ Plain(a) /\ a + 2 = Top
        /\ m.core[a] = A
    BY <1>6, <2>1, ExecutesTyped, Registered, StackPlaces DEF SaveAt
  <2>3. /\ v[PC] = 12 /\ v[1] = A /\ v[2] = B /\ v[SP] = Top
        /\ v[0] = 0 /\ v[3] = 0 /\ v[4] = 0 /\ v[5] = 0
    BY <2>2, Registered DEF With
  <2> HIDE DEF a
  <2>5. Goes(v, g, m.core)
    BY <2>1, <2>2, Registered, PopGoes
  <2> HIDE DEF v, g
  <2>6. SaveAt(start, v, g, m.core)
    BY <2>2, <2>3 DEF SaveAt
  <2> QED BY <1>6, <2>5, <2>6 DEF Goes, Becomes, SaveAt
<1>7. m.r[PC] # 12
  BY SaveText, Numbers, EndsBehind
<1> QED BY <1>1, <1>2, <1>3, <1>4, <1>5, <1>6, <1>7 DEF SaveAt

-----------------------------------------------------------------------------
\* A word goes by the stack to its place, and the stack pointer to R3.
PreviousAt(s, r, f, c) ==
    /\ r[PC] \in {0, 2, 4, 6, 8}
    /\ r[1] = (IF r[PC] = 0 THEN A ELSE A + 2)
    /\ r[2] = (IF r[PC] \in {0, 2} THEN B ELSE B + 2)
    /\ r[PC] = 0 => c[A] = s.core[A]
    /\ r[PC] \in {0, 4, 8} => r[SP] = Top
    /\ r[PC] \in {2, 6} => r[SP] = Top - 2
    /\ r[PC] = 2 => c[Top - 2] = s.core[A]
    /\ r[PC] = 6 => c[Top - 2] = Top
    /\ r[PC] \in {4, 6, 8} => c[B] = s.core[A]
    /\ r[PC] = 8 => r[3] = Top

\* What lies in the text of the routine that copies through the previous space.
LEMMA PreviousText ==
    ASSUME routine = MovePrevious
    PROVE  /\ Lies(0, One("MFPI", Inc(1))) /\ Lies(2, One("MTPI", Inc(2)))
           /\ Lies(4, One("MFPI", Rg(SP))) /\ Lies(6, One("MTPI", Rg(3)))
           /\ DOMAIN routine.text = 1 .. 4
<1> DEFINE t == routine.text
<1>1. t = <<One("MFPI", Inc(1)), One("MTPI", Inc(2)), One("MFPI", Rg(SP)), One("MTPI", Rg(3))>>
  BY DEF MovePrevious, Routine
<1>2. /\ DOMAIN t = 1 .. 4 /\ t[1] = One("MFPI", Inc(1)) /\ t[2] = One("MTPI", Inc(2))
      /\ t[3] = One("MFPI", Rg(SP)) /\ t[4] = One("MTPI", Rg(3))
  BY <1>1
<1> QED BY <1>2, Numbers, LiesAt

\* Each step of the routine that copies through the previous space, and each abort,
\* keeps its assertion.
LEMMA PreviousKept ==
    ASSUME TypeOK, Hosted, Step, routine = MovePrevious, PreviousAt(start, m.r, m.f, m.core)
    PROVE  /\ m'.left \in {"no", "fault"}
           /\ Runs(m') => PreviousAt(start, m'.r, m'.f, m'.core)
           /\ m'.left = "fault" => /\ m'.pc = m.r[PC] /\ m'.core = m.core
                                   /\ PreviousAt(start, m.r, m'.f, m.core)
<1> DEFINE r == [m.r EXCEPT ![PC] = m.r[PC] + 2]
           x == start.core[A]
           e == Top - 2
<1>0. /\ m.core \in [Cells -> Word] /\ x \in Word /\ Top \in Word /\ Plain(A) /\ Plain(B) /\ Plain(e)
      /\ e + 2 = Top /\ B # e
  BY PlainCells, PlainFacts, StackPlaces DEF TypeOK, Machine
<1> HIDE DEF e
<1>1. CASE m.r[PC] = 0
  <2> DEFINE t == With(r, 1, A + 2)
             v == With(t, SP, e)
             d == With(m.core, e, x)
             g == Moved(x, TRUE)
  <2>1. Executes(0, One("MFPI", Inc(1)), r)
    BY <1>1, PreviousText DEF Executes
  <2> HIDE DEF r
  <2>2. /\ r[PC] = 2 /\ r \in [0 .. 7 -> Long] /\ r[1] = A /\ r[2] = B /\ r[SP] = e + 2
        /\ m.core[A] = x
    BY <1>0, <1>1, <2>1, ExecutesTyped, Registered DEF PreviousAt
  <2>3. t[SP] = e + 2 /\ v[PC] = 2 /\ v[1] = A + 2 /\ v[2] = B /\ v[SP] = e
    BY <2>2, Registered DEF With
  <2>4. d[e] = x
    BY <1>0, WithGives
  <2>5. Finds(Inc(1), 2, r, m.core, A, t)
    BY <1>0, <2>2, Registered, IncGoes
  <2> HIDE DEF t, x
  <2>6. Goes(v, g, d)
    BY <1>0, <2>1, <2>2, <2>3, <2>5, MFPIGoes
  <2> HIDE DEF v, d, g
  <2>7. PreviousAt(start, v, g, d)
    BY <2>3, <2>4 DEF PreviousAt, e, x
  <2> QED BY <1>1, <2>6, <2>7 DEF Goes, Becomes, PreviousAt
<1>2. CASE m.r[PC] = 2
  <2> DEFINE t == With(r, 2, B + 2)
             v == With(t, SP, e + 2)
             d == With(m.core, B, m.core[e])
             g == Moved(m.core[e], FALSE)
  <2>1. Executes(2, One("MTPI", Inc(2)), r)
    BY <1>2, PreviousText DEF Executes
  <2> HIDE DEF r
  <2>2. /\ r[PC] = 4 /\ r \in [0 .. 7 -> Long] /\ r[1] = A + 2 /\ r[2] = B /\ r[SP] = e
        /\ m.core[e] = x
    BY <1>0, <1>2, <2>1, ExecutesTyped, Registered DEF PreviousAt, e
  <2>3. t[SP] = e /\ v[PC] = 4 /\ v[1] = A + 2 /\ v[2] = B + 2 /\ v[SP] = e + 2
    BY <2>2, Registered DEF With
  <2>4. d[B] = x
    BY <1>0, <2>2, WithGives
  <2>5. Finds(Inc(2), 2, r, m.core, B, t)
    BY <1>0, <2>2, Registered, IncGoes
  <2> HIDE DEF t, x
  <2>6. Goes(v, g, d)
    BY <1>0, <2>1, <2>3, <2>5, MTPIGoes
  <2> HIDE DEF v, d, g
  <2>7. PreviousAt(start, v, g, d)
    BY <1>0, <2>3, <2>4 DEF PreviousAt, x
  <2> QED BY <1>2, <2>6, <2>7 DEF Goes, Becomes, PreviousAt
<1>3. CASE m.r[PC] = 4
  <2> DEFINE v == With(r, SP, e)
             d == With(m.core, e, Top)
             g == Moved(Top, TRUE)
  <2>1. Executes(4, One("MFPI", Rg(SP)), r)
    BY <1>3, PreviousText DEF Executes
  <2> HIDE DEF r
  <2>2. /\ r[PC] = 6 /\ r \in [0 .. 7 -> Long] /\ r[1] = A + 2 /\ r[2] = B + 2 /\ r[SP] = Top
        /\ m.core[B] = x /\ r[SP] = e + 2
    BY <1>0, <1>3, <2>1, ExecutesTyped, Registered DEF PreviousAt
  <2>3. v[PC] = 6 /\ v[1] = A + 2 /\ v[2] = B + 2 /\ v[SP] = e
    BY <2>2, Registered DEF With
  <2>4. d[e] = Top /\ d[B] = x
    BY <1>0, <2>2, WithGives
  <2>5. Finds(Rg(SP), 2, r, m.core, Pseudo + SP, r)
    BY Registered, RgFinds
  <2>6. Goes(v, g, d)
    BY <1>0, <2>1, <2>2, <2>5, MFPIGoes
  <2> HIDE DEF v, d, g, x
  <2>7. PreviousAt(start, v, g, d)
    BY <2>3, <2>4 DEF PreviousAt, e, x
  <2> QED BY <1>3, <2>6, <2>7 DEF Goes, Becomes, PreviousAt
<1>4. CASE m.r[PC] = 6
  <2> DEFINE v == With(With(r, SP, e + 2), 3, m.core[e])
             g == Moved(m.core[e], FALSE)
  <2>1. Executes(6, One("MTPI", Rg(3)), r) /\ 3 \in 0 .. 7
    BY <1>4, PreviousText DEF Executes
  <2> HIDE DEF r
  <2>2. /\ r[PC] = 8 /\ r \in [0 .. 7 -> Long] /\ r[1] = A + 2 /\ r[2] = B + 2 /\ r[SP] = e
        /\ m.core[B] = x /\ m.core[e] = Top
    BY <1>0, <1>4, <2>1, ExecutesTyped, Registered DEF PreviousAt, e
  <2>3. v[PC] = 8 /\ v[1] = A + 2 /\ v[2] = B + 2 /\ v[SP] = e + 2 /\ v[3] = Top
    BY <2>2, Registered DEF With
  <2>4. Finds(Rg(3), 2, r, m.core, Pseudo + 3, r)
    BY <2>1, Registered, RgFinds
  <2>5. Goes(v, g, m.core)
    BY <1>0, <2>1, <2>2, <2>4, MTPIGoes
  <2> HIDE DEF v, g, x
  <2>6. PreviousAt(start, v, g, m.core)
    BY <1>0, <2>2, <2>3 DEF PreviousAt, x
  <2> QED BY <1>4, <2>5, <2>6 DEF Goes, Becomes, PreviousAt
<1>5. m.r[PC] # 8
  BY PreviousText, Numbers, EndsBehind
<1> QED BY <1>1, <1>2, <1>3, <1>4, <1>5 DEF PreviousAt

-----------------------------------------------------------------------------
\* The jump skips as many instructions as the lowest two bits say.
SwitchAt(s, r, f, c) ==
    LET x == s.core[A]
        k == x % 4
    IN /\ r[PC] \in {0, 2, 6, 8, 20, 22, 24, 26}
       /\ r[PC] = 0 => r[1] = A /\ c[A] = x
       /\ r[PC] = 2 => r[0] = x
       /\ r[PC] = 6 => r[0] = k
       /\ r[PC] = 8 => r[0] = 2 * k
       /\ r[PC] \in {0, 2, 6, 8} => r[5] = 0
       /\ r[PC] \in {20, 22, 24, 26} => r[5] \in 0 .. 3 /\ r[PC] = 20 + 2 * (k + r[5])

\* What lies in the text of the switching routine.
LEMMA SwitchText ==
    ASSUME routine = Switch
    PROVE  /\ Lies(0, Two("MOV", At(1), Rg(0))) /\ Lies(2, Two("BIC", Imm, Rg(0)))
           /\ Lies(4, Data(2^W - 4)) /\ Lies(6, One("ASL", Rg(0)))
           /\ Lies(8, One("JMP", IdxDeferred(0))) /\ Lies(10, Data(12)) /\ Lies(12, Data(20))
           /\ Lies(14, Data(22)) /\ Lies(16, Data(24)) /\ Lies(18, Data(26))
           /\ Lies(20, One("INC", Rg(5))) /\ Lies(22, One("INC", Rg(5)))
           /\ Lies(24, One("INC", Rg(5))) /\ DOMAIN routine.text = 1 .. 13
<1> DEFINE t == routine.text
<1>1. t = <<Two("MOV", At(1), Rg(0)), Two("BIC", Imm, Rg(0)), Data(2^W - 4), One("ASL", Rg(0)),
            One("JMP", IdxDeferred(0)), Data(12), Data(20), Data(22), Data(24), Data(26),
            One("INC", Rg(5)), One("INC", Rg(5)), One("INC", Rg(5))>>
  BY DEF Switch, Routine
<1>2. /\ DOMAIN t = 1 .. 13 /\ t[1] = Two("MOV", At(1), Rg(0)) /\ t[2] = Two("BIC", Imm, Rg(0))
      /\ t[3] = Data(2^W - 4) /\ t[4] = One("ASL", Rg(0)) /\ t[5] = One("JMP", IdxDeferred(0))
      /\ t[6] = Data(12) /\ t[7] = Data(20) /\ t[8] = Data(22) /\ t[9] = Data(24)
      /\ t[10] = Data(26) /\ t[11] = One("INC", Rg(5)) /\ t[12] = One("INC", Rg(5))
      /\ t[13] = One("INC", Rg(5))
  BY <1>1
<1> QED BY <1>2, Numbers, LiesAt

\* A word of the text as an operand.
LEMMA ImmGoes ==
    ASSUME Hosted, NEW r, NEW c, NEW p, NEW n, Lies(p, Data(n)), r[PC] = p
    PROVE  Loads(Imm, 2, r, c, p, With(r, PC, p + 2), n % 2^W)
<1>1. Data(n).n = n
  BY DEF Data, Instruction
<1>2. Loads(Imm, 2, r, c, p, [r EXCEPT ![PC] = p + 2], Data(n).n % 2^W)
  BY ImmLoads
<1> QED BY <1>1, <1>2 DEF With

\* A jump through a word of the text.
LEMMA JumpGoes ==
    ASSUME NEW p, NEW r, Executes(p, One("JMP", IdxDeferred(0)), r),
           NEW n, Lies(p + 2, Data(n)), NEW b, b = ((n % 2^W) + r[0]) % 2^W,
           NEW a, Lies(b, Data(a)), a \in Int, 0 <= a, a < 32
    PROVE  Goes(With(With(r, PC, p + 4), PC, a), m.f, m.core)
<1> DEFINE i == One("JMP", IdxDeferred(0))
           t == [r EXCEPT ![PC] = p + 4]
<1>1. i.op = "JMP" /\ i.d = IdxDeferred(0) /\ i.op # "MARK"
  BY DEF One, Instruction
<1> HIDE DEF i
<1>2. Executes(p, i, r)
  BY DEF i
<1>3. r[PC] = p + 2 /\ p \in Int /\ (p + 2) + 2 = p + 4 /\ Hosted
  <2>1. r[PC] = p + 2 /\ p \in Int
    BY <1>2, ExecutesTyped
  <2> QED BY <1>2, <2>1 DEF Executes
<1>4. Data(n).n = n /\ Data(a).n = a
  BY DEF Data, Instruction
<1>5. a \in Word /\ a % 2^W = a /\ ~IsReg(a)
  <2>1. a \in Word
    BY Places DEF Word
  <2> QED BY <2>1, SmallSums, Places DEF IsReg
<1>6. /\ Backed(p + 2) /\ Held(m.core, p + 2) = n % 2^W
      /\ Backed(b) /\ Held(m.core, b) = a
  BY <1>3, <1>4, <1>5, LiesFacts
<1>7. IdxDeferred(0) \in Operands /\ IdxDeferred(0).mode = 7 /\ IdxDeferred(0).reg = 0 /\ 0 # PC
  BY OperandsTyped DEF IdxDeferred, PC
<1>8. Finds(IdxDeferred(0), 2, r, m.core, a, t)
  BY <1>3, <1>5, <1>6, <1>7 DEF Finds
<1> HIDE DEF t
<1>9. Becomes([t EXCEPT ![PC] = a], m.f, m.core)
  BY <1>1, <1>2, <1>5, <1>8, JMPStep
<1>10. m'.left = "fault" => m'.pc = m.r[PC] /\ m'.core = m.core
  BY <1>1, <1>2, AbortLeaves
<1> QED BY <1>9, <1>10 DEF Goes, With, t

\* What BIC leaves of the lowest two bits, twice it, and a count of them.
LEMMA LowestClear ==
    /\ Xor(Full(2), 2^W - 4) = 3 /\ (2^W - 4) % 2^W = 2^W - 4
    /\ \A x \in Word : And(3, x) = x % 4 /\ x % 4 \in {0, 1, 2, 3}
<1>1. 2^W - 4 \in Word /\ 2^W - 4 \in Int /\ 2^W \in Int
  BY Sizes
<1>2. (2^W - 4) % 2^W = 2^W - 4
  BY <1>1, SmallSums
<1>3. Full(2) = 2^W - 1
  BY DEF Full, Bits
<1>4. Xor(2^W - 1, 2^W - 4) = 2^W - 1 - (2^W - 4)
  <2>1. W \in 0 .. 2 * W /\ 2^W - 4 \in 0 .. 2^W - 1
    BY <1>1, WidthAssumption, Sizes
  <2> QED BY <2>1, OnesLeft
<1>5. 2^W - 1 - (2^W - 4) = 3
  BY <1>1
<1>6. \A x \in Word : And(3, x) = x % 4 /\ x % 4 \in {0, 1, 2, 3}
  <2>1. \A x \in Word : x \in Int /\ x \in Long
    BY SmallSums
  <2>2. \A x \in Int : x % 4 \in {0, 1, 2, 3}
    OBVIOUS
  <2> QED BY <2>1, <2>2, LowestBits
<1> QED BY <1>2, <1>3, <1>4, <1>5, <1>6

\* Each step of the switching routine, and each abort, keeps its assertion.
LEMMA SwitchKept ==
    ASSUME TypeOK, Hosted, Step, routine = Switch, SwitchAt(start, m.r, m.f, m.core)
    PROVE  /\ m'.left \in {"no", "fault"}
           /\ Runs(m') => SwitchAt(start, m'.r, m'.f, m'.core)
           /\ m'.left = "fault" => /\ m'.pc = m.r[PC] /\ m'.core = m.core
                                   /\ SwitchAt(start, m.r, m'.f, m.core)
<1> DEFINE r == [m.r EXCEPT ![PC] = m.r[PC] + 2]
           x == start.core[A]
           k == x % 4
<1>0. /\ m.core \in [Cells -> Word] /\ x \in Word /\ Plain(A) /\ k \in {0, 1, 2, 3}
      /\ And(3, x) = k
  BY PlainCells, PlainFacts, LowestClear DEF TypeOK, Machine
<1> HIDE DEF k
<1>1. CASE m.r[PC] = 0
  <2> DEFINE v == With(r, 0, m.core[A])
             g == Logical(m.core[A], 2, m.f).f
  <2>1. Executes(0, Two("MOV", At(1), Rg(0)), r)
    BY <1>1, SwitchText DEF Executes
  <2> HIDE DEF r
  <2>2. r[PC] = 2 /\ r \in [0 .. 7 -> Long] /\ r[1] = A /\ r[5] = 0 /\ m.core[A] = x
    BY <1>1, <2>1, ExecutesTyped, Registered DEF SwitchAt
  <2>3. v[PC] = 2 /\ v[0] = x /\ v[5] = 0
    BY <2>2, Registered DEF With
  <2>4. Finds(At(1), 2, r, m.core, A, r)
    BY <1>0, <2>2, Registered, AtGoes
  <2>5. Goes(v, g, m.core)
    BY <1>0, <2>1, <2>4, Registered, MoveIn
  <2> HIDE DEF v, g
  <2>6. SwitchAt(start, v, g, m.core)
    BY <2>3 DEF SwitchAt
  <2> QED BY <1>1, <2>5, <2>6 DEF Goes, Becomes, SwitchAt
<1>2. CASE m.r[PC] = 2
  <2> DEFINE n == 2^W - 4
             s == With(r, PC, 6)
             z == Computed2("BIC", n % 2^W, x, 2, m.f)
             v == With(s, 0, k)
  <2>1. Executes(2, Two("BIC", Imm, Rg(0)), r) /\ "BIC" \in TwoOperands /\ Hosted
    BY <1>2, SwitchText DEF Executes, TwoOperands
  <2> HIDE DEF r
  <2>2. r[PC] = 4 /\ r \in [0 .. 7 -> Long] /\ r[0] = x /\ r[5] = 0
    BY <1>2, <2>1, ExecutesTyped, Registered DEF SwitchAt
  <2>3. s[PC] = 6 /\ s[0] = x /\ v[PC] = 6 /\ v[0] = k /\ v[5] = 0
    BY <2>2, Registered DEF With
  <2>4. Loads(Imm, 2, r, m.core, 4, s, n % 2^W)
    <3>1. 4 + 2 = 6 /\ Lies(4, Data(n))
      BY SwitchText
    <3> HIDE DEF n
    <3> QED BY <2>1, <2>2, <3>1, ImmGoes
  <2>5. z.store /\ z.val = k /\ k % 2^(2 * W) = k
    <3>1. And(Xor(Full(2), n % 2^W), x) = k
      BY <1>0, LowestClear
    <3>2. k \in Long
      BY <1>0, Sizes
    <3>3. k % 2^(2 * W) = k
      BY <3>2, LongCut, Zenon
    <3> HIDE DEF n
    <3> QED BY <3>1, <3>3 DEF Computed2, BIC, Logical, Result
  <2>6. Is(z, Computed2("BIC", n % 2^W, x, 2, m.f))
    BY DEF Is
  <2> HIDE DEF z, s, n, x
  <2>7. Goes(With(s, 0, z.val % 2^(2 * W)), z.f, m.core)
    BY <1>0, <2>1, <2>3, <2>4, <2>5, <2>6, Registered, BinaryOn
  <2>8. Goes(v, z.f, m.core)
    BY <2>5, <2>7
  <2> HIDE DEF v
  <2>9. SwitchAt(start, v, z.f, m.core)
    BY <2>3 DEF SwitchAt, x, k
  <2> QED BY <1>2, <2>8, <2>9 DEF Goes, Becomes, SwitchAt
<1>3. CASE m.r[PC] = 6
  <2> DEFINE z == Computed1("ASL", k, 2, m.f)
             v == With(r, 0, 2 * k)
  <2>1. Executes(6, One("ASL", Rg(0)), r) /\ "ASL" \in OneOperand
    BY <1>3, SwitchText DEF Executes, OneOperand
  <2> HIDE DEF r
  <2>2. r[PC] = 8 /\ r \in [0 .. 7 -> Long] /\ r[0] = k /\ r[5] = 0
    BY <1>3, <2>1, ExecutesTyped, Registered DEF SwitchAt, k
  <2>3. v[PC] = 8 /\ v[0] = 2 * k /\ v[5] = 0
    BY <2>2, Registered DEF With
  <2>4. z.store /\ z.val = 2 * k /\ (2 * k) % 2^(2 * W) = 2 * k /\ k \in Word
    <3>1. (2 * k) % 2^W = 2 * k /\ (2 * k) % 2^(2 * W) = 2 * k /\ k \in Word /\ Bits(2) = W
      <4>1. 2 * k \in {0, 2, 4, 6}
        BY <1>0
      <4>2. \A y \in {0, 2, 4, 6} : y \in Word /\ y % 2^W = y /\ y % 2^(2 * W) = y
        BY Sizes
      <4>3. k \in Word
        BY <1>0, Sizes
      <4> QED BY <4>1, <4>2, <4>3 DEF Bits
    <3> QED BY <3>1 DEF Computed1, ASL, Result
  <2>5. Is(z, Computed1("ASL", k, 2, m.f))
    BY DEF Is
  <2> HIDE DEF z
  <2>6. Goes(With(r, 0, z.val % 2^(2 * W)), z.f, m.core)
    BY <2>1, <2>2, <2>4, <2>5, Registered, UnaryOn
  <2>7. Goes(v, z.f, m.core)
    BY <2>4, <2>6
  <2> HIDE DEF v
  <2>8. SwitchAt(start, v, z.f, m.core)
    BY <2>3 DEF SwitchAt, k
  <2> QED BY <1>3, <2>7, <2>8 DEF Goes, Becomes, SwitchAt
<1>4. CASE m.r[PC] = 8
  <2> DEFINE a == 20 + 2 * k
             b == 12 + 2 * k
             v == With(With(r, PC, 8 + 4), PC, a)
  <2>1. Executes(8, One("JMP", IdxDeferred(0)), r) /\ 8 + 2 = 10
    BY <1>4, SwitchText DEF Executes
  <2> HIDE DEF r
  <2>2. r[PC] = 10 /\ r \in [0 .. 7 -> Long] /\ r[0] = 2 * k /\ r[5] = 0
    BY <1>4, <2>1, ExecutesTyped, Registered DEF SwitchAt, k
  <2>3. v[PC] = a /\ v[5] = 0
    BY <2>2, Registered DEF With
  <2>4. Lies(8 + 2, Data(12)) /\ Lies(b, Data(a)) /\ a \in Int /\ 0 <= a /\ a < 32
    <3>1. \/ b = 12 /\ a = 20
          \/ b = 14 /\ a = 22
          \/ b = 16 /\ a = 24
          \/ b = 18 /\ a = 26
      BY <1>0
    <3> HIDE DEF a, b
    <3> QED BY <2>1, <3>1, SwitchText
  <2>5. b = ((12 % 2^W) + r[0]) % 2^W
    <3>1. 12 % 2^W = 12 /\ (12 + 2 * k) % 2^W = 12 + 2 * k
      BY <1>0, Sizes
    <3> QED BY <2>2, <3>1
  <2> HIDE DEF a, b
  <2>6. Goes(v, m.f, m.core)
    BY <2>1, <2>4, <2>5, JumpGoes
  <2> HIDE DEF v
  <2>7. SwitchAt(start, v, m.f, m.core)
    BY <1>0, <2>3 DEF SwitchAt, k, a
  <2> QED BY <1>4, <2>6, <2>7 DEF Goes, Becomes, SwitchAt
<1>5. CASE m.r[PC] \in {20, 22, 24}
  <2> DEFINE p == m.r[PC]
             n == m.r[5]
             z == Computed1("INC", n, 2, m.f)
             v == With(r, 5, n + 1)
  <2>1. Executes(p, One("INC", Rg(5)), r) /\ "INC" \in OneOperand
    BY <1>5, SwitchText DEF Executes, OneOperand
  <2> HIDE DEF r
  <2>2. r[PC] = p + 2 /\ r \in [0 .. 7 -> Long] /\ r[5] = n
    BY <1>5, <2>1, ExecutesTyped, Registered
  <2>3. n \in 0 .. 3 /\ p = 20 + 2 * (k + n) /\ p \in {20, 22, 24}
    BY <1>5 DEF SwitchAt, k
  <2> HIDE DEF p, n
  <2>4. v[PC] = p + 2 /\ v[5] = n + 1
    BY <2>2, Registered DEF With
  <2>5. z.store /\ z.val = n + 1 /\ (n + 1) % 2^(2 * W) = n + 1 /\ n \in Word
    <3>1. (n + 1) % 2^W = n + 1 /\ (n + 1) % 2^(2 * W) = n + 1 /\ n \in Word /\ Bits(2) = W
      BY <2>3, Sizes, SMTT(60) DEF Bits
    <3> QED BY <3>1 DEF Computed1, INC, Result
  <2>6. Is(z, Computed1("INC", n, 2, m.f))
    BY DEF Is
  <2> HIDE DEF z
  <2>7. Goes(With(r, 5, z.val % 2^(2 * W)), z.f, m.core)
    BY <2>1, <2>2, <2>5, <2>6, Registered, UnaryOn
  <2>8. Goes(v, z.f, m.core)
    BY <2>5, <2>7
  <2> HIDE DEF v
  <2>9. n + 1 \in 0 .. 3 /\ p + 2 = 20 + 2 * (k + (n + 1)) /\ p + 2 \in {22, 24, 26}
    BY <1>0, <2>3
  <2>10. SwitchAt(start, v, z.f, m.core)
    <3>1. v[5] \in 0 .. 3 /\ v[PC] = 20 + 2 * (k + v[5]) /\ v[PC] \in {22, 24, 26}
      BY <2>4, <2>9
    <3> QED BY <3>1 DEF SwitchAt, k
  <2>11. \A g : SwitchAt(start, m.r, g, m.core)
    BY DEF SwitchAt
  <2> QED BY <2>8, <2>10, <2>11 DEF Goes, Becomes
<1>6. m.r[PC] # 26
  BY SwitchText, Numbers, EndsBehind
<1> QED BY <1>1, <1>2, <1>3, <1>4, <1>5, <1>6 DEF SwitchAt

-----------------------------------------------------------------------------
(***************************************************************************)
(* Double words.                                                           *)
(***************************************************************************)

\* Of the flags the operations on the lower words look at none, and those on the
\* upper words at the carry.
LEMMA LowerTold ==
    ASSUME NEW op \in {"ADD", "SUB"}, NEW a \in Word, NEW b \in Word, NEW f, NEW g
    PROVE  LET z == Computed2(op, a, b, 2, f) IN
           z = Computed2(op, a, b, 2, g) /\ z.store /\ z.val \in Word /\ z.val % 2^W = z.val
<1> DEFINE z == Computed2(op, a, b, 2, f)
<1>1. z = Computed2(op, a, b, 2, g) /\ z.store
  BY DEF Computed2, ADD, SUB, Result
<1>2. (a + b) % 2^W \in Word /\ (b - a) % 2^W \in Word
  BY WordFacts, WordsInt
<1>3. z.val \in {(a + b) % 2^W, (b - a) % 2^W}
  BY DEF Computed2, ADD, SUB, Result, Bits
<1> QED BY <1>1, <1>2, <1>3, SmallSums

\* ADC and SBC look at the carry only.
LEMMA UpperTold ==
    ASSUME NEW op \in {"ADC", "SBC"}, NEW x \in Word, NEW f \in Flags, NEW g \in Flags, f.c = g.c
    PROVE  LET z == Computed1(op, x, 2, f) IN
           /\ z = Computed1(op, x, 2, g) /\ z.val \in Word /\ z.val % 2^W = z.val
           /\ ~z.store => z.val = x
<1> DEFINE z == Computed1(op, x, 2, f)
<1>1. z = Computed1(op, x, 2, g) /\ (~z.store => z.val = x)
  BY DEF Computed1, ADC, SBC, Result, Flags
<1>2. (x + 1) % 2^W \in Word /\ (x - 1) % 2^W \in Word /\ (x - 0) % 2^W \in Word
  BY WordFacts, WordsInt
<1>3. z.val \in {(x + 1) % 2^W, (x - 1) % 2^W, (x - 0) % 2^W, x}
  BY DEF Computed1, ADC, SBC, Result, Bits, Flags
<1> QED BY <1>1, <1>2, <1>3, SmallSums

\* What the operations on the lower words tell are flags.
LEMMA FlagsTold ==
    ASSUME NEW s \in Machine, Hosted
    PROVE  /\ \A a \in {A, A + 2, A + 4, B, B + 2} : s.core[a] \in Word
           /\ s.f \in Flags
           /\ \A op \in {"ADD", "SUB"} : Computed2(op, s.core[A], s.core[B], 2, s.f).f \in Flags
           /\ \A op \in OneOperand : Computed1(op, s.core[B], 2, s.f).f \in Flags
                                     /\ Computed1(op, s.core[B + 2], 2, s.f).f \in Flags
<1>1. /\ \A a \in {A, A + 2, A + 4, B, B + 2} : s.core[a] \in Word
      /\ s.f \in Flags
  BY PlainCells, PlainFacts DEF Machine
<1>2. 2 \in {1, 2} /\ "ADD" \in TwoOperands /\ "SUB" \in TwoOperands
  BY DEF TwoOperands
<1>3. /\ \A op \in {"ADD", "SUB"} : Computed2(op, s.core[A], s.core[B], 2, s.f) \in Results
      /\ \A op \in OneOperand : Computed1(op, s.core[B], 2, s.f) \in Results
                                /\ Computed1(op, s.core[B + 2], 2, s.f) \in Results
  BY <1>1, <1>2, Computed1Typed, Computed2Typed
<1> QED BY <1>1, <1>3 DEF Results

\* A sum and a difference: the lower words, the carry, the upper words.
Chains(op, carry, x) ==
    \/ op = "ADD" /\ carry = "ADC" /\ x = Add2
    \/ op = "SUB" /\ carry = "SBC" /\ x = Sub2
Lower(op, s) == Computed2(op, s.core[A], s.core[B], 2, s.f)
Upper(op, carry, s) == Computed1(carry, s.core[B + 2], 2, Lower(op, s).f)

ChainAt(op, carry, s, r, f, c) ==
    /\ r[PC] \in {0, 2, 4, 6}
    /\ r[PC] = 0 => r[1] = A /\ r[2] = B /\ c[A] = s.core[A] /\ c[B] = s.core[B]
    /\ r[PC] \in {2, 4} => r[1] = A + 2 /\ r[2] = B + 2
    /\ r[PC] \in {0, 2, 4} => c[A + 2] = s.core[A + 2]
    /\ r[PC] \in {0, 2} => c[B + 2] = s.core[B + 2]
    /\ r[PC] \in {2, 4, 6} => c[B] = Lower(op, s).val
    /\ r[PC] = 2 => f.c = Lower(op, s).f.c
    /\ r[PC] = 4 => c[B + 2] = Upper(op, carry, s).val
    /\ r[PC] = 6 => c[B + 2] = Computed2(op, s.core[A + 2], Upper(op, carry, s).val, 2,
                                         Upper(op, carry, s).f).val

\* What lies in the text of the adding or subtracting routine.
LEMMA ChainText ==
    ASSUME NEW op, NEW carry, Chains(op, carry, routine)
    PROVE  /\ Lies(0, Two(op, Inc(1), Inc(2))) /\ Lies(2, One(carry, At(2)))
           /\ Lies(4, Two(op, At(1), At(2))) /\ DOMAIN routine.text = 1 .. 3
<1> DEFINE t == routine.text
<1>1. t = <<Two(op, Inc(1), Inc(2)), One(carry, At(2)), Two(op, At(1), At(2))>>
  BY DEF Chains, Add2, Sub2, Routine
<1>2. /\ DOMAIN t = 1 .. 3 /\ t[1] = Two(op, Inc(1), Inc(2))
      /\ t[2] = One(carry, At(2)) /\ t[3] = Two(op, At(1), At(2))
  BY <1>1
<1> QED BY <1>2, Numbers, LiesAt

\* Each step of the adding or subtracting routine, and each abort, keeps its
\* assertion.
LEMMA ChainKept ==
    ASSUME TypeOK, Hosted, Step, NEW op, NEW carry, Chains(op, carry, routine),
           ChainAt(op, carry, start, m.r, m.f, m.core)
    PROVE  /\ m'.left \in {"no", "fault"}
           /\ Runs(m') => ChainAt(op, carry, start, m'.r, m'.f, m'.core)
           /\ m'.left = "fault" => /\ m'.pc = m.r[PC] /\ m'.core = m.core
                                   /\ ChainAt(op, carry, start, m.r, m'.f, m.core)
<1> DEFINE r == [m.r EXCEPT ![PC] = m.r[PC] + 2]
           lo == Lower(op, start)
           hi == Upper(op, carry, start)
<1>0. /\ m.core \in [Cells -> Word] /\ Plain(A) /\ Plain(A + 2) /\ Plain(B) /\ Plain(B + 2)
      /\ start.core[A] \in Word /\ start.core[A + 2] \in Word
      /\ start.core[B] \in Word /\ start.core[B + 2] \in Word
      /\ op \in {"ADD", "SUB"} /\ carry \in {"ADC", "SBC"} /\ lo.f \in Flags
      /\ op \in TwoOperands /\ carry \in OneOperand /\ m.f \in Flags
  BY PlainCells, FlagsTold DEF TypeOK, Machine, Chains, TwoOperands, OneOperand, Lower
<1>1. CASE m.r[PC] = 0
  <2> DEFINE s == With(r, 1, A + 2)
             v == With(s, 2, B + 2)
             z == Computed2(op, m.core[A], m.core[B], 2, m.f)
             d == With(m.core, B, lo.val)
  <2>1. Executes(0, Two(op, Inc(1), Inc(2)), r)
    BY <1>1, ChainText DEF Executes
  <2> HIDE DEF r
  <2>2. /\ r[PC] = 2 /\ r \in [0 .. 7 -> Long] /\ r[1] = A /\ r[2] = B
        /\ m.core[A] = start.core[A] /\ m.core[B] = start.core[B]
        /\ m.core[A + 2] = start.core[A + 2] /\ m.core[B + 2] = start.core[B + 2]
    BY <1>1, <2>1, ExecutesTyped, Registered DEF ChainAt
  <2>3. s[2] = B /\ v[PC] = 2 /\ v[1] = A + 2 /\ v[2] = B + 2
    BY <2>2, Registered DEF With
  <2>4. z = lo /\ lo.store /\ lo.val % 2^W = lo.val
    BY <1>0, <2>2, LowerTold DEF Lower
  <2>5. d[B] = lo.val /\ d[A + 2] = start.core[A + 2] /\ d[B + 2] = start.core[B + 2]
    BY <1>0, <2>2, Apart, WithGives
  <2>6. Is(lo, Computed2(op, m.core[A], m.core[B], 2, m.f))
    BY <2>4 DEF Is
  <2>7. Finds(Inc(1), 2, r, m.core, A, s)
    BY <1>0, <2>2, Registered, IncGoes
  <2> HIDE DEF s, z, lo
  <2>8. Finds(Inc(2), 2, s, m.core, B, v)
    BY <1>0, <2>3, Registered, IncGoes
  <2> HIDE DEF v
  <2>9. Goes(v, lo.f, d)
    BY <1>0, <2>1, <2>4, <2>6, <2>7, <2>8, BinaryWords
  <2> HIDE DEF d
  <2>10. ChainAt(op, carry, start, v, lo.f, d)
    BY <2>3, <2>5 DEF ChainAt, lo
  <2> QED BY <1>1, <2>9, <2>10 DEF Goes, Becomes, ChainAt
<1>2. CASE m.r[PC] = 2
  <2> DEFINE d == IF hi.store THEN With(m.core, B + 2, hi.val) ELSE m.core
  <2>1. Executes(2, One(carry, At(2)), r)
    BY <1>2, ChainText DEF Executes
  <2> HIDE DEF r
  <2>2. /\ r[PC] = 4 /\ r \in [0 .. 7 -> Long] /\ r[1] = A + 2 /\ r[2] = B + 2
        /\ m.core[A + 2] = start.core[A + 2] /\ m.core[B + 2] = start.core[B + 2]
        /\ m.core[B] = lo.val /\ m.f.c = lo.f.c
    BY <1>2, <2>1, ExecutesTyped, Registered DEF ChainAt
  <2>3. /\ Is(hi, Computed1(carry, m.core[B + 2], 2, m.f)) /\ hi.val % 2^W = hi.val
        /\ ~hi.store => hi.val = m.core[B + 2]
    BY <1>0, <2>2, UpperTold DEF Upper, Is
  <2> HIDE DEF hi, lo
  <2>4. d[B + 2] = hi.val /\ d[A + 2] = start.core[A + 2] /\ d[B] = lo.val
    BY <1>0, <2>2, <2>3, Apart, WithGives
  <2>5. Finds(At(2), 2, r, m.core, B + 2, r)
    BY <1>0, <2>2, Registered, AtGoes
  <2>6. Goes(r, hi.f, d) /\ (m'.left = "fault" => m'.f.c = m.f.c)
    BY <1>0, <2>1, <2>3, <2>5, UnaryIn
  <2> HIDE DEF d
  <2>7. ChainAt(op, carry, start, r, hi.f, d)
    BY <2>2, <2>4 DEF ChainAt, lo, hi
  <2> QED BY <1>2, <2>6, <2>7 DEF Goes, Becomes, ChainAt
<1>3. CASE m.r[PC] = 4
  <2> DEFINE z == Computed2(op, start.core[A + 2], hi.val, 2, hi.f)
             y == Computed2(op, m.core[A + 2], m.core[B + 2], 2, m.f)
             d == With(m.core, B + 2, z.val)
  <2>1. Executes(4, Two(op, At(1), At(2)), r)
    BY <1>3, ChainText DEF Executes
  <2> HIDE DEF r
  <2>2. /\ r[PC] = 6 /\ r \in [0 .. 7 -> Long] /\ r[1] = A + 2 /\ r[2] = B + 2
        /\ m.core[A + 2] = start.core[A + 2] /\ m.core[B + 2] = hi.val
        /\ m.core[B] = lo.val
    BY <1>3, <2>1, ExecutesTyped, Registered DEF ChainAt
  <2>3. m.core[B + 2] \in Word
    BY <1>0, PlainFacts
  <2> HIDE DEF hi, lo
  <2>4. Is(z, y) /\ z.store /\ z.val % 2^W = z.val
    BY <1>0, <2>2, <2>3, LowerTold DEF Is
  <2> HIDE DEF z
  <2>5. d[B + 2] = z.val /\ d[B] = lo.val
    BY <1>0, <2>2, Apart, WithGives
  <2>6. Finds(At(1), 2, r, m.core, A + 2, r) /\ Finds(At(2), 2, r, m.core, B + 2, r)
    BY <1>0, <2>2, Registered, AtGoes
  <2>7. Goes(r, z.f, d)
    BY <1>0, <2>1, <2>4, <2>6, BinaryWords
  <2> HIDE DEF d
  <2>8. ChainAt(op, carry, start, r, z.f, d)
    BY <2>2, <2>5 DEF ChainAt, lo, hi, z
  <2> QED BY <1>3, <2>7, <2>8 DEF Goes, Becomes, ChainAt
<1>4. m.r[PC] # 6
  BY ChainText, Numbers, EndsBehind
<1> QED BY <1>1, <1>2, <1>3, <1>4 DEF ChainAt

-----------------------------------------------------------------------------
\* NEG looks at no flag and is stored.
LEMMA NegTold ==
    ASSUME NEW x \in Word, NEW f, NEW g
    PROVE  LET z == NEG(x, 2, f) IN
           /\ z = Computed1("NEG", x, 2, g) /\ z.store /\ z.val \in Word /\ z.val % 2^W = z.val
<1>1. (-x) % 2^W \in Word
  BY WordFacts, WordsInt
<1>2. NEG(x, 2, f).val = (-x) % 2^W
  BY DEF NEG, Result, Bits
<1> QED BY <1>1, <1>2, SmallSums DEF Computed1, NEG, Result

\* A negation: both words, then the borrow of the lower from the upper one.
NegLow(s) == NEG(s.core[B], 2, s.f)
NegHigh(s) == NEG(s.core[B + 2], 2, s.f)

NegAt(s, r, f, c) ==
    /\ r[PC] \in {0, 4, 6, 10}
    /\ r[2] = B
    /\ r[PC] = 0 => c[B + 2] = s.core[B + 2]
    /\ r[PC] \in {0, 4} => c[B] = s.core[B]
    /\ r[PC] \in {4, 6} => c[B + 2] = NegHigh(s).val
    /\ r[PC] \in {6, 10} => c[B] = NegLow(s).val
    /\ r[PC] = 6 => f.c = NegLow(s).f.c
    /\ r[PC] = 10 => c[B + 2] = SBC(NegHigh(s).val, 2, NegLow(s).f).val

\* What lies in the text of the negating routine.
LEMMA NegText ==
    ASSUME routine = Neg2
    PROVE  /\ Lies(0, One("NEG", Idx(2))) /\ Lies(2, Data(2)) /\ Lies(4, One("NEG", At(2)))
           /\ Lies(6, One("SBC", Idx(2))) /\ Lies(8, Data(2)) /\ DOMAIN routine.text = 1 .. 5
<1> DEFINE t == routine.text
<1>1. t = <<One("NEG", Idx(2)), Data(2), One("NEG", At(2)), One("SBC", Idx(2)), Data(2)>>
  BY DEF Neg2, Routine
<1>2. /\ DOMAIN t = 1 .. 5 /\ t[1] = One("NEG", Idx(2)) /\ t[2] = Data(2)
      /\ t[3] = One("NEG", At(2)) /\ t[4] = One("SBC", Idx(2)) /\ t[5] = Data(2)
  BY <1>1
<1> QED BY <1>2, Numbers, LiesAt

\* Each step of the negating routine, and each abort, keeps its assertion.
LEMMA NegKept ==
    ASSUME TypeOK, Hosted, Step, routine = Neg2, NegAt(start, m.r, m.f, m.core)
    PROVE  /\ m'.left \in {"no", "fault"}
           /\ Runs(m') => NegAt(start, m'.r, m'.f, m'.core)
           /\ m'.left = "fault" => /\ m'.pc = m.r[PC] /\ m'.core = m.core
                                   /\ NegAt(start, m.r, m'.f, m.core)
<1> DEFINE r == [m.r EXCEPT ![PC] = m.r[PC] + 2]
           lo == NegLow(start)
           hi == NegHigh(start)
           last == SBC(hi.val, 2, lo.f)
<1>0. /\ m.core \in [Cells -> Word] /\ Plain(B) /\ Plain(B + 2) /\ m.f \in Flags
      /\ start.core[B] \in Word /\ start.core[B + 2] \in Word
      /\ lo.f \in Flags /\ "NEG" \in OneOperand /\ "SBC" \in OneOperand
      /\ hi.val \in Word /\ hi.val % 2^W = hi.val /\ lo.val % 2^W = lo.val /\ lo.store /\ hi.store
  BY PlainCells, FlagsTold, NegTold DEF TypeOK, Machine, OneOperand, NegLow, NegHigh
<1>1. CASE m.r[PC] = 0
  <2> DEFINE v == With(r, PC, 4)
             d == With(m.core, B + 2, hi.val)
  <2>1. Executes(0, One("NEG", Idx(2)), r) /\ Lies(2, Data(2)) /\ 2 + 2 = 4 /\ Hosted
    BY <1>1, NegText DEF Executes
  <2> HIDE DEF r
  <2>2. /\ r[PC] = 2 /\ r \in [0 .. 7 -> Long] /\ r[2] = B
        /\ m.core[B] = start.core[B] /\ m.core[B + 2] = start.core[B + 2]
    BY <1>1, <2>1, ExecutesTyped, Registered DEF NegAt
  <2>3. v[PC] = 4 /\ v[2] = B
    BY <2>2, Registered DEF With
  <2>4. Is(hi, Computed1("NEG", m.core[B + 2], 2, m.f))
    BY <1>0, <2>2, NegTold DEF Is, NegHigh
  <2>5. d[B + 2] = hi.val /\ d[B] = start.core[B]
    BY <1>0, <2>2, Apart, WithGives
  <2>6. Finds(Idx(2), 2, r, m.core, B + 2, v)
    <3>1. Finds(Idx(2), 2, r, m.core, B + 2, With(r, PC, 2 + 2))
      BY <1>0, <2>1, <2>2, Registered, NextGoes
    <3> QED BY <2>1, <3>1
  <2> HIDE DEF hi, v
  <2>7. Goes(v, hi.f, d)
    BY <1>0, <2>1, <2>4, <2>6, UnaryIn
  <2> HIDE DEF d
  <2>8. NegAt(start, v, hi.f, d)
    BY <2>3, <2>5 DEF NegAt, hi
  <2> QED BY <1>1, <2>7, <2>8 DEF Goes, Becomes, NegAt
<1>2. CASE m.r[PC] = 4
  <2> DEFINE d == With(m.core, B, lo.val)
  <2>1. Executes(4, One("NEG", At(2)), r)
    BY <1>2, NegText DEF Executes
  <2> HIDE DEF r
  <2>2. /\ r[PC] = 6 /\ r \in [0 .. 7 -> Long] /\ r[2] = B
        /\ m.core[B] = start.core[B] /\ m.core[B + 2] = hi.val
    BY <1>2, <2>1, ExecutesTyped, Registered DEF NegAt
  <2>3. Is(lo, Computed1("NEG", m.core[B], 2, m.f))
    BY <1>0, <2>2, NegTold DEF Is, NegLow
  <2> HIDE DEF lo, hi
  <2>4. d[B] = lo.val /\ d[B + 2] = hi.val
    BY <1>0, <2>2, Apart, WithGives
  <2>5. Finds(At(2), 2, r, m.core, B, r)
    BY <1>0, <2>2, Registered, AtGoes
  <2>6. Goes(r, lo.f, d)
    BY <1>0, <2>1, <2>3, <2>5, UnaryIn
  <2> HIDE DEF d
  <2>7. NegAt(start, r, lo.f, d)
    BY <2>2, <2>4 DEF NegAt, lo, hi
  <2> QED BY <1>2, <2>6, <2>7 DEF Goes, Becomes, NegAt
<1>3. CASE m.r[PC] = 6
  <2> DEFINE v == With(r, PC, 10)
             d == With(m.core, B + 2, last.val)
  <2>1. Executes(6, One("SBC", Idx(2)), r) /\ Lies(8, Data(2)) /\ 8 + 2 = 10 /\ Hosted
    BY <1>3, NegText DEF Executes
  <2> HIDE DEF r
  <2>2. /\ r[PC] = 8 /\ r \in [0 .. 7 -> Long] /\ r[2] = B
        /\ m.core[B] = lo.val /\ m.core[B + 2] = hi.val /\ m.f.c = lo.f.c
    BY <1>3, <2>1, ExecutesTyped, Registered DEF NegAt
  <2>3. v[PC] = 10 /\ v[2] = B
    BY <2>2, Registered DEF With
  <2> HIDE DEF hi, lo
  <2>4. Is(last, Computed1("SBC", m.core[B + 2], 2, m.f)) /\ last.store /\ last.val % 2^W = last.val
    <3>1. last = Computed1("SBC", hi.val, 2, lo.f) /\ last.store
      BY DEF Computed1, SBC, Result
    <3> QED BY <1>0, <2>2, <3>1, UpperTold DEF Is
  <2> HIDE DEF last
  <2>5. d[B + 2] = last.val /\ d[B] = lo.val
    BY <1>0, <2>2, Apart, WithGives
  <2>6. Finds(Idx(2), 2, r, m.core, B + 2, v)
    <3>1. Finds(Idx(2), 2, r, m.core, B + 2, With(r, PC, 8 + 2))
      BY <1>0, <2>1, <2>2, Registered, NextGoes
    <3> QED BY <2>1, <3>1
  <2> HIDE DEF v
  <2>7. Goes(v, last.f, d) /\ (m'.left = "fault" => m'.f.c = m.f.c)
    BY <1>0, <2>1, <2>4, <2>6, UnaryIn
  <2> HIDE DEF d
  <2>8. NegAt(start, v, last.f, d)
    BY <2>3, <2>5 DEF NegAt, hi, lo, last
  <2> QED BY <1>3, <2>7, <2>8 DEF Goes, Becomes, NegAt
<1>4. m.r[PC] # 10
  BY NegText, Numbers, EndsBehind
<1> QED BY <1>1, <1>2, <1>3, <1>4 DEF NegAt

-----------------------------------------------------------------------------
\* What a rotation shifts in is the carry.
LEMMA RotationsTold ==
    ASSUME NEW op \in {"ROL", "ROR"}, NEW x \in Word, NEW f \in Flags, NEW g \in Flags, f.c = g.c
    PROVE  LET z == Computed1(op, x, 2, f)
               y == Computed1(op, x, 2, g)
           IN z.val = y.val /\ z.f.c = y.f.c /\ z.store /\ y.f \in Flags
<1>1. Computed1(op, x, 2, g) \in Results
  BY Computed1Typed, Registered DEF OneOperand
<1>2. ROL(x, 2, f).val = ROL(x, 2, g).val /\ ROL(x, 2, f).f.c = ROL(x, 2, g).f.c /\ ROL(x, 2, f).store
  BY DEF ROL, Result
<1>3. ROR(x, 2, f).val = ROR(x, 2, g).val /\ ROR(x, 2, f).f.c = ROR(x, 2, g).f.c /\ ROR(x, 2, f).store
  BY DEF ROR, Result
<1>4. /\ \A k : op = "ROL" => Computed1(op, x, 2, k) = ROL(x, 2, k)
      /\ \A k : op = "ROR" => Computed1(op, x, 2, k) = ROR(x, 2, k)
  BY DEF Computed1
<1> QED BY <1>1, <1>2, <1>3, <1>4 DEF Results

\* ROR yields a word.
LEMMA HalfTyped ==
    ASSUME NEW x \in Word, NEW f \in Flags
    PROVE  LET z == ROR(x, 2, f) IN z.val \in Word /\ z.val % 2^W = z.val
<1>1. x \div 2 \in 0 .. 2^(W - 1) - 1 /\ 2^(W - 1) \in Int /\ 2^W = 2 * 2^(W - 1)
  BY Powers DEF Word
<1> DEFINE h == 2^(W - 1)
<1>2. SignBit(2) = h
  BY DEF SignBit, Bits
<1>3. ROR(x, 2, f).val = x \div 2 + (IF f.c THEN h ELSE 0)
  BY <1>2 DEF ROR, Result
<1>4. ROR(x, 2, f).val \in Word
  <2>1. 2^W - 1 = 2 * h - 1 /\ x \div 2 \in 0 .. h - 1 /\ h \in Int
    BY <1>1
  <2> DEFINE q == x \div 2
             t == 2^W
  <2>2. ROR(x, 2, f).val \in {q, q + h} /\ q \in 0 .. h - 1 /\ t - 1 = 2 * h - 1
    BY <1>3, <2>1
  <2> HIDE DEF q, h
  <2>3. q \in 0 .. t - 1 /\ q + h \in 0 .. t - 1
    BY <2>1, <2>2
  <2> QED BY <2>2, <2>3 DEF Word
<1> QED BY <1>4, SmallSums

\* Doubling: the lower word's highest bit goes to the upper word.
AslLow(s) == ASL(s.core[B], 2, s.f)

AslAt(s, r, f, c) ==
    /\ r[PC] \in {0, 2, 4}
    /\ r[PC] = 0 => r[2] = B /\ c[B] = s.core[B]
    /\ r[PC] \in {0, 2} => c[B + 2] = s.core[B + 2]
    /\ r[PC] = 2 => r[2] = B + 2 /\ f.c = AslLow(s).f.c
    /\ r[PC] \in {2, 4} => c[B] = AslLow(s).val
    /\ r[PC] = 4 => c[B + 2] = ROL(s.core[B + 2], 2, AslLow(s).f).val % 2^W

\* What lies in the text of the doubling routine.
LEMMA AslText ==
    ASSUME routine = Asl2
    PROVE  /\ Lies(0, One("ASL", Inc(2))) /\ Lies(2, One("ROL", At(2)))
           /\ DOMAIN routine.text = 1 .. 2
<1> DEFINE t == routine.text
<1>1. t = <<One("ASL", Inc(2)), One("ROL", At(2))>>
  BY DEF Asl2, Routine
<1>2. DOMAIN t = 1 .. 2 /\ t[1] = One("ASL", Inc(2)) /\ t[2] = One("ROL", At(2))
  BY <1>1
<1> QED BY <1>2, Numbers, LiesAt

\* Each step of the doubling routine, and each abort, keeps its assertion.
LEMMA AslKept ==
    ASSUME TypeOK, Hosted, Step, routine = Asl2, AslAt(start, m.r, m.f, m.core)
    PROVE  /\ m'.left \in {"no", "fault"}
           /\ Runs(m') => AslAt(start, m'.r, m'.f, m'.core)
           /\ m'.left = "fault" => /\ m'.pc = m.r[PC] /\ m'.core = m.core
                                   /\ AslAt(start, m.r, m'.f, m.core)
<1> DEFINE r == [m.r EXCEPT ![PC] = m.r[PC] + 2]
           lo == AslLow(start)
           x == start.core[B + 2]
           last == ROL(x, 2, lo.f)
<1>0. /\ m.core \in [Cells -> Word] /\ Plain(B) /\ Plain(B + 2) /\ m.f \in Flags
      /\ start.core[B] \in Word /\ x \in Word
      /\ Computed1("ASL", start.core[B], 2, start.f).f \in Flags
      /\ "ASL" \in OneOperand /\ "ROL" \in OneOperand
  BY PlainCells, FlagsTold DEF TypeOK, Machine, OneOperand
<1>01. /\ lo.f \in Flags /\ lo.store /\ lo.val % 2^W = lo.val
       /\ \A f : lo = Computed1("ASL", start.core[B], 2, f)
  <2>1. \A f : lo = Computed1("ASL", start.core[B], 2, f)
    BY DEF AslLow, Computed1, ASL, Result
  <2>2. lo.val = (2 * start.core[B]) % 2^W /\ lo.store
    BY DEF AslLow, ASL, Result, Bits
  <2>3. (2 * start.core[B]) % 2^W \in Word
    <3>1. start.core[B] \in Int
      BY <1>0, SmallSums
    <3>2. 2 * start.core[B] \in Int
      BY <3>1
    <3> QED BY <3>2, WordFacts
  <2> QED BY <1>0, <2>1, <2>2, <2>3, SmallSums
<1>1. CASE m.r[PC] = 0
  <2> DEFINE v == With(r, 2, B + 2)
             d == With(m.core, B, lo.val)
  <2>1. Executes(0, One("ASL", Inc(2)), r)
    BY <1>1, AslText DEF Executes
  <2> HIDE DEF r
  <2>2. /\ r[PC] = 2 /\ r \in [0 .. 7 -> Long] /\ r[2] = B
        /\ m.core[B] = start.core[B] /\ m.core[B + 2] = x
    BY <1>1, <2>1, ExecutesTyped, Registered DEF AslAt
  <2>3. v[PC] = 2 /\ v[2] = B + 2
    BY <2>2, Registered DEF With
  <2>4. Is(lo, Computed1("ASL", m.core[B], 2, m.f))
    BY <1>01, <2>2 DEF Is
  <2> HIDE DEF lo, x
  <2>5. d[B] = lo.val /\ d[B + 2] = x
    BY <1>0, <2>2, Apart, WithGives
  <2>6. Finds(Inc(2), 2, r, m.core, B, v)
    BY <1>0, <2>2, Registered, IncGoes
  <2> HIDE DEF v
  <2>7. Goes(v, lo.f, d)
    BY <1>0, <1>01, <2>1, <2>4, <2>6, UnaryIn
  <2> HIDE DEF d
  <2>8. AslAt(start, v, lo.f, d)
    BY <2>3, <2>5 DEF AslAt, lo, x
  <2> QED BY <1>1, <2>7, <2>8 DEF Goes, Becomes, AslAt
<1>2. CASE m.r[PC] = 2
  <2> DEFINE z == Computed1("ROL", x, 2, m.f)
             e == z.val % 2^W
             d == With(m.core, B + 2, e)
  <2>1. Executes(2, One("ROL", At(2)), r)
    BY <1>2, AslText DEF Executes
  <2> HIDE DEF r
  <2>2. /\ r[PC] = 4 /\ r \in [0 .. 7 -> Long] /\ r[2] = B + 2
        /\ m.core[B] = lo.val /\ m.core[B + 2] = x /\ m.f.c = lo.f.c
    BY <1>2, <2>1, ExecutesTyped, Registered DEF AslAt
  <2>3. last = Computed1("ROL", x, 2, lo.f)
    BY DEF Computed1
  <2> HIDE DEF lo, x, last
  <2>4. z.val = last.val /\ z.store
    BY <1>0, <1>01, <2>2, <2>3, RotationsTold
  <2>5. Is(z, Computed1("ROL", m.core[B + 2], 2, m.f))
    BY <2>2 DEF Is
  <2> HIDE DEF z
  <2>6. d[B + 2] = last.val % 2^W /\ d[B] = lo.val
    BY <1>0, <2>2, <2>4, Apart, WithGives
  <2>7. Finds(At(2), 2, r, m.core, B + 2, r)
    BY <1>0, <2>2, Registered, AtGoes
  <2>8. Goes(r, z.f, d) /\ (m'.left = "fault" => m'.f.c = m.f.c)
    BY <1>0, <2>1, <2>4, <2>5, <2>7, UnaryIn
  <2> HIDE DEF d, e
  <2>9. AslAt(start, r, z.f, d)
    BY <2>2, <2>6 DEF AslAt, lo, x, last
  <2> QED BY <1>2, <2>8, <2>9 DEF Goes, Becomes, AslAt
<1>3. m.r[PC] # 4
  BY AslText, Numbers, EndsBehind
<1> QED BY <1>1, <1>2, <1>3 DEF AslAt

\* Halving: carry cleared, the upper word's lowest bit goes to the lower word.
LsrHigh(s) == ROR(s.core[B + 2], 2, [s.f EXCEPT !.c = FALSE])

LsrAt(s, r, f, c) ==
    /\ r[PC] \in {0, 2, 6, 8}
    /\ r[2] = B
    /\ r[PC] \in {0, 2} => c[B + 2] = s.core[B + 2]
    /\ r[PC] \in {0, 2, 6} => c[B] = s.core[B]
    /\ r[PC] = 2 => f.c = FALSE
    /\ r[PC] = 6 => f.c = LsrHigh(s).f.c
    /\ r[PC] \in {6, 8} => c[B + 2] = LsrHigh(s).val
    /\ r[PC] = 8 => c[B] = ROR(s.core[B], 2, LsrHigh(s).f).val

\* What lies in the text of the halving routine.
LEMMA LsrText ==
    ASSUME routine = Lsr2
    PROVE  /\ Lies(0, Go("CCC", 1)) /\ Lies(2, One("ROR", Idx(2))) /\ Lies(4, Data(2))
           /\ Lies(6, One("ROR", At(2))) /\ DOMAIN routine.text = 1 .. 4
<1> DEFINE t == routine.text
<1>1. t = <<Go("CCC", 1), One("ROR", Idx(2)), Data(2), One("ROR", At(2))>>
  BY DEF Lsr2, Routine
<1>2. /\ DOMAIN t = 1 .. 4 /\ t[1] = Go("CCC", 1) /\ t[2] = One("ROR", Idx(2))
      /\ t[3] = Data(2) /\ t[4] = One("ROR", At(2))
  BY <1>1
<1> QED BY <1>2, Numbers, LiesAt

\* Each step of the halving routine, and each abort, keeps its assertion.
LEMMA LsrKept ==
    ASSUME TypeOK, Hosted, Step, routine = Lsr2, LsrAt(start, m.r, m.f, m.core)
    PROVE  /\ m'.left \in {"no", "fault"}
           /\ Runs(m') => LsrAt(start, m'.r, m'.f, m'.core)
           /\ m'.left = "fault" => /\ m'.pc = m.r[PC] /\ m'.core = m.core
                                   /\ LsrAt(start, m.r, m'.f, m.core)
<1> DEFINE r == [m.r EXCEPT ![PC] = m.r[PC] + 2]
           b == start.core[B]
           x == start.core[B + 2]
           g == [start.f EXCEPT !.c = FALSE]
           hi == LsrHigh(start)
           last == ROR(b, 2, hi.f)
<1>0. /\ m.core \in [Cells -> Word] /\ Plain(B) /\ Plain(B + 2) /\ m.f \in Flags
      /\ b \in Word /\ x \in Word /\ start.f \in Flags /\ "ROR" \in OneOperand
  BY PlainCells, FlagsTold DEF TypeOK, Machine, OneOperand
<1>01. /\ hi.f \in Flags /\ hi.val % 2^W = hi.val /\ last.val % 2^W = last.val
       /\ hi = Computed1("ROR", x, 2, g) /\ g \in Flags /\ g.c = FALSE
       /\ last = Computed1("ROR", b, 2, hi.f)
  <2>1. g \in Flags /\ g.c = FALSE
    BY <1>0 DEF Flags
  <2>2. hi = Computed1("ROR", x, 2, g) /\ hi = ROR(x, 2, g)
    BY DEF LsrHigh, Computed1
  <2> HIDE DEF g, hi
  <2>3. last = Computed1("ROR", b, 2, hi.f)
    BY DEF Computed1
  <2>4. hi.f \in Flags
    BY <1>0, <2>1, <2>2, RotationsTold
  <2> QED BY <1>0, <2>1, <2>2, <2>3, <2>4, HalfTyped
<1> HIDE DEF g
<1>1. CASE m.r[PC] = 0
  <2> DEFINE h == [n |-> m.f.n, z |-> m.f.z, v |-> m.f.v, c |-> FALSE]
             i == Go("CCC", 1)
  <2>1. Executes(0, Go("CCC", 1), r)
    BY <1>1, LsrText DEF Executes
  <2> HIDE DEF r
  <2>2. /\ r[PC] = 2 /\ r \in [0 .. 7 -> Long] /\ r[2] = B
        /\ m.core[B] = b /\ m.core[B + 2] = x /\ h.c = FALSE
    BY <1>1, <2>1, ExecutesTyped, Registered DEF LsrAt
  <2>3. i.op = "CCC" /\ i.n = 1 /\ i.op # "MARK" /\ Executes(0, i, r)
    BY <2>1 DEF Go, Instruction
  <2> HIDE DEF i
  <2>4. Becomes(r, h, m.core)
    BY <2>3, SetFlagsStep
  <2> HIDE DEF h
  <2>5. Goes(r, h, m.core)
    BY <2>3, <2>4, AbortLeaves DEF Goes
  <2>6. LsrAt(start, r, h, m.core)
    BY <2>2 DEF LsrAt
  <2> QED BY <1>1, <2>5, <2>6 DEF Goes, Becomes, LsrAt
<1>2. CASE m.r[PC] = 2
  <2> DEFINE z == Computed1("ROR", x, 2, m.f)
             v == With(r, PC, 6)
             e == z.val % 2^W
             d == With(m.core, B + 2, e)
  <2>1. Executes(2, One("ROR", Idx(2)), r) /\ Lies(4, Data(2)) /\ 4 + 2 = 6 /\ Hosted
    BY <1>2, LsrText DEF Executes
  <2> HIDE DEF r
  <2>2. /\ r[PC] = 4 /\ r \in [0 .. 7 -> Long] /\ r[2] = B
        /\ m.core[B] = b /\ m.core[B + 2] = x /\ m.f.c = FALSE
    BY <1>2, <2>1, ExecutesTyped, Registered DEF LsrAt
  <2>3. v[PC] = 6 /\ v[2] = B
    BY <2>2, Registered DEF With
  <2> HIDE DEF hi, x, b
  <2>4. z.val = hi.val /\ z.f.c = hi.f.c /\ z.store
    <3>1. m.f.c = g.c /\ "ROR" \in {"ROL", "ROR"}
      BY <1>01, <2>2
    <3>2. z.val = Computed1("ROR", x, 2, g).val /\ z.f.c = Computed1("ROR", x, 2, g).f.c /\ z.store
      BY <1>0, <1>01, <3>1, RotationsTold
    <3> QED BY <1>01, <3>2
  <2>5. Is(z, Computed1("ROR", m.core[B + 2], 2, m.f))
    BY <2>2 DEF Is
  <2> HIDE DEF z
  <2>6. d[B + 2] = hi.val /\ d[B] = b
    BY <1>0, <1>01, <2>2, <2>4, Apart, WithGives
  <2>7. Finds(Idx(2), 2, r, m.core, B + 2, v)
    <3>1. Finds(Idx(2), 2, r, m.core, B + 2, With(r, PC, 4 + 2))
      BY <1>0, <2>1, <2>2, Registered, NextGoes
    <3> QED BY <2>1, <3>1
  <2> HIDE DEF v
  <2>8. Goes(v, z.f, d) /\ (m'.left = "fault" => m'.f.c = m.f.c)
    BY <1>0, <2>1, <2>4, <2>5, <2>7, UnaryIn
  <2> HIDE DEF d, e
  <2>9. LsrAt(start, v, z.f, d)
    BY <2>3, <2>4, <2>6 DEF LsrAt, b, hi
  <2> QED BY <1>2, <2>8, <2>9 DEF Goes, Becomes, LsrAt
<1>3. CASE m.r[PC] = 6
  <2> DEFINE z == Computed1("ROR", b, 2, m.f)
             e == z.val % 2^W
             d == With(m.core, B, e)
  <2>1. Executes(6, One("ROR", At(2)), r)
    BY <1>3, LsrText DEF Executes
  <2> HIDE DEF r
  <2>2. /\ r[PC] = 8 /\ r \in [0 .. 7 -> Long] /\ r[2] = B
        /\ m.core[B] = b /\ m.core[B + 2] = hi.val /\ m.f.c = hi.f.c
    BY <1>3, <2>1, ExecutesTyped, Registered DEF LsrAt
  <2> HIDE DEF hi, b, last
  <2>3. z.val = last.val /\ z.store
    BY <1>0, <1>01, <2>2, RotationsTold
  <2>4. Is(z, Computed1("ROR", m.core[B], 2, m.f))
    BY <2>2 DEF Is
  <2> HIDE DEF z
  <2>5. d[B] = last.val /\ d[B + 2] = hi.val
    BY <1>0, <1>01, <2>2, <2>3, Apart, WithGives
  <2>6. Finds(At(2), 2, r, m.core, B, r)
    BY <1>0, <2>2, Registered, AtGoes
  <2>7. Goes(r, z.f, d) /\ (m'.left = "fault" => m'.f.c = m.f.c)
    BY <1>0, <2>1, <2>3, <2>4, <2>6, UnaryIn
  <2> HIDE DEF d, e
  <2>8. LsrAt(start, r, z.f, d)
    BY <2>2, <2>5 DEF LsrAt, b, hi, last
  <2> QED BY <1>3, <2>7, <2>8 DEF Goes, Becomes, LsrAt
<1>4. m.r[PC] # 8
  BY LsrText, Numbers, EndsBehind
<1> QED BY <1>1, <1>2, <1>3, <1>4 DEF LsrAt

-----------------------------------------------------------------------------
\* SXT to core; where it is aborted it has kept N.
LEMMA SignExtendIn ==
    ASSUME NEW p, NEW e, NEW r, Executes(p, One("SXT", e), r),
           NEW a, Plain(a), NEW t, Finds(e, 2, r, m.core, a, t),
           NEW z, Is(z, SXT(0, 2, m.f))
    PROVE  /\ Goes(t, z.f, With(m.core, a, z.val % 2^W))
           /\ m'.left = "fault" => m'.f.n = m.f.n
<1> DEFINE i == One("SXT", e)
<1>1. i.op = "SXT" /\ i.l = 2 /\ i.d = e /\ i.op # "MARK"
  BY DEF One, Instruction
<1> HIDE DEF i
<1>2. Executes(p, i, r) /\ z = SXT(0, 2, m.f)
  BY DEF i, Is
<1>3. Writes(a, 2, z.val, t, m.core, t, With(m.core, a, z.val % 2^W))
  BY WritesFacts DEF With
<1>4. Becomes(t, z.f, With(m.core, a, z.val % 2^W))
  BY <1>1, <1>2, <1>3, SignExtendStep
<1> QED BY <1>1, <1>2, <1>4, AbortLeaves DEF Goes

\* A word copied, and its sign copied to all bits of the word behind it.
SxtAt(s, r, f, c) ==
    LET x == s.core[A]
    IN /\ r[PC] \in {0, 2, 4}
       /\ r[PC] = 0 => r[1] = A /\ r[2] = B /\ c[A] = x
       /\ r[PC] = 2 => r[2] = B + 2 /\ (f.n <=> Sign(x, 2))
       /\ r[PC] \in {2, 4} => c[B] = x
       /\ r[PC] = 4 => c[B + 2] = IF Sign(x, 2) THEN 2^W - 1 ELSE 0

\* What lies in the text of the sign extending routine.
LEMMA SxtText ==
    ASSUME routine = Sxt2
    PROVE  /\ Lies(0, Two("MOV", At(1), Inc(2))) /\ Lies(2, One("SXT", At(2)))
           /\ DOMAIN routine.text = 1 .. 2
<1> DEFINE t == routine.text
<1>1. t = <<Two("MOV", At(1), Inc(2)), One("SXT", At(2))>>
  BY DEF Sxt2, Routine
<1>2. DOMAIN t = 1 .. 2 /\ t[1] = Two("MOV", At(1), Inc(2)) /\ t[2] = One("SXT", At(2))
  BY <1>1
<1> QED BY <1>2, Numbers, LiesAt

\* Each step of the sign extending routine, and each abort, keeps its assertion.
LEMMA SxtKept ==
    ASSUME TypeOK, Hosted, Step, routine = Sxt2, SxtAt(start, m.r, m.f, m.core)
    PROVE  /\ m'.left \in {"no", "fault"}
           /\ Runs(m') => SxtAt(start, m'.r, m'.f, m'.core)
           /\ m'.left = "fault" => /\ m'.pc = m.r[PC] /\ m'.core = m.core
                                   /\ SxtAt(start, m.r, m'.f, m.core)
<1> DEFINE r == [m.r EXCEPT ![PC] = m.r[PC] + 2]
           x == start.core[A]
<1>0. /\ m.core \in [Cells -> Word] /\ Plain(A) /\ Plain(B) /\ Plain(B + 2)
      /\ x \in Word /\ m.f \in Flags
  BY PlainCells, FlagsTold DEF TypeOK, Machine
<1>1. CASE m.r[PC] = 0
  <2> DEFINE v == With(r, 2, B + 2)
             g == Logical(x, 2, m.f).f
             d == With(m.core, B, x)
  <2>1. Executes(0, Two("MOV", At(1), Inc(2)), r)
    BY <1>1, SxtText DEF Executes
  <2> HIDE DEF r
  <2>2. r[PC] = 2 /\ r \in [0 .. 7 -> Long] /\ r[1] = A /\ r[2] = B /\ m.core[A] = x
    BY <1>1, <2>1, ExecutesTyped, Registered DEF SxtAt
  <2>3. v[PC] = 2 /\ v[2] = B + 2 /\ (g.n <=> Sign(x, 2))
    BY <2>2, Registered DEF With, Logical, Result
  <2> HIDE DEF x
  <2>4. d[B] = x
    BY <1>0, <2>2, WithGives
  <2>5. Finds(At(1), 2, r, m.core, A, r)
    BY <1>0, <2>2, Registered, AtGoes
  <2>6. Finds(Inc(2), 2, r, m.core, B, v)
    BY <1>0, <2>2, Registered, IncGoes
  <2>7. Loads(At(1), 2, r, m.core, A, r, x)
    BY <1>0, <2>2, <2>5, PlainLoads
  <2> HIDE DEF v
  <2>8. Goes(v, g, d)
    BY <1>0, <2>1, <2>6, <2>7, MoveOut
  <2> HIDE DEF d, g
  <2>9. SxtAt(start, v, g, d)
    BY <2>3, <2>4 DEF SxtAt, x
  <2> QED BY <1>1, <2>8, <2>9 DEF Goes, Becomes, SxtAt
<1>2. CASE m.r[PC] = 2
  <2> DEFINE z == SXT(0, 2, m.f)
             e == z.val % 2^W
             d == With(m.core, B + 2, e)
  <2>1. Executes(2, One("SXT", At(2)), r)
    BY <1>2, SxtText DEF Executes
  <2> HIDE DEF r
  <2>2. /\ r[PC] = 4 /\ r \in [0 .. 7 -> Long] /\ r[2] = B + 2
        /\ (m.f.n <=> Sign(x, 2)) /\ m.core[B] = x
    BY <1>2, <2>1, ExecutesTyped, Registered DEF SxtAt
  <2>3. e = IF Sign(x, 2) THEN 2^W - 1 ELSE 0
    <3>1. 2^W - 1 \in Word /\ 0 \in Word
      BY Sizes
    <3>2. (2^W - 1) % 2^W = 2^W - 1 /\ 0 % 2^W = 0
      BY <3>1, SmallSums
    <3> QED BY <2>2, <3>2 DEF SXT, Result
  <2>4. Is(z, SXT(0, 2, m.f))
    BY DEF Is
  <2> HIDE DEF z
  <2>5. d[B + 2] = e /\ d[B] = x
    BY <1>0, <2>2, Apart, WithGives
  <2>6. Finds(At(2), 2, r, m.core, B + 2, r)
    BY <1>0, <2>2, Registered, AtGoes
  <2>7. Goes(r, z.f, d) /\ (m'.left = "fault" => m'.f.n = m.f.n)
    BY <1>0, <2>1, <2>4, <2>6, SignExtendIn
  <2> HIDE DEF d, e
  <2>8. SxtAt(start, r, z.f, d)
    BY <2>2, <2>3, <2>5 DEF SxtAt
  <2> QED BY <1>2, <2>7, <2>8 DEF Goes, Becomes, SxtAt
<1>3. m.r[PC] # 4
  BY SxtText, Numbers, EndsBehind
<1> QED BY <1>1, <1>2, <1>3 DEF SxtAt

-----------------------------------------------------------------------------
\* What a word counts to.
LEMMA CountsTold ==
    ASSUME NEW x \in Word, NEW f
    PROVE  /\ Computed1("INC", x, 2, f).store /\ Computed1("INC", x, 2, f).val = (x + 1) % 2^W
           /\ (Computed1("INC", x, 2, f).f.z <=> (x + 1) % 2^W = 0)
           /\ Computed1("DEC", x, 2, f).store /\ Computed1("DEC", x, 2, f).val = (x - 1) % 2^W
           /\ ~Computed1("TST", x, 2, f).store /\ (Computed1("TST", x, 2, f).f.z <=> x = 0)
           /\ ((x + 1) % 2^W) % 2^W = (x + 1) % 2^W /\ ((x - 1) % 2^W) % 2^W = (x - 1) % 2^W
           /\ (x + 1) % 2^W \in Word /\ (x - 1) % 2^W \in Word
<1>1. /\ Computed1("INC", x, 2, f).store /\ Computed1("INC", x, 2, f).val = (x + 1) % 2^W
      /\ (Computed1("INC", x, 2, f).f.z <=> (x + 1) % 2^W = 0)
      /\ Computed1("DEC", x, 2, f).store /\ Computed1("DEC", x, 2, f).val = (x - 1) % 2^W
      /\ ~Computed1("TST", x, 2, f).store /\ (Computed1("TST", x, 2, f).f.z <=> x = 0)
  BY DEF Computed1, INC, DEC, TST, Result, FlagsOnly, Bits
<1>2. (x + 1) % 2^W \in Word /\ (x - 1) % 2^W \in Word
  BY WordFacts, WordsInt
<1> QED BY <1>1, <1>2, SmallSums

\* A branch on Z.
LEMMA UnlessZero ==
    ASSUME NEW p, NEW n, NEW r, Executes(p, Go("BNE", n), r),
           NEW t, (p + 2 + 2 * n) % 2^(2 * W) = t
    PROVE  /\ m.f.z => Goes(r, m.f, m.core)
           /\ ~m.f.z => Goes(With(r, PC, t), m.f, m.core)
           /\ Runs(m')
<1>1. "BNE" \in Branches /\ (Taken("BNE", m.f) <=> ~m.f.z)
  BY DEF Branches, Taken
<1>2. Goes(IF Taken("BNE", m.f) THEN [r EXCEPT ![PC] = t] ELSE r, m.f, m.core) /\ Runs(m')
  BY <1>1, BranchGoes
<1> QED BY <1>1, <1>2 DEF With

\* The upper word counts when the lower one has come to zero.
IncAt(s, r, f, c) ==
    LET lo == (s.core[B] + 1) % 2^W
        x == s.core[B + 2]
    IN /\ r[PC] \in {0, 2, 4, 8}
       /\ r[2] = B
       /\ r[PC] = 0 => c[B] = s.core[B]
       /\ r[PC] \in {0, 2, 4} => c[B + 2] = x
       /\ r[PC] \in {2, 4, 8} => c[B] = lo
       /\ r[PC] = 2 => (f.z <=> lo = 0)
       /\ r[PC] = 4 => lo = 0
       /\ r[PC] = 8 => c[B + 2] = IF lo = 0 THEN (x + 1) % 2^W ELSE x

\* What lies in the text of the counting up routine.
LEMMA IncText ==
    ASSUME routine = Inc2
    PROVE  /\ Lies(0, One("INC", At(2))) /\ Lies(2, Go("BNE", 2)) /\ Lies(4, One("INC", Idx(2)))
           /\ Lies(6, Data(2)) /\ DOMAIN routine.text = 1 .. 4
<1> DEFINE t == routine.text
<1>1. t = <<One("INC", At(2)), Go("BNE", 2), One("INC", Idx(2)), Data(2)>>
  BY DEF Inc2, Routine
<1>2. /\ DOMAIN t = 1 .. 4 /\ t[1] = One("INC", At(2)) /\ t[2] = Go("BNE", 2)
      /\ t[3] = One("INC", Idx(2)) /\ t[4] = Data(2)
  BY <1>1
<1> QED BY <1>2, Numbers, LiesAt

\* Each step of the counting up routine, and each abort, keeps its assertion.
LEMMA IncKept ==
    ASSUME TypeOK, Hosted, Step, routine = Inc2, IncAt(start, m.r, m.f, m.core)
    PROVE  /\ m'.left \in {"no", "fault"}
           /\ Runs(m') => IncAt(start, m'.r, m'.f, m'.core)
           /\ m'.left = "fault" => /\ m'.pc = m.r[PC] /\ m'.core = m.core
                                   /\ IncAt(start, m.r, m'.f, m.core)
<1> DEFINE r == [m.r EXCEPT ![PC] = m.r[PC] + 2]
           b == start.core[B]
           x == start.core[B + 2]
           lo == (b + 1) % 2^W
           hi == (x + 1) % 2^W
<1>0. /\ m.core \in [Cells -> Word] /\ Plain(B) /\ Plain(B + 2) /\ m.f \in Flags
      /\ b \in Word /\ x \in Word /\ "INC" \in OneOperand
  BY PlainCells, FlagsTold DEF TypeOK, Machine, OneOperand
<1>1. CASE m.r[PC] = 0
  <2> DEFINE z == Computed1("INC", b, 2, m.f)
             e == z.val % 2^W
             d == With(m.core, B, e)
  <2>1. Executes(0, One("INC", At(2)), r)
    BY <1>1, IncText DEF Executes
  <2> HIDE DEF r
  <2>2. /\ r[PC] = 2 /\ r \in [0 .. 7 -> Long] /\ r[2] = B
        /\ m.core[B] = b /\ m.core[B + 2] = x
    BY <1>1, <2>1, ExecutesTyped, Registered DEF IncAt
  <2>3. e = lo /\ z.store /\ (z.f.z <=> lo = 0)
    BY <1>0, CountsTold
  <2>4. Is(z, Computed1("INC", m.core[B], 2, m.f))
    BY <2>2 DEF Is
  <2> HIDE DEF z, lo, x, b
  <2>5. d[B] = lo /\ d[B + 2] = x
    BY <1>0, <2>2, <2>3, Apart, WithGives
  <2>6. Finds(At(2), 2, r, m.core, B, r)
    BY <1>0, <2>2, Registered, AtGoes
  <2>7. Goes(r, z.f, d)
    BY <1>0, <2>1, <2>3, <2>4, <2>6, UnaryIn
  <2> HIDE DEF d, e
  <2>8. IncAt(start, r, z.f, d)
    BY <2>2, <2>3, <2>5 DEF IncAt, b, x, lo
  <2> QED BY <1>1, <2>7, <2>8 DEF Goes, Becomes, IncAt
<1>2. CASE m.r[PC] = 2
  <2> DEFINE v == With(r, PC, 8)
  <2>1. Executes(2, Go("BNE", 2), r)
    BY <1>2, IncText DEF Executes
  <2> HIDE DEF r
  <2>2. /\ r[PC] = 4 /\ r \in [0 .. 7 -> Long] /\ r[2] = B
        /\ m.core[B] = lo /\ m.core[B + 2] = x /\ (m.f.z <=> lo = 0)
    BY <1>2, <2>1, ExecutesTyped, Registered DEF IncAt
  <2>3. v[PC] = 8 /\ v[2] = B
    BY <2>2, Registered DEF With
  <2>4. (2 + 2 + 2 * 2) % 2^(2 * W) = 8
    BY Sizes
  <2>5. /\ m.f.z => Goes(r, m.f, m.core)
        /\ ~m.f.z => Goes(v, m.f, m.core)
        /\ Runs(m')
    BY <2>1, <2>4, UnlessZero
  <2> HIDE DEF v, lo, x
  <2>6. m.f.z => IncAt(start, r, m.f, m.core)
    BY <2>2 DEF IncAt, lo, x, b
  <2>7. ~m.f.z => IncAt(start, v, m.f, m.core)
    BY <2>2, <2>3 DEF IncAt, lo, x, b
  <2> QED BY <2>5, <2>6, <2>7 DEF Goes, Becomes, Runs
<1>3. CASE m.r[PC] = 4
  <2> DEFINE z == Computed1("INC", x, 2, m.f)
             v == With(r, PC, 8)
             e == z.val % 2^W
             d == With(m.core, B + 2, e)
  <2>1. Executes(4, One("INC", Idx(2)), r) /\ Lies(6, Data(2)) /\ 6 + 2 = 8 /\ Hosted
    BY <1>3, IncText DEF Executes
  <2> HIDE DEF r
  <2>2. /\ r[PC] = 6 /\ r \in [0 .. 7 -> Long] /\ r[2] = B
        /\ m.core[B] = lo /\ m.core[B + 2] = x /\ lo = 0
    BY <1>3, <2>1, ExecutesTyped, Registered DEF IncAt
  <2>3. v[PC] = 8 /\ v[2] = B
    BY <2>2, Registered DEF With
  <2>4. e = hi /\ z.store
    BY <1>0, CountsTold
  <2>5. Is(z, Computed1("INC", m.core[B + 2], 2, m.f))
    BY <2>2 DEF Is
  <2> HIDE DEF z, lo, x, hi
  <2>6. d[B + 2] = hi /\ d[B] = lo
    BY <1>0, <2>2, <2>4, Apart, WithGives
  <2>7. Finds(Idx(2), 2, r, m.core, B + 2, v)
    <3>1. Finds(Idx(2), 2, r, m.core, B + 2, With(r, PC, 6 + 2))
      BY <1>0, <2>1, <2>2, Registered, NextGoes
    <3> QED BY <2>1, <3>1
  <2> HIDE DEF v
  <2>8. Goes(v, z.f, d)
    BY <1>0, <2>1, <2>4, <2>5, <2>7, UnaryIn
  <2> HIDE DEF d, e
  <2>9. IncAt(start, v, z.f, d)
    BY <2>2, <2>3, <2>6 DEF IncAt, b, x, lo, hi
  <2> QED BY <1>3, <2>8, <2>9 DEF Goes, Becomes, IncAt
<1>4. m.r[PC] # 8
  BY IncText, Numbers, EndsBehind
<1> QED BY <1>1, <1>2, <1>3, <1>4 DEF IncAt

-----------------------------------------------------------------------------
\* The upper word counts down when the lower one is zero, which counts then.
DecAt(s, r, f, c) ==
    LET b == s.core[B]
        x == s.core[B + 2]
    IN /\ r[PC] \in {0, 2, 4, 8, 10}
       /\ r[2] = B
       /\ r[PC] \in {0, 2, 4, 8} => c[B] = b
       /\ r[PC] \in {0, 2, 4} => c[B + 2] = x
       /\ r[PC] = 2 => (f.z <=> b = 0)
       /\ r[PC] = 4 => b = 0
       /\ r[PC] \in {8, 10} => c[B + 2] = IF b = 0 THEN (x - 1) % 2^W ELSE x
       /\ r[PC] = 10 => c[B] = (b - 1) % 2^W

\* What lies in the text of the counting down routine.
LEMMA DecText ==
    ASSUME routine = Dec2
    PROVE  /\ Lies(0, One("TST", At(2))) /\ Lies(2, Go("BNE", 2)) /\ Lies(4, One("DEC", Idx(2)))
           /\ Lies(6, Data(2)) /\ Lies(8, One("DEC", At(2))) /\ DOMAIN routine.text = 1 .. 5
<1> DEFINE t == routine.text
<1>1. t = <<One("TST", At(2)), Go("BNE", 2), One("DEC", Idx(2)), Data(2), One("DEC", At(2))>>
  BY DEF Dec2, Routine
<1>2. /\ DOMAIN t = 1 .. 5 /\ t[1] = One("TST", At(2)) /\ t[2] = Go("BNE", 2)
      /\ t[3] = One("DEC", Idx(2)) /\ t[4] = Data(2) /\ t[5] = One("DEC", At(2))
  BY <1>1
<1> QED BY <1>2, Numbers, LiesAt

\* Each step of the counting down routine, and each abort, keeps its assertion.
LEMMA DecKept ==
    ASSUME TypeOK, Hosted, Step, routine = Dec2, DecAt(start, m.r, m.f, m.core)
    PROVE  /\ m'.left \in {"no", "fault"}
           /\ Runs(m') => DecAt(start, m'.r, m'.f, m'.core)
           /\ m'.left = "fault" => /\ m'.pc = m.r[PC] /\ m'.core = m.core
                                   /\ DecAt(start, m.r, m'.f, m.core)
<1> DEFINE r == [m.r EXCEPT ![PC] = m.r[PC] + 2]
           b == start.core[B]
           x == start.core[B + 2]
           lo == (b - 1) % 2^W
           hi == (x - 1) % 2^W
<1>0. /\ m.core \in [Cells -> Word] /\ Plain(B) /\ Plain(B + 2) /\ m.f \in Flags
      /\ b \in Word /\ x \in Word /\ "DEC" \in OneOperand /\ "TST" \in OneOperand
  BY PlainCells, FlagsTold DEF TypeOK, Machine, OneOperand
<1>1. CASE m.r[PC] = 0
  <2> DEFINE z == Computed1("TST", b, 2, m.f)
  <2>1. Executes(0, One("TST", At(2)), r)
    BY <1>1, DecText DEF Executes
  <2> HIDE DEF r
  <2>2. /\ r[PC] = 2 /\ r \in [0 .. 7 -> Long] /\ r[2] = B
        /\ m.core[B] = b /\ m.core[B + 2] = x
    BY <1>1, <2>1, ExecutesTyped, Registered DEF DecAt
  <2>3. ~z.store /\ (z.f.z <=> b = 0)
    BY <1>0, CountsTold
  <2>4. Is(z, Computed1("TST", m.core[B], 2, m.f))
    BY <2>2 DEF Is
  <2> HIDE DEF z, x, b
  <2>6. Finds(At(2), 2, r, m.core, B, r)
    BY <1>0, <2>2, Registered, AtGoes
  <2>7. Goes(r, z.f, m.core)
    BY <1>0, <2>1, <2>3, <2>4, <2>6, UnaryIn
  <2>8. DecAt(start, r, z.f, m.core)
    BY <2>2, <2>3 DEF DecAt, b, x
  <2> QED BY <1>1, <2>7, <2>8 DEF Goes, Becomes, DecAt
<1>2. CASE m.r[PC] = 2
  <2> DEFINE v == With(r, PC, 8)
  <2>1. Executes(2, Go("BNE", 2), r)
    BY <1>2, DecText DEF Executes
  <2> HIDE DEF r
  <2>2. /\ r[PC] = 4 /\ r \in [0 .. 7 -> Long] /\ r[2] = B
        /\ m.core[B] = b /\ m.core[B + 2] = x /\ (m.f.z <=> b = 0)
    BY <1>2, <2>1, ExecutesTyped, Registered DEF DecAt
  <2>3. v[PC] = 8 /\ v[2] = B
    BY <2>2, Registered DEF With
  <2>4. (2 + 2 + 2 * 2) % 2^(2 * W) = 8
    BY Sizes
  <2>5. /\ m.f.z => Goes(r, m.f, m.core)
        /\ ~m.f.z => Goes(v, m.f, m.core)
        /\ Runs(m')
    BY <2>1, <2>4, UnlessZero
  <2> HIDE DEF v, b, x
  <2>6. m.f.z => DecAt(start, r, m.f, m.core)
    BY <2>2 DEF DecAt, x, b
  <2>7. ~m.f.z => DecAt(start, v, m.f, m.core)
    BY <2>2, <2>3 DEF DecAt, x, b
  <2> QED BY <2>5, <2>6, <2>7 DEF Goes, Becomes, Runs
<1>3. CASE m.r[PC] = 4
  <2> DEFINE z == Computed1("DEC", x, 2, m.f)
             v == With(r, PC, 8)
             e == z.val % 2^W
             d == With(m.core, B + 2, e)
  <2>1. Executes(4, One("DEC", Idx(2)), r) /\ Lies(6, Data(2)) /\ 6 + 2 = 8 /\ Hosted
    BY <1>3, DecText DEF Executes
  <2> HIDE DEF r
  <2>2. /\ r[PC] = 6 /\ r \in [0 .. 7 -> Long] /\ r[2] = B
        /\ m.core[B] = b /\ m.core[B + 2] = x /\ b = 0
    BY <1>3, <2>1, ExecutesTyped, Registered DEF DecAt
  <2>3. v[PC] = 8 /\ v[2] = B
    BY <2>2, Registered DEF With
  <2>4. e = hi /\ z.store
    BY <1>0, CountsTold
  <2>5. Is(z, Computed1("DEC", m.core[B + 2], 2, m.f))
    BY <2>2 DEF Is
  <2> HIDE DEF z, b, x, hi
  <2>6. d[B + 2] = hi /\ d[B] = b
    BY <1>0, <2>2, <2>4, Apart, WithGives
  <2>7. Finds(Idx(2), 2, r, m.core, B + 2, v)
    <3>1. Finds(Idx(2), 2, r, m.core, B + 2, With(r, PC, 6 + 2))
      BY <1>0, <2>1, <2>2, Registered, NextGoes
    <3> QED BY <2>1, <3>1
  <2> HIDE DEF v
  <2>8. Goes(v, z.f, d)
    BY <1>0, <2>1, <2>4, <2>5, <2>7, UnaryIn
  <2> HIDE DEF d, e
  <2>9. DecAt(start, v, z.f, d)
    BY <2>2, <2>3, <2>6 DEF DecAt, b, x, hi
  <2> QED BY <1>3, <2>8, <2>9 DEF Goes, Becomes, DecAt
<1>4. CASE m.r[PC] = 8
  <2> DEFINE z == Computed1("DEC", b, 2, m.f)
             e == z.val % 2^W
             d == With(m.core, B, e)
             y == m.core[B + 2]
  <2>1. Executes(8, One("DEC", At(2)), r)
    BY <1>4, DecText DEF Executes
  <2> HIDE DEF r
  <2>2. /\ r[PC] = 10 /\ r \in [0 .. 7 -> Long] /\ r[2] = B
        /\ m.core[B] = b /\ y = IF b = 0 THEN (x - 1) % 2^W ELSE x
    BY <1>4, <2>1, ExecutesTyped, Registered DEF DecAt
  <2>3. e = lo /\ z.store
    BY <1>0, CountsTold
  <2>4. Is(z, Computed1("DEC", m.core[B], 2, m.f))
    BY <2>2 DEF Is
  <2> HIDE DEF z, b, x, lo
  <2>5. d[B] = lo /\ d[B + 2] = y
    BY <1>0, <2>3, Apart, WithGives
  <2>6. Finds(At(2), 2, r, m.core, B, r)
    BY <1>0, <2>2, Registered, AtGoes
  <2>7. Goes(r, z.f, d)
    BY <1>0, <2>1, <2>3, <2>4, <2>6, UnaryIn
  <2> HIDE DEF d, e, y
  <2>8. DecAt(start, r, z.f, d)
    BY <2>2, <2>5 DEF DecAt, b, x, lo
  <2> QED BY <1>4, <2>7, <2>8 DEF Goes, Becomes, DecAt
<1>5. m.r[PC] # 10
  BY DecText, Numbers, EndsBehind
<1> QED BY <1>1, <1>2, <1>3, <1>4, <1>5 DEF DecAt

-----------------------------------------------------------------------------
\* A word halved, or the byte in it.
HalfAt(l, s, r, f, c) ==
    LET b == s.core[B]
    IN /\ r[PC] \in {0, 2}
       /\ r[PC] = 0 => r[2] = B /\ c[B] = b
       /\ r[PC] = 2 => c[B] = IF l = 2 THEN ASR(b, 2, s.f).val % 2^W
                              ELSE (b \div ByteSize) * ByteSize
                                   + (ASR(b % ByteSize, 1, s.f).val % ByteSize)

\* What lies in the text of the shifting routine.
LEMMA HalfText ==
    ASSUME NEW l, routine = Half(l)
    PROVE  Lies(0, Instruction("ASR", l, Rg(0), At(2), 0)) /\ DOMAIN routine.text = 1 .. 1
<1> DEFINE t == routine.text
<1>1. t = <<Instruction("ASR", l, Rg(0), At(2), 0)>>
  BY DEF Half, Routine
<1>2. DOMAIN t = 1 .. 1 /\ t[1] = Instruction("ASR", l, Rg(0), At(2), 0)
  BY <1>1
<1> QED BY <1>2, Numbers, LiesAt

\* Each step of the shifting routine, and each abort, keeps its assertion.
LEMMA HalfKept ==
    ASSUME TypeOK, Hosted, Step, NEW l \in {1, 2}, routine = Half(l),
           HalfAt(l, start, m.r, m.f, m.core)
    PROVE  /\ m'.left \in {"no", "fault"}
           /\ Runs(m') => HalfAt(l, start, m'.r, m'.f, m'.core)
           /\ m'.left = "fault" => /\ m'.pc = m.r[PC] /\ m'.core = m.core
                                   /\ HalfAt(l, start, m.r, m'.f, m.core)
<1> DEFINE r == [m.r EXCEPT ![PC] = m.r[PC] + 2]
           b == start.core[B]
<1>0. m.core \in [Cells -> Word] /\ Plain(B) /\ b \in Word
  BY PlainCells, FlagsTold DEF TypeOK, Machine
<1>1. CASE m.r[PC] = 0
  <2> DEFINE i == Instruction("ASR", l, Rg(0), At(2), 0)
             y == IF l = 2 THEN b ELSE b % ByteSize
             z == Computed1("ASR", y, l, m.f)
             e == IF l = 2 THEN z.val % 2^W
                  ELSE (b \div ByteSize) * ByteSize + (z.val % ByteSize)
             d == With(m.core, B, e)
  <2>1. Executes(0, i, r)
    BY <1>1, HalfText DEF Executes
  <2> HIDE DEF r
  <2>2. r[PC] = 2 /\ r \in [0 .. 7 -> Long] /\ r[2] = B /\ m.core[B] = b
    BY <1>1, <2>1, ExecutesTyped, Registered DEF HalfAt
  <2>3. i.op = "ASR" /\ i.l = l /\ i.d = At(2) /\ i.op # "MARK" /\ i.op \in OneOperand
    BY DEF Instruction, OneOperand
  <2> HIDE DEF i
  <2>4. Finds(At(2), l, r, m.core, B, r)
    BY <1>0, <2>2, Registered, AtFinds
  <2>5. z.store /\ z = ASR(y, l, m.f) /\ z.val = ASR(y, l, start.f).val
    BY DEF Computed1, ASR, Result
  <2>6. B % 2 = 0 /\ B - (B % 2) = B /\ B - 0 = B /\ ~IsReg(B) /\ B \in Cells /\ 0 \in {0, 1}
    BY <1>0, PlainFacts DEF Plain
  <2>7. Loads(At(2), l, r, m.core, B, r, y)
    <3>1. CASE l = 2
      BY <1>0, <2>2, <2>4, <3>1, PlainLoads
    <3>2. CASE l = 1
      <4>1. Loads(At(2), 1, r, m.core, B, r, m.core[B] % ByteSize)
        <5>1. Plain(B - 0) /\ 0 # 1
          BY <1>0, <2>6
        <5> QED BY <2>4, <2>6, <3>2, <5>1, ByteLoads
      <4> QED BY <2>2, <3>2, <4>1
    <3> QED BY <3>1, <3>2
  <2> HIDE DEF y, z, b
  <2>8. Stores(B, l, z, r, m.core, r, d)
    <3>1. d = [m.core EXCEPT ![B] = e]
      BY DEF With
    <3>2. CASE l = 2
      <4>1. Writes(B, 2, z.val, r, m.core, r, [m.core EXCEPT ![B] = z.val % 2^W])
        BY <1>0, WritesFacts
      <4> QED BY <2>5, <3>1, <3>2, <4>1 DEF Stores
    <3>3. CASE l = 1
      BY <2>2, <2>5, <2>6, <3>1, <3>3 DEF Stores, Writes
    <3> QED BY <3>2, <3>3
  <2> HIDE DEF d
  <2>9. Becomes(r, z.f, d)
    <3>1. z = Computed1(i.op, y, i.l, m.f)
      BY <2>3 DEF z
    <3> QED BY <2>1, <2>3, <2>7, <2>8, <3>1, UnaryStep
  <2>10. Goes(r, z.f, d)
    BY <2>1, <2>3, <2>9, AbortLeaves DEF Goes
  <2>11. d[B] = e
    BY <1>0, WithGives DEF d
  <2>12. HalfAt(l, start, r, z.f, d)
    BY <2>2, <2>5, <2>11 DEF HalfAt, b, y
  <2> QED BY <1>1, <2>10, <2>12 DEF Goes, Becomes, HalfAt
<1>2. m.r[PC] # 2
  BY HalfText, Numbers, EndsBehind
<1> QED BY <1>1, <1>2 DEF HalfAt

-----------------------------------------------------------------------------
(***************************************************************************)
(* Products, quotients and shifts.                                         *)
(***************************************************************************)
LEMMA ExtendedOn ==
    ASSUME NEW p, NEW op \in LongOps, NEW q \in 0 .. 7, NEW o, NEW r,
           Executes(p, Two(op, Rg(q), o), r), ~(op = "MUL" /\ q = 0 /\ o.mode = 0),
           NEW b, NEW t, NEW y, Loads(o, 2, r, m.core, b, t, y)
    PROVE  \E u \in BOOLEAN :
               LET z == LongOf(op, r[q], r[OddOf(q)], y, u)
               IN Goes(Extends(op, q, z, t), z.f, m.core)
<1> DEFINE i == Two(op, Rg(q), o)
<1>1. i.op = op /\ i.s.reg = q /\ i.d = o /\ i.op # "MARK"
  BY DEF Two, Instruction, Rg, LongOps
<1> HIDE DEF i
<1>2. Executes(p, i, r)
  BY DEF i
<1>3. PICK u \in BOOLEAN : LET z == LongOf(op, r[q], r[OddOf(q)], y, u)
                           IN Becomes(Extends(op, q, z, t), z.f, m.core)
  BY <1>1, <1>2, ExtendedStep
<1>4. m'.left = "fault" => m'.pc = m.r[PC] /\ m'.core = m.core
  BY <1>1, <1>2, AbortLeaves
<1> QED BY <1>3, <1>4 DEF Goes

\* A word that points nowhere is read from core.
LEMMA AtLoads ==
    ASSUME NEW q \in 0 .. SP, NEW r, NEW c, NEW a, Plain(a), r[q] = a
    PROVE  Loads(At(q), 2, r, c, a, r, c[a])
BY AtGoes, PlainLoads

\* The results of the extended instructions, in the registers they go to.
LEMMA PairPut ==
    ASSUME NEW z, NEW t \in [0 .. 7 -> Long], NEW op, op # "ASH", NEW q \in {0, 4}
    PROVE  /\ Extends(op, q, z, t)[PC] = t[PC]
           /\ z.store => Extends(op, q, z, t)[q] = z.hi % 2^(2 * W)
           /\ z.store => Extends(op, q, z, t)[q + 1] = z.lo % 2^(2 * W)
<1> DEFINE v == Extends(op, q, z, t)
           w == [[t EXCEPT ![q] = z.hi % 2^(2 * W)] EXCEPT ![q + 1] = z.lo % 2^(2 * W)]
<1>1. OddOf(q) = q + 1 /\ q % 2 = 0
  BY DEF OddOf
<1>2. v = IF z.store THEN w ELSE t
  BY <1>1 DEF Extends
<1>3. w[PC] = t[PC] /\ w[q] = z.hi % 2^(2 * W) /\ w[q + 1] = z.lo % 2^(2 * W)
  BY DEF PC
<1> HIDE DEF w, v
<1>4. v[PC] = t[PC] /\ (z.store => v[q] = z.hi % 2^(2 * W) /\ v[q + 1] = z.lo % 2^(2 * W))
  BY <1>2, <1>3
<1> QED BY <1>4 DEF v

\* A result for one register goes to R3.
LEMMA SinglePut ==
    ASSUME NEW z, NEW t \in [0 .. 7 -> Long], z.store
    PROVE  /\ Extends("MUL", 3, z, t)[3] = z.lo % 2^(2 * W) /\ Extends("MUL", 3, z, t)[PC] = t[PC]
           /\ Extends("ASH", 3, z, t)[3] = z.hi % 2^(2 * W) /\ Extends("ASH", 3, z, t)[PC] = t[PC]
<1>1. 3 % 2 = 1
  OBVIOUS
<1> QED BY <1>1 DEF Extends, PC

\* A word stays one as a register of twice its width.
LEMMA LongWord == \A x \in Word : x % 2^(2 * W) = x
<1>1. \A x \in Word : 0 \in {0, 1, 2} /\ x + 0 = x
  BY SmallSums
<1> QED BY <1>1, SmallSums

\* A product in R0 and R1, or of its lower word in R3.
Multiplies(q, x) ==
    \/ q = 0 /\ x = Mul2
    \/ q = 3 /\ x = Mul1

MulAt(q, s, r, f, c) ==
    LET z == MUL(s.core[A], s.core[B])
    IN /\ r[PC] \in {0, 2, 4}
       /\ r[PC] \in {0, 2} => r[2] = B /\ c[B] = s.core[B]
       /\ r[PC] = 0 => r[1] = A /\ c[A] = s.core[A]
       /\ r[PC] = 2 => r[q] = s.core[A]
       /\ r[PC] = 4 => IF q = 0 THEN r[0] = z.hi /\ r[1] = z.lo ELSE r[3] = z.lo

\* What lies in the text of the multiplying routine.
LEMMA MulText ==
    ASSUME NEW q, Multiplies(q, routine)
    PROVE  /\ Lies(0, Two("MOV", At(1), Rg(q))) /\ Lies(2, Two("MUL", Rg(q), At(2)))
           /\ DOMAIN routine.text = 1 .. 2 /\ q \in {0, 3}
<1> DEFINE t == routine.text
<1>1. t = <<Two("MOV", At(1), Rg(q)), Two("MUL", Rg(q), At(2))>> /\ q \in {0, 3}
  BY DEF Multiplies, Mul2, Mul1, Routine
<1>2. /\ DOMAIN t = 1 .. 2 /\ t[1] = Two("MOV", At(1), Rg(q))
      /\ t[2] = Two("MUL", Rg(q), At(2))
  BY <1>1
<1> QED BY <1>1, <1>2, Numbers, LiesAt

\* Both halves of a product are words.
LEMMA ProductTyped ==
    ASSUME NEW a \in Word, NEW b \in Word
    PROVE  MUL(a, b).hi \in Word /\ MUL(a, b).lo \in Word /\ MUL(a, b).store
<1> DEFINE d == Extended(a) * Extended(b)
<1>1. a \in Int /\ b \in Int
  BY SmallSums
<1>2. Extended(a) \in Int /\ Extended(b) \in Int
  BY <1>1, ExtendedTyped
<1>3. d \in Int
  BY <1>2
<1>4. MUL(a, b).hi = (d \div 2^W) % 2^W /\ MUL(a, b).lo = d % 2^W /\ MUL(a, b).store
  BY DEF MUL, Registers
<1> HIDE DEF d
<1>5. d \div 2^W \in Int
  BY <1>3, Sizes
<1> QED BY <1>3, <1>4, <1>5, WordFacts

\* Each step of the multiplying routine, and each abort, keeps its assertion.
LEMMA MulKept ==
    ASSUME TypeOK, Hosted, Step, NEW q, Multiplies(q, routine),
           MulAt(q, start, m.r, m.f, m.core)
    PROVE  /\ m'.left \in {"no", "fault"}
           /\ Runs(m') => MulAt(q, start, m'.r, m'.f, m'.core)
           /\ m'.left = "fault" => /\ m'.pc = m.r[PC] /\ m'.core = m.core
                                   /\ MulAt(q, start, m.r, m'.f, m.core)
<1> DEFINE r == [m.r EXCEPT ![PC] = m.r[PC] + 2]
           a == start.core[A]
           b == start.core[B]
<1>0. /\ m.core \in [Cells -> Word] /\ Plain(A) /\ Plain(B) /\ a \in Word /\ b \in Word
      /\ q \in {0, 3} /\ q \in 0 .. SP /\ q \in 0 .. 7 /\ q # 2 /\ q # PC
      /\ "MUL" \in LongOps
  BY PlainCells, FlagsTold, MulText, Registered DEF TypeOK, Machine, LongOps, SP, PC
<1>1. CASE m.r[PC] = 0
  <2> DEFINE v == With(r, q, m.core[A])
             g == Logical(m.core[A], 2, m.f).f
  <2>1. Executes(0, Two("MOV", At(1), Rg(q)), r)
    BY <1>1, MulText DEF Executes
  <2> HIDE DEF r
  <2>2. /\ r[PC] = 2 /\ r \in [0 .. 7 -> Long] /\ r[1] = A /\ r[2] = B
        /\ m.core[A] = a /\ m.core[B] = b
    BY <1>1, <2>1, ExecutesTyped, Registered DEF MulAt
  <2>3. v[PC] = 2 /\ v[q] = a /\ v[2] = B
    BY <1>0, <2>2, Registered DEF With
  <2>4. Finds(At(1), 2, r, m.core, A, r)
    BY <1>0, <2>2, Registered, AtGoes
  <2>5. Goes(v, g, m.core)
    BY <1>0, <2>1, <2>4, MoveIn
  <2> HIDE DEF v, g
  <2>6. MulAt(q, start, v, g, m.core)
    BY <2>2, <2>3 DEF MulAt
  <2> QED BY <1>1, <2>5, <2>6 DEF Goes, Becomes, MulAt
<1>2. CASE m.r[PC] = 2
  <2> DEFINE z == MUL(a, b)
             v == Extends("MUL", q, z, r)
  <2>1. Executes(2, Two("MUL", Rg(q), At(2)), r)
    BY <1>2, MulText DEF Executes
  <2> HIDE DEF r
  <2>2. r[PC] = 4 /\ r \in [0 .. 7 -> Long] /\ r[q] = a /\ r[2] = B /\ m.core[B] = b
    BY <1>0, <1>2, <2>1, ExecutesTyped, Registered DEF MulAt
  <2>3. Loads(At(2), 2, r, m.core, B, r, b) /\ At(2).mode # 0
    BY <1>0, <2>2, Registered, AtLoads DEF At
  <2>4. Goes(v, z.f, m.core)
    <3>1. PICK u \in BOOLEAN : LET y == LongOf("MUL", r[q], r[OddOf(q)], b, u)
                               IN Goes(Extends("MUL", q, y, r), y.f, m.core)
      BY <1>0, <2>1, <2>3, ExtendedOn
    <3>2. LongOf("MUL", r[q], r[OddOf(q)], b, u) = z
      BY <2>2 DEF LongOf
    <3> QED BY <3>1, <3>2
  <2>5. z.hi \in Word /\ z.lo \in Word /\ z.store
    BY <1>0, ProductTyped
  <2> HIDE DEF z
  <2>6. v[PC] = 4 /\ IF q = 0 THEN v[0] = z.hi /\ v[1] = z.lo ELSE v[3] = z.lo
    <3>1. z.hi % 2^(2 * W) = z.hi /\ z.lo % 2^(2 * W) = z.lo
      BY <2>5, LongWord
    <3>2. CASE q = 0
      <4>1. 0 \in {0, 4} /\ 0 + 1 = 1 /\ "MUL" # "ASH"
        OBVIOUS
      <4> QED BY <2>2, <2>5, <3>1, <3>2, <4>1, PairPut
    <3>3. CASE q = 3
      BY <2>2, <2>5, <3>1, <3>3, SinglePut
    <3> QED BY <1>0, <3>2, <3>3
  <2> HIDE DEF v
  <2>7. MulAt(q, start, v, z.f, m.core)
    BY <2>6 DEF MulAt, z
  <2> QED BY <1>2, <2>4, <2>7 DEF Goes, Becomes, MulAt
<1>3. m.r[PC] # 4
  BY MulText, Numbers, EndsBehind
<1> QED BY <1>1, <1>2, <1>3 DEF MulAt

\* A quotient: the double word goes to R0 and R1.
DivAt(s, r, f, c) ==
    LET z == DIV(s.core[A + 2], s.core[A], s.core[B])
    IN /\ r[PC] \in {0, 4, 6, 8}
       /\ r[PC] \in {0, 4, 6} => r[2] = B /\ c[B] = s.core[B]
       /\ r[PC] \in {0, 4} => r[1] = A /\ c[A] = s.core[A]
       /\ r[PC] = 0 => c[A + 2] = s.core[A + 2]
       /\ r[PC] \in {4, 6} => r[0] = s.core[A + 2]
       /\ r[PC] = 6 => r[1] = s.core[A]
       /\ r[PC] = 8 => /\ f.v = z.f.v
                       /\ z.store => r[0] = z.hi % 2^(2 * W) /\ r[1] = z.lo % 2^(2 * W)

\* What lies in the text of the dividing routine.
LEMMA DivText ==
    ASSUME routine = Div2
    PROVE  /\ Lies(0, Two("MOV", Idx(1), Rg(0))) /\ Lies(2, Data(2))
           /\ Lies(4, Two("MOV", At(1), Rg(1))) /\ Lies(6, Two("DIV", Rg(0), At(2)))
           /\ DOMAIN routine.text = 1 .. 4
<1> DEFINE t == routine.text
<1>1. t = <<Two("MOV", Idx(1), Rg(0)), Data(2), Two("MOV", At(1), Rg(1)),
            Two("DIV", Rg(0), At(2))>>
  BY DEF Div2, Routine
<1>2. /\ DOMAIN t = 1 .. 4 /\ t[1] = Two("MOV", Idx(1), Rg(0)) /\ t[2] = Data(2)
      /\ t[3] = Two("MOV", At(1), Rg(1)) /\ t[4] = Two("DIV", Rg(0), At(2))
  BY <1>1
<1> QED BY <1>2, Numbers, LiesAt

\* Each step of the dividing routine, and each abort, keeps its assertion.
LEMMA DivKept ==
    ASSUME TypeOK, Hosted, Step, routine = Div2, DivAt(start, m.r, m.f, m.core)
    PROVE  /\ m'.left \in {"no", "fault"}
           /\ Runs(m') => DivAt(start, m'.r, m'.f, m'.core)
           /\ m'.left = "fault" => /\ m'.pc = m.r[PC] /\ m'.core = m.core
                                   /\ DivAt(start, m.r, m'.f, m.core)
<1> DEFINE r == [m.r EXCEPT ![PC] = m.r[PC] + 2]
           x == start.core[A + 2]
           a == start.core[A]
           b == start.core[B]
<1>0. /\ m.core \in [Cells -> Word] /\ Plain(A) /\ Plain(A + 2) /\ Plain(B)
      /\ a \in Word /\ b \in Word /\ x \in Word /\ "DIV" \in LongOps
  BY PlainCells, FlagsTold DEF TypeOK, Machine, LongOps
<1>1. CASE m.r[PC] = 0
  <2> DEFINE t == With(r, PC, 4)
             y == m.core[A + 2]
             v == With(t, 0, y)
             g == Logical(y, 2, m.f).f
  <2>1. Executes(0, Two("MOV", Idx(1), Rg(0)), r) /\ Lies(2, Data(2)) /\ 2 + 2 = 4 /\ Hosted
    BY <1>1, DivText DEF Executes
  <2> HIDE DEF r
  <2>2. /\ r[PC] = 2 /\ r \in [0 .. 7 -> Long] /\ r[1] = A /\ r[2] = B
        /\ m.core[A] = a /\ y = x /\ m.core[B] = b
    BY <1>1, <2>1, ExecutesTyped, Registered DEF DivAt
  <2>3. v[PC] = 4 /\ v[0] = x /\ v[1] = A /\ v[2] = B
    BY <2>2, Registered DEF With
  <2>4. Finds(Idx(1), 2, r, m.core, A + 2, t)
    <3>1. Finds(Idx(1), 2, r, m.core, A + 2, With(r, PC, 2 + 2))
      BY <1>0, <2>1, <2>2, Registered, NextGoes
    <3> QED BY <2>1, <3>1
  <2> HIDE DEF t
  <2>5. Goes(v, g, m.core)
    BY <1>0, <2>1, <2>4, Registered, MoveIn
  <2> HIDE DEF v, g
  <2>6. DivAt(start, v, g, m.core)
    BY <2>2, <2>3 DEF DivAt
  <2> QED BY <1>1, <2>5, <2>6 DEF Goes, Becomes, DivAt
<1>2. CASE m.r[PC] = 4
  <2> DEFINE y == m.core[A]
             v == With(r, 1, y)
             g == Logical(y, 2, m.f).f
  <2>1. Executes(4, Two("MOV", At(1), Rg(1)), r)
    BY <1>2, DivText DEF Executes
  <2> HIDE DEF r
  <2>2. /\ r[PC] = 6 /\ r \in [0 .. 7 -> Long] /\ r[0] = x /\ r[1] = A /\ r[2] = B
        /\ y = a /\ m.core[B] = b
    BY <1>2, <2>1, ExecutesTyped, Registered DEF DivAt
  <2>3. v[PC] = 6 /\ v[0] = x /\ v[1] = a /\ v[2] = B
    BY <2>2, Registered DEF With
  <2>4. Finds(At(1), 2, r, m.core, A, r)
    BY <1>0, <2>2, Registered, AtGoes
  <2>5. Goes(v, g, m.core)
    BY <1>0, <2>1, <2>4, Registered, MoveIn
  <2> HIDE DEF v, g
  <2>6. DivAt(start, v, g, m.core)
    BY <2>2, <2>3 DEF DivAt
  <2> QED BY <1>2, <2>5, <2>6 DEF Goes, Becomes, DivAt
<1>3. CASE m.r[PC] = 6
  <2> DEFINE z == DIV(x, a, b)
             v == Extends("DIV", 0, z, r)
  <2>1. Executes(6, Two("DIV", Rg(0), At(2)), r) /\ 0 \in 0 .. 7
    BY <1>3, DivText DEF Executes
  <2> HIDE DEF r
  <2>2. /\ r[PC] = 8 /\ r \in [0 .. 7 -> Long] /\ r[0] = x /\ r[1] = a /\ r[2] = B
        /\ m.core[B] = b /\ OddOf(0) = 1
    BY <1>3, <2>1, ExecutesTyped, Registered DEF DivAt, OddOf
  <2>3. Loads(At(2), 2, r, m.core, B, r, b) /\ "DIV" # "MUL"
    BY <1>0, <2>2, Registered, AtLoads
  <2>4. Goes(v, z.f, m.core)
    <3>1. PICK u \in BOOLEAN : LET y == LongOf("DIV", r[0], r[OddOf(0)], b, u)
                               IN Goes(Extends("DIV", 0, y, r), y.f, m.core)
      BY <1>0, <2>1, <2>3, ExtendedOn
    <3>2. LongOf("DIV", r[0], r[OddOf(0)], b, u) = z
      BY <2>2 DEF LongOf
    <3> QED BY <3>1, <3>2
  <2> HIDE DEF z
  <2>5. v[PC] = 8 /\ (z.store => v[0] = z.hi % 2^(2 * W) /\ v[1] = z.lo % 2^(2 * W))
    <3>1. 0 \in {0, 4} /\ 0 + 1 = 1 /\ "DIV" # "ASH"
      OBVIOUS
    <3>2. v[PC] = 8
      BY <2>2, <3>1, PairPut
    <3>3. ASSUME z.store
          PROVE  v[0] = z.hi % 2^(2 * W) /\ v[1] = z.lo % 2^(2 * W)
      BY <2>2, <3>1, <3>3, PairPut
    <3> QED BY <3>2, <3>3
  <2> HIDE DEF v
  <2>6. DivAt(start, v, z.f, m.core)
    BY <2>5 DEF DivAt, z
  <2> QED BY <1>3, <2>4, <2>6 DEF Goes, Becomes, DivAt
<1>4. m.r[PC] # 8
  BY DivText, Numbers, EndsBehind
<1> QED BY <1>1, <1>2, <1>3, <1>4 DEF DivAt

\* A word shifted in R3.
AshAt(n, s, r, f, c) ==
    /\ r[PC] \in {0, 2, 4}
    /\ r[PC] \in {0, 2} => r[0] = n
    /\ r[PC] = 0 => r[1] = A /\ c[A] = s.core[A]
    /\ r[PC] = 2 => r[3] = s.core[A]
    /\ r[PC] = 4 => \E u \in BOOLEAN : r[3] = ASH(s.core[A], n, u).hi % 2^(2 * W)

\* What lies in the text of the word shifting routine.
LEMMA AshText ==
    ASSUME NEW n, routine = Ash1(n)
    PROVE  /\ Lies(0, Two("MOV", At(1), Rg(3))) /\ Lies(2, Two("ASH", Rg(3), Rg(0)))
           /\ DOMAIN routine.text = 1 .. 2
<1> DEFINE t == routine.text
<1>1. t = <<Two("MOV", At(1), Rg(3)), Two("ASH", Rg(3), Rg(0))>>
  BY DEF Ash1, Routine
<1>2. /\ DOMAIN t = 1 .. 2 /\ t[1] = Two("MOV", At(1), Rg(3))
      /\ t[2] = Two("ASH", Rg(3), Rg(0))
  BY <1>1
<1> QED BY <1>2, Numbers, LiesAt

\* A count of a shift is read from R0 as it is.
LEMMA CountLoads ==
    ASSUME NEW n \in 0 .. 4 * W - 1, NEW r, NEW c, r[0] = n
    PROVE  Loads(Rg(0), 2, r, c, Pseudo + 0, r, n)
<1>1. n % 2^W = n
  BY Sizes
<1>2. Loads(Rg(0), 2, r, c, Pseudo + 0, r, r[0] % 2^Bits(2))
  BY Registered, RgLoads
<1> QED BY <1>1, <1>2 DEF Bits

\* Each step of the word shifting routine, and each abort, keeps its assertion.
LEMMA AshKept ==
    ASSUME TypeOK, Hosted, Step, NEW n \in 0 .. 4 * W - 1, routine = Ash1(n),
           AshAt(n, start, m.r, m.f, m.core)
    PROVE  /\ m'.left \in {"no", "fault"}
           /\ Runs(m') => AshAt(n, start, m'.r, m'.f, m'.core)
           /\ m'.left = "fault" => /\ m'.pc = m.r[PC] /\ m'.core = m.core
                                   /\ AshAt(n, start, m.r, m'.f, m.core)
<1> DEFINE r == [m.r EXCEPT ![PC] = m.r[PC] + 2]
           a == start.core[A]
<1>0. m.core \in [Cells -> Word] /\ Plain(A) /\ a \in Word /\ "ASH" \in LongOps
  BY PlainCells, FlagsTold DEF TypeOK, Machine, LongOps
<1>1. CASE m.r[PC] = 0
  <2> DEFINE y == m.core[A]
             v == With(r, 3, y)
             g == Logical(y, 2, m.f).f
  <2>1. Executes(0, Two("MOV", At(1), Rg(3)), r)
    BY <1>1, AshText DEF Executes
  <2> HIDE DEF r
  <2>2. r[PC] = 2 /\ r \in [0 .. 7 -> Long] /\ r[0] = n /\ r[1] = A /\ y = a
    BY <1>1, <2>1, ExecutesTyped, Registered DEF AshAt
  <2>3. v[PC] = 2 /\ v[0] = n /\ v[3] = a
    BY <2>2, Registered DEF With
  <2>4. Finds(At(1), 2, r, m.core, A, r)
    BY <1>0, <2>2, Registered, AtGoes
  <2>5. Goes(v, g, m.core)
    BY <1>0, <2>1, <2>4, Registered, MoveIn
  <2> HIDE DEF v, g
  <2>6. AshAt(n, start, v, g, m.core)
    BY <2>2, <2>3 DEF AshAt
  <2> QED BY <1>1, <2>5, <2>6 DEF Goes, Becomes, AshAt
<1>2. CASE m.r[PC] = 2
  <2>1. Executes(2, Two("ASH", Rg(3), Rg(0)), r) /\ 3 \in 0 .. 7
    BY <1>2, AshText DEF Executes
  <2> HIDE DEF r
  <2>2. r[PC] = 4 /\ r \in [0 .. 7 -> Long] /\ r[0] = n /\ r[3] = a
    BY <1>2, <2>1, ExecutesTyped, Registered DEF AshAt
  <2>3. Loads(Rg(0), 2, r, m.core, Pseudo + 0, r, n) /\ "ASH" # "MUL"
    BY <2>2, CountLoads
  <2>4. PICK u \in BOOLEAN : LET z == LongOf("ASH", r[3], r[OddOf(3)], n, u)
                             IN Goes(Extends("ASH", 3, z, r), z.f, m.core)
    BY <1>0, <2>1, <2>3, ExtendedOn
  <2> DEFINE z == ASH(a, n, u)
             v == Extends("ASH", 3, z, r)
  <2>5. Goes(v, z.f, m.core) /\ z.store
    <3>1. LongOf("ASH", r[3], r[OddOf(3)], n, u) = z
      BY <2>2 DEF LongOf
    <3>2. z.store
      BY DEF ASH, Registers
    <3> QED BY <2>4, <3>1, <3>2
  <2> HIDE DEF z
  <2>6. v[PC] = 4 /\ v[3] = z.hi % 2^(2 * W)
    BY <2>2, <2>5, SinglePut
  <2> HIDE DEF v
  <2>7. AshAt(n, start, v, z.f, m.core)
    BY <2>6 DEF AshAt, z
  <2> QED BY <1>2, <2>5, <2>7 DEF Goes, Becomes, AshAt
<1>3. m.r[PC] # 4
  BY AshText, Numbers, EndsBehind
<1> QED BY <1>1, <1>2, <1>3 DEF AshAt

\* A double word shifted in R4 and R5.
AshcAt(n, s, r, f, c) ==
    /\ r[PC] \in {0, 4, 6, 8}
    /\ r[PC] \in {0, 4, 6} => r[0] = n
    /\ r[PC] \in {0, 4} => r[1] = A /\ c[A] = s.core[A]
    /\ r[PC] = 0 => c[A + 2] = s.core[A + 2]
    /\ r[PC] \in {4, 6} => r[4] = s.core[A + 2]
    /\ r[PC] = 6 => r[5] = s.core[A]
    /\ r[PC] = 8 => \E u \in BOOLEAN :
           LET z == ASHC(s.core[A + 2], s.core[A], n, u)
           IN r[4] = z.hi % 2^(2 * W) /\ r[5] = z.lo % 2^(2 * W)

\* What lies in the text of the double word shifting routine.
LEMMA AshcText ==
    ASSUME NEW n, routine = Ash2(n)
    PROVE  /\ Lies(0, Two("MOV", Idx(1), Rg(4))) /\ Lies(2, Data(2))
           /\ Lies(4, Two("MOV", At(1), Rg(5))) /\ Lies(6, Two("ASHC", Rg(4), Rg(0)))
           /\ DOMAIN routine.text = 1 .. 4
<1> DEFINE t == routine.text
<1>1. t = <<Two("MOV", Idx(1), Rg(4)), Data(2), Two("MOV", At(1), Rg(5)),
            Two("ASHC", Rg(4), Rg(0))>>
  BY DEF Ash2, Routine
<1>2. /\ DOMAIN t = 1 .. 4 /\ t[1] = Two("MOV", Idx(1), Rg(4)) /\ t[2] = Data(2)
      /\ t[3] = Two("MOV", At(1), Rg(5)) /\ t[4] = Two("ASHC", Rg(4), Rg(0))
  BY <1>1
<1> QED BY <1>2, Numbers, LiesAt

\* Each step of the double word shifting routine, and each abort, keeps its
\* assertion.
LEMMA AshcKept ==
    ASSUME TypeOK, Hosted, Step, NEW n \in 0 .. 4 * W - 1, routine = Ash2(n),
           AshcAt(n, start, m.r, m.f, m.core)
    PROVE  /\ m'.left \in {"no", "fault"}
           /\ Runs(m') => AshcAt(n, start, m'.r, m'.f, m'.core)
           /\ m'.left = "fault" => /\ m'.pc = m.r[PC] /\ m'.core = m.core
                                   /\ AshcAt(n, start, m.r, m'.f, m.core)
<1> DEFINE r == [m.r EXCEPT ![PC] = m.r[PC] + 2]
           x == start.core[A + 2]
           a == start.core[A]
<1>0. /\ m.core \in [Cells -> Word] /\ Plain(A) /\ Plain(A + 2)
      /\ a \in Word /\ x \in Word /\ "ASHC" \in LongOps
  BY PlainCells, FlagsTold DEF TypeOK, Machine, LongOps
<1>1. CASE m.r[PC] = 0
  <2> DEFINE t == With(r, PC, 4)
             y == m.core[A + 2]
             v == With(t, 4, y)
             g == Logical(y, 2, m.f).f
  <2>1. Executes(0, Two("MOV", Idx(1), Rg(4)), r) /\ Lies(2, Data(2)) /\ 2 + 2 = 4 /\ Hosted
    BY <1>1, AshcText DEF Executes
  <2> HIDE DEF r
  <2>2. /\ r[PC] = 2 /\ r \in [0 .. 7 -> Long] /\ r[0] = n /\ r[1] = A
        /\ m.core[A] = a /\ y = x
    BY <1>1, <2>1, ExecutesTyped, Registered DEF AshcAt
  <2>3. v[PC] = 4 /\ v[0] = n /\ v[1] = A /\ v[4] = x
    BY <2>2, Registered DEF With
  <2>4. Finds(Idx(1), 2, r, m.core, A + 2, t)
    <3>1. Finds(Idx(1), 2, r, m.core, A + 2, With(r, PC, 2 + 2))
      BY <1>0, <2>1, <2>2, Registered, NextGoes
    <3> QED BY <2>1, <3>1
  <2> HIDE DEF t
  <2>5. Goes(v, g, m.core)
    BY <1>0, <2>1, <2>4, Registered, MoveIn
  <2> HIDE DEF v, g
  <2>6. AshcAt(n, start, v, g, m.core)
    BY <2>2, <2>3 DEF AshcAt
  <2> QED BY <1>1, <2>5, <2>6 DEF Goes, Becomes, AshcAt
<1>2. CASE m.r[PC] = 4
  <2> DEFINE y == m.core[A]
             v == With(r, 5, y)
             g == Logical(y, 2, m.f).f
  <2>1. Executes(4, Two("MOV", At(1), Rg(5)), r)
    BY <1>2, AshcText DEF Executes
  <2> HIDE DEF r
  <2>2. r[PC] = 6 /\ r \in [0 .. 7 -> Long] /\ r[0] = n /\ r[1] = A /\ r[4] = x /\ y = a
    BY <1>2, <2>1, ExecutesTyped, Registered DEF AshcAt
  <2>3. v[PC] = 6 /\ v[0] = n /\ v[4] = x /\ v[5] = a
    BY <2>2, Registered DEF With
  <2>4. Finds(At(1), 2, r, m.core, A, r)
    BY <1>0, <2>2, Registered, AtGoes
  <2>5. Goes(v, g, m.core)
    BY <1>0, <2>1, <2>4, Registered, MoveIn
  <2> HIDE DEF v, g
  <2>6. AshcAt(n, start, v, g, m.core)
    BY <2>2, <2>3 DEF AshcAt
  <2> QED BY <1>2, <2>5, <2>6 DEF Goes, Becomes, AshcAt
<1>3. CASE m.r[PC] = 6
  <2>1. Executes(6, Two("ASHC", Rg(4), Rg(0)), r) /\ 4 \in 0 .. 7
    BY <1>3, AshcText DEF Executes
  <2> HIDE DEF r
  <2>2. /\ r[PC] = 8 /\ r \in [0 .. 7 -> Long] /\ r[0] = n /\ r[4] = x /\ r[5] = a
        /\ OddOf(4) = 5
    BY <1>3, <2>1, ExecutesTyped, Registered DEF AshcAt, OddOf
  <2>3. Loads(Rg(0), 2, r, m.core, Pseudo + 0, r, n) /\ "ASHC" # "MUL"
    BY <2>2, CountLoads
  <2>4. PICK u \in BOOLEAN : LET z == LongOf("ASHC", r[4], r[OddOf(4)], n, u)
                             IN Goes(Extends("ASHC", 4, z, r), z.f, m.core)
    BY <1>0, <2>1, <2>3, ExtendedOn
  <2> DEFINE z == ASHC(x, a, n, u)
             v == Extends("ASHC", 4, z, r)
  <2>5. Goes(v, z.f, m.core) /\ z.store
    <3>1. LongOf("ASHC", r[4], r[OddOf(4)], n, u) = z
      BY <2>2 DEF LongOf
    <3>2. z.store
      BY DEF ASHC, Registers
    <3> QED BY <2>4, <3>1, <3>2
  <2> HIDE DEF z
  <2>6. v[PC] = 8 /\ v[4] = z.hi % 2^(2 * W) /\ v[5] = z.lo % 2^(2 * W)
    <3>1. 4 \in {0, 4} /\ 4 + 1 = 5 /\ "ASHC" # "ASH"
      OBVIOUS
    <3> QED BY <2>2, <2>5, <3>1, PairPut
  <2> HIDE DEF v
  <2>7. AshcAt(n, start, v, z.f, m.core)
    BY <2>6 DEF AshcAt, z
  <2> QED BY <1>3, <2>5, <2>7 DEF Goes, Becomes, AshcAt
<1>4. m.r[PC] # 8
  BY AshcText, Numbers, EndsBehind
<1> QED BY <1>1, <1>2, <1>3, <1>4 DEF AshcAt

-----------------------------------------------------------------------------
\* The ones counted, those still to count and the carry are all there are.
OnesIn(x) == Cardinality(BitsOf(x))

OnesAt(s, r, f, c) ==
    /\ r[PC] \in {0, 2, 4, 6, 8, 10, 12}
    /\ r[PC] = 0 => r[1] = A /\ c[A] = s.core[A]
    /\ r[PC] = 2 => r[0] = s.core[A]
    /\ r[PC] \in {4, 6, 8, 10, 12} =>
           /\ r[0] \in Word /\ r[5] \in Nat
           /\ r[5] + OnesIn(r[0]) + (IF r[PC] = 6 /\ f.c THEN 1 ELSE 0) = OnesIn(s.core[A])
    /\ r[PC] = 10 => (f.z <=> r[0] = 0)
    /\ r[PC] = 12 => r[0] = 0

\* What lies in the text of the bit counting routine.
LEMMA OnesText ==
    ASSUME routine = Ones
    PROVE  /\ Lies(0, Two("MOV", At(1), Rg(0))) /\ Lies(2, One("CLR", Rg(5)))
           /\ Lies(4, One("ASL", Rg(0))) /\ Lies(6, One("ADC", Rg(5)))
           /\ Lies(8, One("TST", Rg(0))) /\ Lies(10, Go("BNE", -4))
           /\ DOMAIN routine.text = 1 .. 6
<1> DEFINE t == routine.text
<1>1. t = <<Two("MOV", At(1), Rg(0)), One("CLR", Rg(5)), One("ASL", Rg(0)), One("ADC", Rg(5)),
            One("TST", Rg(0)), Go("BNE", -4)>>
  BY DEF Ones, Routine
<1>2. /\ DOMAIN t = 1 .. 6 /\ t[1] = Two("MOV", At(1), Rg(0)) /\ t[2] = One("CLR", Rg(5))
      /\ t[3] = One("ASL", Rg(0)) /\ t[4] = One("ADC", Rg(5)) /\ t[5] = One("TST", Rg(0))
      /\ t[6] = Go("BNE", -4)
  BY <1>1
<1> QED BY <1>2, Numbers, LiesAt

\* A word has no more ones than bits.
LEMMA OnesBounded ==
    /\ OnesIn(0) = 0
    /\ \A x \in Word : OnesIn(x) \in 0 .. 2 * W
    /\ \A n \in 0 .. 2 * W : n \in Word /\ n + 1 \in Word
<1>1. OnesIn(0) = 0
  <2>1. 0 \in 0 .. 2 * W /\ 0 \in 0 .. 2^0 - 1
    BY WidthAssumption, PowersDouble
  <2>2. BitsOf(0) \subseteq 0 .. 0 - 1
    BY <2>1, BitsFromBits
  <2>3. BitsOf(0) = {}
    BY <2>2
  <2> QED BY <2>3, FS_EmptySet DEF OnesIn
<1>2. \A x : OnesIn(x) \in 0 .. 2 * W
  <2> TAKE x
  <2>1. BitsOf(x) \subseteq 0 .. 2 * W - 1
    BY DEF BitsOf
  <2>2. IsFiniteSet(0 .. 2 * W - 1) /\ Cardinality(0 .. 2 * W - 1) = 2 * W
    <3>1. 0 \in Int /\ 2 * W - 1 \in Int /\ 2 * W - 1 - 0 + 1 = 2 * W /\ ~(0 > 2 * W - 1)
      BY WidthAssumption
    <3> QED BY <3>1, FS_Interval
  <2>3. IsFiniteSet(BitsOf(x)) /\ Cardinality(BitsOf(x)) <= 2 * W
    BY <2>1, <2>2, FS_Subset
  <2>4. Cardinality(BitsOf(x)) \in Nat
    BY <2>3, FS_CardinalityType
  <2> QED BY <2>3, <2>4, WidthAssumption DEF OnesIn
<1>3. \A n \in 0 .. 2 * W : n \in Word /\ n + 1 \in Word
  BY WidthAssumption, Places, Powers DEF Word
<1> QED BY <1>1, <1>2, <1>3

\* Each step of the bit counting routine, and each abort, keeps its assertion.
LEMMA OnesKept ==
    ASSUME TypeOK, Hosted, Step, routine = Ones, OnesAt(start, m.r, m.f, m.core)
    PROVE  /\ m'.left \in {"no", "fault"}
           /\ Runs(m') => OnesAt(start, m'.r, m'.f, m'.core)
           /\ m'.left = "fault" => /\ m'.pc = m.r[PC] /\ m'.core = m.core
                                   /\ OnesAt(start, m.r, m'.f, m.core)
<1> DEFINE r == [m.r EXCEPT ![PC] = m.r[PC] + 2]
           x == m.r[0]
           n == m.r[5]
           a == start.core[A]
<1>0. /\ m.core \in [Cells -> Word] /\ a \in Word /\ Plain(A) /\ m.f.c \in BOOLEAN /\ m.f.z \in BOOLEAN
  BY PlainCells, PlainFacts DEF TypeOK, Machine, Flags
<1>a. OnesIn(a) \in Int /\ OnesIn(a) <= 2 * W /\ OnesIn(a) >= 0 /\ 2 * W \in Int
  BY <1>0, OnesBounded, WidthAssumption
<1>1. CASE m.r[PC] = 0
  <2> DEFINE v == With(r, 0, m.core[A])
             g == Logical(m.core[A], 2, m.f).f
  <2>1. Executes(0, Two("MOV", At(1), Rg(0)), r)
    BY <1>1, OnesText DEF Executes
  <2> HIDE DEF r
  <2>2. r[PC] = 2 /\ r \in [0 .. 7 -> Long] /\ r[1] = A /\ m.core[A] = a
    BY <1>1, <2>1, ExecutesTyped, Registered DEF OnesAt
  <2>3. v[PC] = 2 /\ v[0] = a
    BY <2>2, Registered DEF With
  <2>4. Finds(At(1), 2, r, m.core, A, r)
    BY <1>0, <2>2, Registered, AtGoes
  <2>5. Goes(v, g, m.core)
    BY <1>0, <2>1, <2>4, Registered, MoveIn
  <2> HIDE DEF v, g
  <2>6. OnesAt(start, v, g, m.core)
    BY <2>3 DEF OnesAt
  <2> QED BY <1>1, <2>5, <2>6 DEF Goes, Becomes, OnesAt
<1>2. CASE m.r[PC] = 2
  <2> DEFINE v == With(r, 5, 0)
             g == CLR(2, m.f).f
  <2>1. Executes(2, One("CLR", Rg(5)), r)
    BY <1>2, OnesText DEF Executes
  <2> HIDE DEF r
  <2>2. r[PC] = 4 /\ r \in [0 .. 7 -> Long] /\ r[0] = a
    BY <1>2, <2>1, ExecutesTyped, Registered DEF OnesAt
  <2>3. v[PC] = 4 /\ v[0] = a /\ v[5] = 0
    BY <2>2, Registered DEF With
  <2>4. Goes(v, g, m.core)
    BY <2>1, Registered, ClearOn
  <2> HIDE DEF v, g
  <2>5. OnesAt(start, v, g, m.core)
    <3>1. v[5] + OnesIn(v[0]) + 0 = OnesIn(a) /\ v[5] \in Nat /\ v[0] \in Word
      BY <1>0, <1>a, <2>3
    <3> HIDE DEF a
    <3> QED BY <2>3, <3>1 DEF OnesAt, a
  <2> QED BY <1>2, <2>4, <2>5 DEF Goes, Becomes, OnesAt
<1>3. CASE m.r[PC] = 4
  <2> DEFINE y == (2 * x) % 2^W
             z == Computed1("ASL", x, 2, m.f)
             v == With(r, 0, y)
  <2>1. Executes(4, One("ASL", Rg(0)), r) /\ "ASL" \in OneOperand
    BY <1>3, OnesText DEF Executes, OneOperand
  <2> HIDE DEF r
  <2>2. r[PC] = 6 /\ r \in [0 .. 7 -> Long] /\ r[0] = x /\ r[5] = n
    BY <1>3, <2>1, ExecutesTyped, Registered
  <2>3. x \in Word /\ n \in Nat /\ n + OnesIn(x) + 0 = OnesIn(a)
    BY <1>3 DEF OnesAt
  <2>4. v[PC] = 6 /\ v[0] = y /\ v[5] = n
    BY <2>2, Registered DEF With
  <2>5. y \in Word /\ y % 2^(2 * W) = y
    <3>1. \A q \in Word : 2 * q \in Int
      BY WordsInt
    <3>2. y \in Word
      BY <2>3, <3>1, WordFacts
    <3> QED BY <3>2, LongWord
  <2>6. z.store /\ z.val = y /\ (z.f.c <=> Sign(x, 2)) /\ z.f.c \in BOOLEAN
    BY SignTyped DEF Computed1, ASL, Result, Bits
  <2>7. OnesIn(x) = OnesIn(y) + (IF Sign(x, 2) THEN 1 ELSE 0)
    BY <2>3, DoubledOnes DEF OnesIn
  <2>8. Is(z, Computed1("ASL", x, 2, m.f))
    BY DEF Is
  <2> HIDE DEF x, n, y, z
  <2>9. Goes(With(r, 0, z.val % 2^(2 * W)), z.f, m.core)
    BY <2>1, <2>2, <2>3, <2>6, <2>8, Registered, UnaryOn
  <2>10. Goes(v, z.f, m.core)
    BY <2>5, <2>6, <2>9
  <2> HIDE DEF v
  <2>11. v[5] + OnesIn(v[0]) + (IF z.f.c THEN 1 ELSE 0) = OnesIn(a)
    <3>1. OnesIn(x) \in Int /\ OnesIn(y) \in Int
      BY <2>3, <2>5, OnesBounded
    <3> QED BY <2>3, <2>4, <2>6, <2>7, <3>1
  <2> HIDE DEF a
  <2>12. OnesAt(start, v, z.f, m.core)
    BY <2>3, <2>4, <2>5, <2>11 DEF OnesAt, a
  <2>13. \A g : OnesAt(start, m.r, g, m.core)
    BY <1>3 DEF OnesAt
  <2> QED BY <2>10, <2>12, <2>13 DEF Goes, Becomes
<1>4. CASE m.r[PC] = 6
  <2> DEFINE z == Computed1("ADC", n, 2, m.f)
             d == IF m.f.c THEN 1 ELSE 0
             v == With(r, 5, n + 1)
  <2>1. Executes(6, One("ADC", Rg(5)), r) /\ "ADC" \in OneOperand
    BY <1>4, OnesText DEF Executes, OneOperand
  <2> HIDE DEF r
  <2>2. r[PC] = 8 /\ r \in [0 .. 7 -> Long] /\ r[0] = x /\ r[5] = n
    BY <1>4, <2>1, ExecutesTyped, Registered
  <2>3. x \in Word /\ n \in Nat /\ n + OnesIn(x) + d = OnesIn(a)
    BY <1>4 DEF OnesAt
  <2>4. v[PC] = 8 /\ v[0] = x /\ v[5] = n + 1
    BY <2>2, Registered DEF With
  <2>5. /\ n \in Word /\ (n + 1) % 2^W = n + 1 /\ (n + 1) % 2^(2 * W) = n + 1
    <3>1. OnesIn(x) \in Int /\ OnesIn(x) >= 0
      BY <2>3, OnesBounded, WidthAssumption
    <3>2. n \in 0 .. 2 * W
      BY <1>a, <2>3, <3>1
    <3>3. n \in Word /\ n + 1 \in Word
      BY <3>2, OnesBounded
    <3> QED BY <3>3, LongWord, SmallSums
  <2>6. (z.store <=> m.f.c) /\ (m.f.c => z.val = n + 1)
    BY <2>5 DEF Computed1, ADC, Result, Bits
  <2>7. Is(z, Computed1("ADC", n, 2, m.f))
    BY DEF Is
  <2> HIDE DEF x, n, z
  <2>8. /\ z.store => Goes(With(r, 5, z.val % 2^(2 * W)), z.f, m.core)
        /\ ~z.store => Goes(r, z.f, m.core)
        /\ m'.left = "fault" /\ "ADC" \in {"ADC", "SBC", "ROR", "ROL"} => m'.f.c = m.f.c
    BY <2>1, <2>2, <2>5, <2>7, Registered, UnaryOn
  <2> HIDE DEF v
  <2>9. PICK w : /\ Goes(w, z.f, m.core) /\ w[PC] = 8 /\ w[0] = x /\ w[5] = n + d
    <3>1. CASE m.f.c
      <4>1. With(r, 5, z.val % 2^(2 * W)) = v
        BY <2>5, <2>6, <3>1 DEF v
      <4> QED BY <2>4, <2>6, <2>8, <3>1, <4>1
    <3>2. CASE ~m.f.c
      <4>1. n + d = n
        BY <2>3, <3>2
      <4> QED BY <2>2, <2>6, <2>8, <3>2, <4>1
    <3> QED BY <3>1, <3>2
  <2>10. w[5] \in Nat /\ w[5] + OnesIn(w[0]) + 0 = OnesIn(a)
    <3>1. OnesIn(x) \in Int
      BY <2>3, OnesBounded
    <3> QED BY <2>3, <2>9, <3>1
  <2> HIDE DEF d
  <2>11. OnesAt(start, w, z.f, m.core)
    <3> HIDE DEF a
    <3> QED BY <2>3, <2>9, <2>10 DEF OnesAt, a
  <2>12. m'.left = "fault" => OnesAt(start, m.r, m'.f, m.core)
    <3> SUFFICES ASSUME m'.left = "fault" PROVE OnesAt(start, m.r, m'.f, m.core)
      OBVIOUS
    <3>1. m'.f.c = m.f.c
      BY <2>8
    <3> QED BY <1>4, <3>1 DEF OnesAt
  <2> QED BY <2>9, <2>11, <2>12 DEF Goes, Becomes
<1>5. CASE m.r[PC] = 8
  <2> DEFINE z == Computed1("TST", x, 2, m.f)
  <2>1. Executes(8, One("TST", Rg(0)), r) /\ "TST" \in OneOperand
    BY <1>5, OnesText DEF Executes, OneOperand
  <2> HIDE DEF r
  <2>2. r[PC] = 10 /\ r \in [0 .. 7 -> Long] /\ r[0] = x /\ r[5] = n
    BY <1>5, <2>1, ExecutesTyped, Registered
  <2>3. x \in Word /\ n \in Nat /\ n + OnesIn(x) + 0 = OnesIn(a)
    BY <1>5 DEF OnesAt
  <2>4. ~z.store /\ (z.f.z <=> x = 0)
    BY <2>3, CountsTold
  <2>5. Is(z, Computed1("TST", x, 2, m.f))
    BY DEF Is
  <2> HIDE DEF x, n, z
  <2>6. Goes(r, z.f, m.core)
    BY <2>1, <2>2, <2>3, <2>4, <2>5, Registered, UnaryOn
  <2> HIDE DEF a
  <2>7. OnesAt(start, r, z.f, m.core)
    BY <2>2, <2>3, <2>4 DEF OnesAt, a
  <2>8. \A g : OnesAt(start, m.r, g, m.core)
    BY <1>5 DEF OnesAt
  <2> QED BY <2>6, <2>7, <2>8 DEF Goes, Becomes
<1>6. CASE m.r[PC] = 10
  <2> DEFINE v == With(r, PC, 4)
  <2>1. Executes(10, Go("BNE", -4), r)
    BY <1>6, OnesText DEF Executes
  <2> HIDE DEF r
  <2>2. r[PC] = 12 /\ r \in [0 .. 7 -> Long] /\ r[0] = x /\ r[5] = n
    BY <1>6, <2>1, ExecutesTyped, Registered
  <2>3. x \in Word /\ n \in Nat /\ n + OnesIn(x) + 0 = OnesIn(a) /\ (m.f.z <=> x = 0)
    BY <1>6 DEF OnesAt
  <2> HIDE DEF x, n
  <2>4. v[PC] = 4 /\ v[0] = x /\ v[5] = n
    BY <2>2, Registered DEF With
  <2>5. (10 + 2 + 2 * (-4)) % 2^(2 * W) = 4
    BY Sizes
  <2>6. /\ m.f.z => Goes(r, m.f, m.core)
        /\ ~m.f.z => Goes(v, m.f, m.core)
        /\ Runs(m')
    BY <2>1, <2>5, UnlessZero
  <2> HIDE DEF v, a
  <2>7. m.f.z => OnesAt(start, r, m.f, m.core)
    BY <2>2, <2>3 DEF OnesAt, a
  <2>8. OnesAt(start, v, m.f, m.core)
    BY <2>3, <2>4 DEF OnesAt, a
  <2> QED BY <1>0, <2>6, <2>7, <2>8 DEF Goes, Becomes, Runs
<1>7. m.r[PC] # 12
  BY OnesText, Numbers, EndsBehind
<1> QED BY <1>1, <1>2, <1>3, <1>4, <1>5, <1>6, <1>7 DEF OnesAt

-----------------------------------------------------------------------------
\* One byte goes after the other, each from the lower half of R0.
Swapped(x) == x \div ByteSize + (x % ByteSize) * ByteSize

BytesAt(s, r, f, c) ==
    LET a == s.core[A] IN
    /\ r[PC] \in {0, 2, 4, 6, 8, 10, 14}
    /\ r[PC] = 0 => c[A] = a
    /\ r[PC] \in {0, 2, 4, 6, 8, 10} => r[1] = A /\ ByteIn(c, A + 1) = a \div ByteSize
    /\ r[PC] \in {0, 2, 4} => r[2] = B
    /\ r[PC] \in {6, 8} => r[2] = B + 1
    /\ r[PC] \in {2, 8} => r[0] = a
    /\ r[PC] \in {4, 6} => r[0] = Swapped(a)
    /\ r[PC] \in {6, 8, 10, 14} => ByteIn(c, B) = a \div ByteSize
    /\ r[PC] \in {10, 14} => ByteIn(c, B + 1) = a % ByteSize
    /\ r[PC] = 14 => r[3] = MovedWord(a \div ByteSize, 1, Pseudo + 3) % 2^(2 * W)

\* What lies in the text of the byte routine.
LEMMA BytesText ==
    ASSUME routine = Bytes
    PROVE  /\ Lies(0, Two("MOV", At(1), Rg(0))) /\ Lies(2, One("SWAB", Rg(0)))
           /\ Lies(4, TwoB("MOV", Rg(0), Inc(2))) /\ Lies(6, One("SWAB", Rg(0)))
           /\ Lies(8, TwoB("MOV", Rg(0), At(2))) /\ Lies(10, TwoB("MOV", Idx(1), Rg(3)))
           /\ Lies(12, Data(1)) /\ DOMAIN routine.text = 1 .. 7
<1> DEFINE t == routine.text
<1>1. t = <<Two("MOV", At(1), Rg(0)), One("SWAB", Rg(0)), TwoB("MOV", Rg(0), Inc(2)),
            One("SWAB", Rg(0)), TwoB("MOV", Rg(0), At(2)), TwoB("MOV", Idx(1), Rg(3)), Data(1)>>
  BY DEF Bytes, Routine
<1>2. /\ DOMAIN t = 1 .. 7 /\ t[1] = Two("MOV", At(1), Rg(0)) /\ t[2] = One("SWAB", Rg(0))
      /\ t[3] = TwoB("MOV", Rg(0), Inc(2)) /\ t[4] = One("SWAB", Rg(0))
      /\ t[5] = TwoB("MOV", Rg(0), At(2)) /\ t[6] = TwoB("MOV", Idx(1), Rg(3)) /\ t[7] = Data(1)
  BY <1>1
<1> QED BY <1>2, Numbers, LiesAt

\* SWAB swaps the halves of a word.
LEMMA BytesTold ==
    ASSUME NEW x \in Word
    PROVE  /\ Swapped(x) \in Word /\ Swapped(Swapped(x)) = x
           /\ x \div ByteSize \in 0 .. ByteSize - 1 /\ x % ByteSize \in 0 .. ByteSize - 1
           /\ Swapped(x) % ByteSize = x \div ByteSize /\ x \in Int
           /\ x = ByteSize * (x \div ByteSize) + (x % ByteSize)
           /\ Swapped(x) = ByteSize * (x % ByteSize) + (x \div ByteSize)
<1> DEFINE q == x \div ByteSize
           p == x % ByteSize
           y == Swapped(x)
<1>1. x \in Int /\ 0 <= x /\ x < 2^W /\ ByteSize \in Nat \ {0} /\ 2^W = ByteSize * ByteSize
  BY Sizes
<1>2. x = ByteSize * q + p /\ p \in 0 .. ByteSize - 1 /\ q \in Int
  BY <1>1, Remainders
<1>3. q \in 0 .. ByteSize - 1
  <2> HIDE DEF q, p
  <2>1. CASE ByteSize = 16
    BY <1>1, <1>2, <2>1
  <2>2. CASE ByteSize = 256
    BY <1>1, <1>2, <2>2
  <2> QED BY <2>1, <2>2, Sizes
<1>4. y = q + p * ByteSize
  BY DEF Swapped
<1> HIDE DEF q, p, y
<1>5. y = ByteSize * p + q /\ p \in Int
  BY <1>1, <1>2, <1>3, <1>4
<1>6. y \div ByteSize = p /\ y % ByteSize = q
  BY <1>1, <1>3, <1>5, Divided
<1>7. y \in Word
  <2>1. CASE ByteSize = 16
    BY <1>1, <1>2, <1>3, <1>5, <2>1 DEF Word
  <2>2. CASE ByteSize = 256
    BY <1>1, <1>2, <1>3, <1>5, <2>2 DEF Word
  <2> QED BY <2>1, <2>2, Sizes
<1>8. Swapped(y) = x
  <2>1. Swapped(y) = p + q * ByteSize
    BY <1>6 DEF Swapped
  <2> QED BY <1>1, <1>2, <1>3, <2>1
<1> QED BY <1>1, <1>2, <1>3, <1>5, <1>6, <1>7, <1>8 DEF y, p, q

\* SWAB of a register.
LEMMA SwapOn ==
    ASSUME NEW p, NEW r, Executes(p, One("SWAB", Rg(0)), r), NEW x \in Word, r[0] = x
    PROVE  Goes(With(r, 0, Swapped(x)), SWAB(x, 2, m.f).f, m.core)
<1> DEFINE z == Computed1("SWAB", x, 2, m.f)
           y == Swapped(x)
<1>1. "SWAB" \in OneOperand
  BY DEF OneOperand
<1>2. y % 2^(2 * W) = y
  BY BytesTold, LongWord
<1>3. z = SWAB(x, 2, m.f)
  BY DEF Computed1
<1>4. z.store /\ z.val = y
  BY <1>3 DEF SWAB, Result, Swapped, ByteSize
<1>5. Is(z, Computed1("SWAB", x, 2, m.f))
  BY DEF Is
<1> HIDE DEF z, y
<1>6. Goes(With(r, 0, z.val % 2^(2 * W)), z.f, m.core)
  BY <1>1, <1>4, <1>5, Registered, UnaryOn
<1> QED BY <1>2, <1>3, <1>4, <1>6 DEF y

\* The lower byte of R0 moved to a byte of a cell.
LEMMA LowByteOut ==
    ASSUME NEW p, NEW e, NEW r, Executes(p, TwoB("MOV", Rg(0), e), r),
           NEW x, x = r[0] % ByteSize, x \in 0 .. ByteSize - 1,
           NEW g, Plain(g), NEW n \in {0, 1}, NEW b, b = g + n, NEW t,
           Finds(e, 1, r, m.core, b, t)
    PROVE  \E d : Goes(t, Logical(x, 1, m.f).f, d) /\ Puts(m.core, b, x, d)
<1>1. 0 \in 0 .. 7 /\ 1 \in {1, 2} /\ 2^Bits(1) = ByteSize
  BY DEF Bits, ByteSize
<1>2. Loads(Rg(0), 1, r, m.core, Pseudo + 0, r, x)
  BY <1>1, RgLoads
<1> QED BY <1>2, MoveByte

\* Each step of the byte routine, and each abort, keeps its assertion.
LEMMA BytesKept ==
    ASSUME TypeOK, Hosted, Step, routine = Bytes, BytesAt(start, m.r, m.f, m.core)
    PROVE  /\ m'.left \in {"no", "fault"}
           /\ Runs(m') => BytesAt(start, m'.r, m'.f, m'.core)
           /\ m'.left = "fault" => /\ m'.pc = m.r[PC] /\ m'.core = m.core
                                   /\ BytesAt(start, m.r, m'.f, m.core)
<1> DEFINE r == [m.r EXCEPT ![PC] = m.r[PC] + 2]
           a == start.core[A]
           hi == a \div ByteSize
           lo == a % ByteSize
<1>0. /\ m.core \in [Cells -> Word] /\ a \in Word /\ Plain(A) /\ Plain(B)
      /\ hi \in 0 .. ByteSize - 1 /\ lo \in 0 .. ByteSize - 1
  BY PlainCells, PlainFacts, BytesTold DEF TypeOK, Machine
<1>a. Swapped(a) \in Word /\ Swapped(Swapped(a)) = a /\ Swapped(a) % ByteSize = hi
  BY <1>0, BytesTold
<1>b. /\ A + 0 # B + 0 /\ A + 1 # B + 0 /\ A + 1 # B + 1 /\ A + 0 # B + 1 /\ B + 0 # B + 1
      /\ A + 0 = A /\ B + 0 = B /\ B + 1 \in Word /\ B \in Word /\ A + 1 \in Word
  <2>1. B + 1 \in Word /\ B \in Word /\ A + 1 \in Word
    BY <1>0, PlainBytes
  <2> QED BY <2>1, Places
<1>c. \A g : BytesAt(start, m.r, g, m.core)
  BY DEF BytesAt
<1>1. CASE m.r[PC] = 0
  <2> DEFINE v == With(r, 0, m.core[A])
             g == Logical(m.core[A], 2, m.f).f
  <2>1. Executes(0, Two("MOV", At(1), Rg(0)), r)
    BY <1>1, BytesText DEF Executes
  <2> HIDE DEF r
  <2>2. /\ r[PC] = 2 /\ r \in [0 .. 7 -> Long] /\ r[1] = A /\ r[2] = B /\ m.core[A] = a
        /\ ByteIn(m.core, A + 1) = hi
    BY <1>1, <2>1, ExecutesTyped, Registered DEF BytesAt
  <2>3. v[PC] = 2 /\ v[0] = a /\ v[1] = A /\ v[2] = B
    BY <2>2, Registered DEF With
  <2>4. Finds(At(1), 2, r, m.core, A, r)
    BY <1>0, <2>2, Registered, AtGoes
  <2>5. Goes(v, g, m.core)
    BY <1>0, <2>1, <2>4, Registered, MoveIn
  <2> HIDE DEF v, g
  <2>6. BytesAt(start, v, g, m.core)
    BY <2>2, <2>3 DEF BytesAt
  <2> QED BY <1>c, <2>5, <2>6 DEF Goes, Becomes
<1>2. CASE m.r[PC] = 2
  <2> DEFINE v == With(r, 0, Swapped(a))
             g == SWAB(a, 2, m.f).f
  <2>1. Executes(2, One("SWAB", Rg(0)), r)
    BY <1>2, BytesText DEF Executes
  <2> HIDE DEF r
  <2>2. /\ r[PC] = 4 /\ r \in [0 .. 7 -> Long] /\ r[1] = A /\ r[2] = B /\ r[0] = a
        /\ ByteIn(m.core, A + 1) = hi
    BY <1>2, <2>1, ExecutesTyped, Registered DEF BytesAt
  <2>3. v[PC] = 4 /\ v[0] = Swapped(a) /\ v[1] = A /\ v[2] = B
    BY <2>2, Registered DEF With
  <2>4. Goes(v, g, m.core)
    BY <1>0, <2>1, <2>2, SwapOn
  <2> HIDE DEF v, g
  <2>5. BytesAt(start, v, g, m.core)
    BY <2>2, <2>3 DEF BytesAt
  <2> QED BY <1>c, <2>4, <2>5 DEF Goes, Becomes
<1>3. CASE m.r[PC] = 4
  <2> DEFINE v == [r EXCEPT ![2] = B + 1]
             g == Logical(hi, 1, m.f).f
  <2>1. Executes(4, TwoB("MOV", Rg(0), Inc(2)), r)
    BY <1>3, BytesText DEF Executes
  <2> HIDE DEF r
  <2>2. /\ r[PC] = 6 /\ r \in [0 .. 7 -> Long] /\ r[1] = A /\ r[2] = B /\ r[0] = Swapped(a)
        /\ ByteIn(m.core, A + 1) = hi
    BY <1>3, <2>1, ExecutesTyped, Registered DEF BytesAt
  <2>3. v[PC] = 6 /\ v[0] = Swapped(a) /\ v[1] = A /\ v[2] = B + 1
    BY <2>2, Registered
  <2>4. Finds(Inc(2), 1, r, m.core, B, v)
    BY <1>b, <2>2, IncReaches, Registered
  <2> HIDE DEF v, a, hi
  <2>5. PICK d : Goes(v, g, d) /\ Puts(m.core, B, hi, d)
    <3>1. hi = r[0] % ByteSize /\ B = B + 0 /\ 0 \in {0, 1}
      BY <1>a, <1>b, <2>2
    <3> QED BY <1>0, <2>1, <2>4, <3>1, LowByteOut
  <2> HIDE DEF g
  <2>6. ByteIn(d, B) = hi /\ ByteIn(d, A + 1) = hi
    BY <1>0, <1>b, <2>2, <2>5 DEF Puts
  <2>7. BytesAt(start, v, g, d)
    BY <2>3, <2>6 DEF BytesAt, a, hi
  <2> QED BY <1>c, <2>5, <2>7 DEF Goes, Becomes
<1>4. CASE m.r[PC] = 6
  <2> DEFINE v == With(r, 0, a)
             y == Swapped(a)
             g == SWAB(y, 2, m.f).f
  <2>1. Executes(6, One("SWAB", Rg(0)), r)
    BY <1>4, BytesText DEF Executes
  <2> HIDE DEF r
  <2>2. /\ r[PC] = 8 /\ r \in [0 .. 7 -> Long] /\ r[1] = A /\ r[2] = B + 1 /\ r[0] = y
        /\ ByteIn(m.core, A + 1) = hi /\ ByteIn(m.core, B) = hi
    BY <1>4, <2>1, ExecutesTyped, Registered DEF BytesAt
  <2>3. v[PC] = 8 /\ v[0] = a /\ v[1] = A /\ v[2] = B + 1
    BY <2>2, Registered DEF With
  <2>4. y \in Word /\ Swapped(y) = a
    BY <1>a
  <2> HIDE DEF y
  <2>5. Goes(v, g, m.core)
    BY <2>1, <2>2, <2>4, SwapOn
  <2> HIDE DEF v, g
  <2>6. BytesAt(start, v, g, m.core)
    BY <2>2, <2>3 DEF BytesAt
  <2> QED BY <1>c, <2>5, <2>6 DEF Goes, Becomes
<1>5. CASE m.r[PC] = 8
  <2> DEFINE g == Logical(lo, 1, m.f).f
  <2>1. Executes(8, TwoB("MOV", Rg(0), At(2)), r)
    BY <1>5, BytesText DEF Executes
  <2> HIDE DEF r
  <2>2. /\ r[PC] = 10 /\ r \in [0 .. 7 -> Long] /\ r[1] = A /\ r[2] = B + 1 /\ r[0] = a
        /\ ByteIn(m.core, A + 1) = hi /\ ByteIn(m.core, B) = hi
    BY <1>5, <2>1, ExecutesTyped, Registered DEF BytesAt
  <2>3. Finds(At(2), 1, r, m.core, B + 1, r)
    <3>1. At(2) \in Operands /\ At(2).mode = 1 /\ At(2).reg = 2 /\ 1 \in {1, 2}
      BY OperandsTyped DEF At
    <3> QED BY <1>b, <2>2, <3>1 DEF Finds
  <2> HIDE DEF a, hi, lo
  <2>4. PICK d : Goes(r, g, d) /\ Puts(m.core, B + 1, lo, d)
    <3>1. lo = r[0] % ByteSize /\ 1 \in {0, 1}
      BY <2>2 DEF lo
    <3> QED BY <1>0, <2>1, <2>3, <3>1, LowByteOut
  <2> HIDE DEF g
  <2>5. ByteIn(d, B) = hi /\ ByteIn(d, A + 1) = hi /\ ByteIn(d, B + 1) = lo
    <3>1. ByteIn(d, B) = ByteIn(m.core, B) /\ ByteIn(d, A + 1) = ByteIn(m.core, A + 1)
      BY <1>0, <1>b, <2>4 DEF Puts
    <3> QED BY <2>2, <2>4, <3>1 DEF Puts
  <2>6. BytesAt(start, r, g, d)
    BY <2>2, <2>5 DEF BytesAt, a, hi, lo
  <2> QED BY <1>c, <2>4, <2>6 DEF Goes, Becomes
<1>6. CASE m.r[PC] = 10
  <2> DEFINE i == TwoB("MOV", Idx(1), Rg(3))
             s == With(r, PC, 14)
             w == MovedWord(hi, 1, Pseudo + 3)
             v == [s EXCEPT ![3] = w % 2^(2 * W)]
             g == Logical(hi, 1, m.f).f
  <2>1. /\ Executes(10, i, r) /\ Hosted /\ Lies(12, Data(1)) /\ 12 + 2 = 14
        /\ i.op = "MOV" /\ i.l = 1 /\ i.s = Idx(1) /\ i.d = Rg(3) /\ i.op # "MARK"
        /\ Data(1).n = 1
    BY <1>6, BytesText DEF Executes, TwoB, Instruction, Data
  <2> HIDE DEF r, i
  <2>2. /\ r[PC] = 12 /\ r \in [0 .. 7 -> Long] /\ r[1] = A
        /\ ByteIn(m.core, A + 1) = hi /\ ByteIn(m.core, B) = hi /\ ByteIn(m.core, B + 1) = lo
    BY <1>6, <2>1, ExecutesTyped, Registered DEF BytesAt
  <2>3. v[PC] = 14 /\ v[3] = w % 2^(2 * W)
    BY <2>2, Registered DEF With
  <2>4. Finds(Idx(1), 1, r, m.core, A + 1, s)
    <3>1. A + 1 - (1 % 2) = A /\ 1 \in Int /\ 0 <= 1 /\ 1 < 32
      BY Places
    <3> QED BY <1>0, <2>1, <2>2, <3>1, Registered, IdxReaches
  <2>5. Loads(Idx(1), 1, r, m.core, A + 1, s, hi)
    <3>1. Loads(Idx(1), 1, r, m.core, A + 1, s, ByteIn(m.core, A + 1)) /\ 1 \in {0, 1}
      BY <1>0, <2>4, ByteInLoads
    <3> QED BY <2>2, <3>1
  <2>6. Finds(Rg(3), 1, s, m.core, Pseudo + 3, s) /\ IsReg(Pseudo + 3) /\ 3 \in 0 .. 7
    BY RgFinds
  <2> HIDE DEF s, w, hi, lo, a
  <2>7. Writes(Pseudo + 3, 2, w, s, m.core, v, m.core)
    BY <2>6, WritesFacts
  <2>8. hi \in Int
    BY <1>0
  <2> HIDE DEF v
  <2>9. Becomes(v, g, m.core)
    <3>1. Writes(Pseudo + 3, IF IsReg(Pseudo + 3) THEN 2 ELSE i.l, MovedWord(hi, i.l, Pseudo + 3),
                 s, m.core, v, m.core)
      BY <2>1, <2>6, <2>7 DEF w
    <3>2. Loads(i.s, i.l, r, m.core, A + 1, s, hi) /\ Finds(i.d, i.l, s, m.core, Pseudo + 3, s)
      BY <2>1, <2>5, <2>6
    <3>3. Becomes(v, Logical(hi, i.l, m.f).f, m.core)
      BY <2>1, <2>8, <3>1, <3>2, MoveStep
    <3> QED BY <2>1, <3>3
  <2>10. m'.left = "fault" => m'.pc = m.r[PC] /\ m'.core = m.core
    BY <2>1, AbortLeaves
  <2> HIDE DEF g
  <2>11. BytesAt(start, v, g, m.core)
    BY <2>2, <2>3 DEF BytesAt, a, hi, lo, w
  <2> QED BY <1>c, <2>9, <2>10, <2>11 DEF Becomes
<1>7. m.r[PC] # 14
  BY BytesText, Numbers, EndsBehind
<1> QED BY <1>1, <1>2, <1>3, <1>4, <1>5, <1>6, <1>7 DEF BytesAt

-----------------------------------------------------------------------------
\* R0 and R3 are what one of the words has and the other has not, R4 the first
\* of them or its complement.
Not(x) == 2^W - 1 - x

XorAt(s, r, f, c) ==
    LET a == s.core[A]
        b == s.core[B]
    IN /\ r[PC] \in {0, 2, 4, 6, 8, 10, 12, 14, 16, 18, 20, 22}
       /\ r[PC] # 22 => r[1] = A /\ r[2] = B /\ c[A] = a /\ c[B] = b
       /\ r[PC] = 2 => r[0] = a
       /\ r[PC] \in {4, 6, 8} => r[0] = And(Not(b), a)
       /\ r[PC] = 6 => r[3] = b
       /\ r[PC] = 8 => r[3] = And(Not(a), b)
       /\ r[PC] \in {10, 12, 14, 16, 18, 20, 22} => r[3] = Xor(a, b)
       /\ r[PC] \in {12, 14, 20} => r[4] = a
       /\ r[PC] \in {16, 18} => r[4] = Not(a)
       /\ r[PC] \in {14, 16} => r[5] = b
       /\ r[PC] \in {18, 20, 22} => r[5] = And(a, b)
       /\ r[PC] = 22 => c[B] = Xor(a, b)

\* What lies in the text of the exclusive or routine.
LEMMA XorText ==
    ASSUME routine = Xor1
    PROVE  /\ Lies(0, Two("MOV", At(1), Rg(0))) /\ Lies(2, Two("BIC", At(2), Rg(0)))
           /\ Lies(4, Two("MOV", At(2), Rg(3))) /\ Lies(6, Two("BIC", At(1), Rg(3)))
           /\ Lies(8, Two("BIS", Rg(0), Rg(3))) /\ Lies(10, Two("MOV", At(1), Rg(4)))
           /\ Lies(12, Two("MOV", At(2), Rg(5))) /\ Lies(14, One("COM", Rg(4)))
           /\ Lies(16, Two("BIC", Rg(4), Rg(5))) /\ Lies(18, One("COM", Rg(4)))
           /\ Lies(20, Two("XOR", Rg(4), At(2))) /\ DOMAIN routine.text = 1 .. 11
<1> DEFINE t == routine.text
<1>1. t = <<Two("MOV", At(1), Rg(0)), Two("BIC", At(2), Rg(0)),
            Two("MOV", At(2), Rg(3)), Two("BIC", At(1), Rg(3)), Two("BIS", Rg(0), Rg(3)),
            Two("MOV", At(1), Rg(4)), Two("MOV", At(2), Rg(5)), One("COM", Rg(4)),
            Two("BIC", Rg(4), Rg(5)), One("COM", Rg(4)), Two("XOR", Rg(4), At(2))>>
  BY DEF Xor1, Routine
<1>2. /\ DOMAIN t = 1 .. 11 /\ t[1] = Two("MOV", At(1), Rg(0)) /\ t[2] = Two("BIC", At(2), Rg(0))
      /\ t[3] = Two("MOV", At(2), Rg(3)) /\ t[4] = Two("BIC", At(1), Rg(3))
      /\ t[5] = Two("BIS", Rg(0), Rg(3)) /\ t[6] = Two("MOV", At(1), Rg(4))
      /\ t[7] = Two("MOV", At(2), Rg(5)) /\ t[8] = One("COM", Rg(4))
      /\ t[9] = Two("BIC", Rg(4), Rg(5)) /\ t[10] = One("COM", Rg(4))
      /\ t[11] = Two("XOR", Rg(4), At(2))
  BY <1>1
<1> QED BY <1>2, Numbers, LiesAt

\* Words stay words.
LEMMA WordsBitwise ==
    ASSUME NEW x \in Word, NEW y \in Word
    PROVE  /\ And(x, y) \in Word /\ Or(x, y) \in Word /\ Xor(x, y) \in Word
           /\ Not(x) \in Word /\ Xor(Full(2), x) = Not(x) /\ Xor(x, Full(2)) = Not(x)
           /\ Not(Not(x)) = x /\ x \in Long /\ Not(x) \in Long
           /\ BitsOf(x) \subseteq 0 .. W - 1 /\ BitsOf(Not(x)) = (0 .. W - 1) \ BitsOf(x)
<1>0. W \in 0 .. 2 * W /\ Word = 0 .. 2^W - 1
  BY WidthAssumption DEF Word
<1>1. BitsOf(x) \subseteq 0 .. W - 1 /\ BitsOf(y) \subseteq 0 .. W - 1
  BY <1>0, BitsFromBits
<1>2. ASSUME NEW z \in Long, BitsOf(z) \subseteq 0 .. W - 1
      PROVE  z \in Word
  <2>1. FromBits(BitsOf(z)) \in 0 .. 2^W - 1
    BY <1>0, <1>2, FromBitsBits
  <2> QED BY <1>0, <2>1, LongBits
<1>3. And(x, y) \in Word /\ Or(x, y) \in Word /\ Xor(x, y) \in Word
  BY <1>1, <1>2, BitwiseBits
<1>4. Full(2) = 2^W - 1
  BY DEF Full, Bits
<1>5. Xor(Full(2), x) = Not(x) /\ Xor(x, Full(2)) = Not(x) /\ BitsOf(Not(x)) = (0 .. W - 1) \ BitsOf(x)
  BY <1>0, <1>4, OnesLeft DEF Not
<1>6. Not(x) \in Word /\ Not(Not(x)) = x
  BY Sizes DEF Not
<1> QED BY <1>1, <1>3, <1>5, <1>6, WordsInt

\* What each word has alone makes up the exclusive or.
LEMMA Apiece ==
    ASSUME NEW x \in Word, NEW y \in Word
    PROVE  Or(And(Not(y), x), And(Not(x), y)) = Xor(x, y)
<1> DEFINE p == And(Not(y), x)
           q == And(Not(x), y)
<1>1. /\ BitsOf(x) \subseteq 0 .. W - 1 /\ BitsOf(y) \subseteq 0 .. W - 1
      /\ BitsOf(Not(x)) = (0 .. W - 1) \ BitsOf(x) /\ BitsOf(Not(y)) = (0 .. W - 1) \ BitsOf(y)
  BY WordsBitwise
<1>2. BitsOf(p) = BitsOf(Not(y)) \cap BitsOf(x) /\ BitsOf(q) = BitsOf(Not(x)) \cap BitsOf(y)
  BY BitwiseBits
<1>3. /\ BitsOf(Or(p, q)) = BitsOf(p) \cup BitsOf(q) /\ Or(p, q) \in Long /\ Xor(x, y) \in Long
      /\ BitsOf(Xor(x, y)) = (BitsOf(x) \ BitsOf(y)) \cup (BitsOf(y) \ BitsOf(x))
  BY BitwiseBits
<1>4. BitsOf(Or(p, q)) = BitsOf(Xor(x, y))
  BY <1>1, <1>2, <1>3
<1> QED BY <1>3, <1>4, LongBits

\* The instructions on bits, to a register.
LEMMA BitsCleared ==
    ASSUME NEW p, NEW o, NEW q \in 0 .. SP, NEW r, Executes(p, Two("BIC", o, Rg(q)), r),
           NEW a, NEW x \in Word, Loads(o, 2, r, m.core, a, r, x), NEW y \in Word, r[q] = y
    PROVE  \E f : Goes(With(r, q, And(Not(x), y)), f, m.core)
<1> DEFINE z == Computed2("BIC", x, y, 2, m.f)
           u == And(Not(x), y)
<1>1. "BIC" \in TwoOperands
  BY DEF TwoOperands
<1>2. u \in Word /\ Xor(Full(2), x) = Not(x)
  BY WordsBitwise
<1>3. u % 2^(2 * W) = u
  BY <1>2, LongWord
<1>4. z.store /\ z.val = u
  BY <1>2 DEF Computed2, BIC, Logical, Result
<1>5. Is(z, Computed2("BIC", x, y, 2, m.f))
  BY DEF Is
<1> HIDE DEF z, u
<1>6. Goes(With(r, q, z.val % 2^(2 * W)), z.f, m.core)
  BY <1>1, <1>4, <1>5, BinaryOn
<1> QED BY <1>3, <1>4, <1>6 DEF u

\* BIS is OR.
LEMMA BitsSet ==
    ASSUME NEW p, NEW o, NEW q \in 0 .. SP, NEW r, Executes(p, Two("BIS", o, Rg(q)), r),
           NEW a, NEW x \in Word, Loads(o, 2, r, m.core, a, r, x), NEW y \in Word, r[q] = y
    PROVE  \E f : Goes(With(r, q, Or(x, y)), f, m.core)
<1> DEFINE z == Computed2("BIS", x, y, 2, m.f)
           u == Or(x, y)
<1>1. "BIS" \in TwoOperands
  BY DEF TwoOperands
<1>2. u \in Word
  BY WordsBitwise
<1>3. u % 2^(2 * W) = u
  BY <1>2, LongWord
<1>4. z.store /\ z.val = u
  BY <1>2 DEF Computed2, BIS, Logical, Result
<1>5. Is(z, Computed2("BIS", x, y, 2, m.f))
  BY DEF Is
<1> HIDE DEF z, u
<1>6. Goes(With(r, q, z.val % 2^(2 * W)), z.f, m.core)
  BY <1>1, <1>4, <1>5, BinaryOn
<1> QED BY <1>3, <1>4, <1>6 DEF u

\* COM is NOT.
LEMMA BitsTurned ==
    ASSUME NEW p, NEW q \in 0 .. SP, NEW r, Executes(p, One("COM", Rg(q)), r),
           NEW x \in Word, r[q] = x
    PROVE  \E f : Goes(With(r, q, Not(x)), f, m.core)
<1> DEFINE z == Computed1("COM", x, 2, m.f)
           u == Not(x)
<1>1. "COM" \in OneOperand
  BY DEF OneOperand
<1>2. u \in Word /\ Xor(x, Full(2)) = u
  BY WordsBitwise
<1>3. u % 2^(2 * W) = u
  BY <1>2, LongWord
<1>4. z.store /\ z.val = u
  BY <1>2 DEF Computed1, COM, Result
<1>5. Is(z, Computed1("COM", x, 2, m.f))
  BY DEF Is
<1> HIDE DEF z, u
<1>6. Goes(With(r, q, z.val % 2^(2 * W)), z.f, m.core)
  BY <1>1, <1>4, <1>5, UnaryOn
<1> QED BY <1>3, <1>4, <1>6 DEF u

\* MOV of a word to a register, whatever the flags.
LEMMA WordMoved ==
    ASSUME NEW p, NEW o, NEW q \in 0 .. SP, NEW r, Executes(p, Two("MOV", o, Rg(q)), r),
           NEW a, Plain(a), Finds(o, 2, r, m.core, a, r), NEW x, m.core[a] = x
    PROVE  \E f : Goes(With(r, q, x), f, m.core)
BY MoveIn

\* XOR of a register and a cell.
LEMMA BitsDiffer ==
    ASSUME NEW p, NEW q \in 0 .. SP, NEW o, NEW r, Executes(p, Two("XOR", Rg(q), o), r),
           NEW a, Plain(a), Finds(o, 2, r, m.core, a, r), NEW x \in Word, r[q] = x,
           NEW y \in Word, m.core[a] = y
    PROVE  \E f : Goes(r, f, With(m.core, a, Xor(x, y)))
<1> DEFINE i == Two("XOR", Rg(q), o)
           z == XOR(x, y, m.f)
           u == Xor(x, y)
<1>1. i.op = "XOR" /\ i.op # "MARK" /\ i.d = o /\ i.s.reg = q
  BY DEF Two, Instruction, Rg
<1> HIDE DEF i
<1>2. Executes(p, i, r)
  BY DEF i
<1>3. Loads(i.d, 2, r, m.core, a, r, y)
  BY <1>1, PlainLoads
<1>4. z.store /\ z.val = u /\ u % 2^W = u
  <2>1. u \in Word
    BY WordsBitwise
  <2> QED BY <2>1, SmallSums DEF XOR, Result
<1>5. z = XOR(r[i.s.reg], y, m.f)
  BY <1>1
<1> HIDE DEF z, u
<1>6. Stores(a, 2, z, r, m.core, r, With(m.core, a, u))
  <2>1. Stores(a, 2, z, r, m.core, r, [m.core EXCEPT ![a] = z.val % 2^W])
    BY <1>4, StoresFacts
  <2> QED BY <1>4, <2>1 DEF With
<1>7. Becomes(r, z.f, With(m.core, a, u))
  BY <1>1, <1>2, <1>3, <1>5, <1>6, ExclusiveOrStep
<1>8. m'.left = "fault" => m'.pc = m.r[PC] /\ m'.core = m.core
  BY <1>1, <1>2, AbortLeaves
<1> QED BY <1>7, <1>8 DEF Goes, u

\* Each step of the exclusive or routine, and each abort, keeps its assertion.
LEMMA XorKept ==
    ASSUME TypeOK, Hosted, Step, routine = Xor1, XorAt(start, m.r, m.f, m.core)
    PROVE  /\ m'.left \in {"no", "fault"}
           /\ Runs(m') => XorAt(start, m'.r, m'.f, m'.core)
           /\ m'.left = "fault" => /\ m'.pc = m.r[PC] /\ m'.core = m.core
                                   /\ XorAt(start, m.r, m'.f, m.core)
<1> DEFINE r == [m.r EXCEPT ![PC] = m.r[PC] + 2]
           a == start.core[A]
           b == start.core[B]
           p == And(Not(b), a)
           q == And(Not(a), b)
           n == Not(a)
<1>0. /\ m.core \in [Cells -> Word] /\ a \in Word /\ b \in Word /\ Plain(A) /\ Plain(B)
  BY PlainCells, PlainFacts DEF TypeOK, Machine
<1>a. /\ n \in Word /\ Not(b) \in Word /\ Not(n) = a
  BY <1>0, WordsBitwise
<1>b. p \in Word /\ q \in Word /\ Or(p, q) = Xor(a, b)
  BY <1>0, <1>a, WordsBitwise, Apiece
<1>c. \A g : XorAt(start, m.r, g, m.core)
  BY DEF XorAt
<1>d. m.r[PC] # 22 => /\ m.core[A] = a /\ m.core[B] = b
                      /\ At(1) \in Operands /\ m.r[1] = A /\ m.r[2] = B
  BY OperandsTyped DEF XorAt
<1>1. CASE m.r[PC] = 0
  <2> DEFINE v == With(r, 0, a)
  <2>1. Executes(0, Two("MOV", At(1), Rg(0)), r)
    BY <1>1, XorText DEF Executes
  <2> HIDE DEF r
  <2>2. r[PC] = 2 /\ r \in [0 .. 7 -> Long] /\ r[1] = A /\ r[2] = B
    BY <1>d, <1>1, <2>1, ExecutesTyped, Registered DEF XorAt
  <2>3. v[PC] = 2 /\ v[1] = A /\ v[2] = B /\ v[0] = a
    BY <2>2, Registered DEF With
  <2>4. Finds(At(1), 2, r, m.core, A, r) /\ m.core[A] = a
    BY <1>0, <1>d, <1>1, <2>2, Registered, AtGoes
  <2> HIDE DEF a, b, p, q, n
  <2>5. PICK g : Goes(v, g, m.core)
    BY <1>0, <2>1, <2>4, Registered, WordMoved
  <2> HIDE DEF v
  <2>7. XorAt(start, v, g, m.core)
    BY <1>d, <1>1, <2>3 DEF XorAt, a, b, p, q, n
  <2> QED BY <1>c, <2>5, <2>7 DEF Goes, Becomes
<1>2. CASE m.r[PC] = 2
  <2> DEFINE v == With(r, 0, p)
  <2>1. Executes(2, Two("BIC", At(2), Rg(0)), r)
    BY <1>2, XorText DEF Executes
  <2> HIDE DEF r
  <2>2. r[PC] = 4 /\ r \in [0 .. 7 -> Long] /\ r[1] = A /\ r[2] = B /\ r[0] = a
    BY <1>d, <1>2, <2>1, ExecutesTyped, Registered DEF XorAt
  <2>3. v[PC] = 4 /\ v[1] = A /\ v[2] = B /\ v[0] = p
    BY <2>2, Registered DEF With
  <2>4. Finds(At(2), 2, r, m.core, B, r) /\ m.core[B] = b
    BY <1>0, <1>d, <1>2, <2>2, Registered, AtGoes
  <2> HIDE DEF a, b, n
  <2>5. Loads(At(2), 2, r, m.core, B, r, b)
    BY <1>0, <2>4, PlainLoads
  <2>6. PICK g : Goes(v, g, m.core)
    BY <1>0, <2>1, <2>2, <2>5, Registered, BitsCleared DEF n
  <2> HIDE DEF p, q
  <2> HIDE DEF v
  <2>7. XorAt(start, v, g, m.core)
    BY <1>d, <1>2, <2>3 DEF XorAt, a, b, p, q, n
  <2> QED BY <1>c, <2>6, <2>7 DEF Goes, Becomes
<1>3. CASE m.r[PC] = 4
  <2> DEFINE v == With(r, 3, b)
  <2>1. Executes(4, Two("MOV", At(2), Rg(3)), r)
    BY <1>3, XorText DEF Executes
  <2> HIDE DEF r
  <2>2. r[PC] = 6 /\ r \in [0 .. 7 -> Long] /\ r[1] = A /\ r[2] = B /\ r[0] = p
    BY <1>d, <1>3, <2>1, ExecutesTyped, Registered DEF XorAt
  <2>3. v[PC] = 6 /\ v[1] = A /\ v[2] = B /\ v[0] = p /\ v[3] = b
    BY <2>2, Registered DEF With
  <2>4. Finds(At(2), 2, r, m.core, B, r) /\ m.core[B] = b
    BY <1>0, <1>d, <1>3, <2>2, Registered, AtGoes
  <2> HIDE DEF a, b, p, q, n
  <2>5. PICK g : Goes(v, g, m.core)
    BY <1>0, <2>1, <2>4, Registered, WordMoved
  <2> HIDE DEF v
  <2>7. XorAt(start, v, g, m.core)
    BY <1>d, <1>3, <2>3 DEF XorAt, a, b, p, q, n
  <2> QED BY <1>c, <2>5, <2>7 DEF Goes, Becomes
<1>4. CASE m.r[PC] = 6
  <2> DEFINE v == With(r, 3, q)
  <2>1. Executes(6, Two("BIC", At(1), Rg(3)), r)
    BY <1>4, XorText DEF Executes
  <2> HIDE DEF r
  <2>2. r[PC] = 8 /\ r \in [0 .. 7 -> Long] /\ r[1] = A /\ r[2] = B /\ r[0] = p /\ r[3] = b
    BY <1>d, <1>4, <2>1, ExecutesTyped, Registered DEF XorAt
  <2>3. v[PC] = 8 /\ v[1] = A /\ v[2] = B /\ v[0] = p /\ v[3] = q
    BY <2>2, Registered DEF With
  <2>4. Finds(At(1), 2, r, m.core, A, r) /\ m.core[A] = a
    BY <1>0, <1>d, <1>4, <2>2, Registered, AtGoes
  <2> HIDE DEF a, b, n
  <2>5. Loads(At(1), 2, r, m.core, A, r, a)
    BY <1>0, <2>4, PlainLoads
  <2>6. PICK g : Goes(v, g, m.core)
    BY <1>0, <2>1, <2>2, <2>5, Registered, BitsCleared DEF n
  <2> HIDE DEF p, q
  <2> HIDE DEF v
  <2>7. XorAt(start, v, g, m.core)
    BY <1>d, <1>4, <2>3 DEF XorAt, a, b, p, q, n
  <2> QED BY <1>c, <2>6, <2>7 DEF Goes, Becomes
<1>5. CASE m.r[PC] = 8
  <2> DEFINE v == With(r, 3, Or(p, q))
  <2>1. Executes(8, Two("BIS", Rg(0), Rg(3)), r)
    BY <1>5, XorText DEF Executes
  <2> HIDE DEF r
  <2>2. r[PC] = 10 /\ r \in [0 .. 7 -> Long] /\ r[1] = A /\ r[2] = B /\ r[0] = p /\ r[3] = q
    BY <1>d, <1>5, <2>1, ExecutesTyped, Registered DEF XorAt
  <2>3. v[PC] = 10 /\ v[1] = A /\ v[2] = B /\ v[0] = p /\ v[3] = Or(p, q)
    BY <2>2, Registered DEF With
  <2> HIDE DEF a, b, p, q, n
  <2>4. Loads(Rg(0), 2, r, m.core, Pseudo + 0, r, p)
    <3>1. p % 2^Bits(2) = p
      BY <1>a, <1>b, SmallSums DEF Bits
    <3>2. Loads(Rg(0), 2, r, m.core, Pseudo + 0, r, r[0] % 2^Bits(2))
      BY RgLoads, Registered
    <3> QED BY <2>2, <3>1, <3>2
  <2>5. PICK g : Goes(v, g, m.core)
    BY <1>0, <1>a, <1>b, <2>1, <2>2, <2>4, Registered, BitsSet
  <2> HIDE DEF v
  <2>7. XorAt(start, v, g, m.core)
    BY <1>b, <1>d, <1>5, <2>3 DEF XorAt, a, b, p, q, n
  <2> QED BY <1>c, <2>5, <2>7 DEF Goes, Becomes
<1>6. CASE m.r[PC] = 10
  <2> DEFINE v == With(r, 4, a)
  <2>1. Executes(10, Two("MOV", At(1), Rg(4)), r)
    BY <1>6, XorText DEF Executes
  <2> HIDE DEF r
  <2>2. r[PC] = 12 /\ r \in [0 .. 7 -> Long] /\ r[1] = A /\ r[2] = B /\ r[3] = Xor(a, b)
    BY <1>d, <1>6, <2>1, ExecutesTyped, Registered DEF XorAt
  <2>3. v[PC] = 12 /\ v[1] = A /\ v[2] = B /\ v[3] = Xor(a, b) /\ v[4] = a
    BY <2>2, Registered DEF With
  <2>4. Finds(At(1), 2, r, m.core, A, r) /\ m.core[A] = a
    BY <1>0, <1>d, <1>6, <2>2, Registered, AtGoes
  <2> HIDE DEF a, b, p, q, n
  <2>5. PICK g : Goes(v, g, m.core)
    BY <1>0, <2>1, <2>4, Registered, WordMoved
  <2> HIDE DEF v
  <2>7. XorAt(start, v, g, m.core)
    BY <1>d, <1>6, <2>3 DEF XorAt, a, b, p, q, n
  <2> QED BY <1>c, <2>5, <2>7 DEF Goes, Becomes
<1>7. CASE m.r[PC] = 12
  <2> DEFINE v == With(r, 5, b)
  <2>1. Executes(12, Two("MOV", At(2), Rg(5)), r)
    BY <1>7, XorText DEF Executes
  <2> HIDE DEF r
  <2>2. r[PC] = 14 /\ r \in [0 .. 7 -> Long] /\ r[1] = A /\ r[2] = B /\ r[3] = Xor(a, b) /\ r[4] = a
    BY <1>d, <1>7, <2>1, ExecutesTyped, Registered DEF XorAt
  <2>3. v[PC] = 14 /\ v[1] = A /\ v[2] = B /\ v[3] = Xor(a, b) /\ v[4] = a /\ v[5] = b
    BY <2>2, Registered DEF With
  <2>4. Finds(At(2), 2, r, m.core, B, r) /\ m.core[B] = b
    BY <1>0, <1>d, <1>7, <2>2, Registered, AtGoes
  <2> HIDE DEF a, b, p, q, n
  <2>5. PICK g : Goes(v, g, m.core)
    BY <1>0, <2>1, <2>4, Registered, WordMoved
  <2> HIDE DEF v
  <2>7. XorAt(start, v, g, m.core)
    BY <1>d, <1>7, <2>3 DEF XorAt, a, b, p, q, n
  <2> QED BY <1>c, <2>5, <2>7 DEF Goes, Becomes
<1>8. CASE m.r[PC] = 14
  <2> DEFINE v == With(r, 4, n)
  <2>1. Executes(14, One("COM", Rg(4)), r)
    BY <1>8, XorText DEF Executes
  <2> HIDE DEF r
  <2>2. r[PC] = 16 /\ r \in [0 .. 7 -> Long] /\ r[1] = A /\ r[2] = B /\ r[3] = Xor(a, b) /\ r[4] = a /\ r[5] = b
    BY <1>d, <1>8, <2>1, ExecutesTyped, Registered DEF XorAt
  <2>3. v[PC] = 16 /\ v[1] = A /\ v[2] = B /\ v[3] = Xor(a, b) /\ v[4] = n /\ v[5] = b
    BY <2>2, Registered DEF With
  <2> HIDE DEF a, b, p, q
  <2>5. PICK g : Goes(v, g, m.core)
    BY <1>0, <1>a, <2>1, <2>2, Registered, BitsTurned DEF n
  <2> HIDE DEF n
  <2> HIDE DEF v
  <2>7. XorAt(start, v, g, m.core)
    BY <1>d, <1>8, <2>3 DEF XorAt, a, b, p, q, n
  <2> QED BY <1>c, <2>5, <2>7 DEF Goes, Becomes
<1>9. CASE m.r[PC] = 16
  <2> DEFINE v == With(r, 5, And(Not(n), b))
  <2>1. Executes(16, Two("BIC", Rg(4), Rg(5)), r)
    BY <1>9, XorText DEF Executes
  <2> HIDE DEF r
  <2>2. r[PC] = 18 /\ r \in [0 .. 7 -> Long] /\ r[1] = A /\ r[2] = B /\ r[3] = Xor(a, b) /\ r[4] = n /\ r[5] = b
    BY <1>d, <1>9, <2>1, ExecutesTyped, Registered DEF XorAt
  <2>3. v[PC] = 18 /\ v[1] = A /\ v[2] = B /\ v[3] = Xor(a, b) /\ v[4] = n /\ v[5] = And(Not(n), b)
    BY <2>2, Registered DEF With
  <2> HIDE DEF a, b, p, q, n
  <2>4. Loads(Rg(4), 2, r, m.core, Pseudo + 4, r, n)
    <3>1. n % 2^Bits(2) = n
      BY <1>a, <1>b, SmallSums DEF Bits
    <3>2. Loads(Rg(4), 2, r, m.core, Pseudo + 4, r, r[4] % 2^Bits(2))
      BY RgLoads, Registered
    <3> QED BY <2>2, <3>1, <3>2
  <2>5. PICK g : Goes(v, g, m.core)
    BY <1>0, <1>a, <1>b, <2>1, <2>2, <2>4, Registered, BitsCleared
  <2> HIDE DEF v
  <2>7. XorAt(start, v, g, m.core)
    BY <1>a, <1>d, <1>9, <2>3 DEF XorAt, a, b, p, q, n
  <2> QED BY <1>c, <2>5, <2>7 DEF Goes, Becomes
<1>10. CASE m.r[PC] = 18
  <2> DEFINE v == With(r, 4, Not(n))
  <2>1. Executes(18, One("COM", Rg(4)), r)
    BY <1>10, XorText DEF Executes
  <2> HIDE DEF r
  <2>2. r[PC] = 20 /\ r \in [0 .. 7 -> Long] /\ r[1] = A /\ r[2] = B /\ r[3] = Xor(a, b) /\ r[4] = n /\ r[5] = And(a, b)
    BY <1>d, <1>10, <2>1, ExecutesTyped, Registered DEF XorAt
  <2>3. v[PC] = 20 /\ v[1] = A /\ v[2] = B /\ v[3] = Xor(a, b) /\ v[4] = Not(n) /\ v[5] = And(a, b)
    BY <2>2, Registered DEF With
  <2> HIDE DEF a, b, p, q, n
  <2>5. PICK g : Goes(v, g, m.core)
    BY <1>0, <1>a, <2>1, <2>2, Registered, BitsTurned
  <2> HIDE DEF v
  <2>7. XorAt(start, v, g, m.core)
    BY <1>a, <1>d, <1>10, <2>3 DEF XorAt, a, b, p, q, n
  <2> QED BY <1>c, <2>5, <2>7 DEF Goes, Becomes
<1>11. CASE m.r[PC] = 20
  <2> DEFINE u == Xor(a, b)
             d == With(m.core, B, u)
  <2>1. Executes(20, Two("XOR", Rg(4), At(2)), r)
    BY <1>11, XorText DEF Executes
  <2> HIDE DEF r
  <2>2. /\ r[PC] = 22 /\ r \in [0 .. 7 -> Long] /\ r[1] = A /\ r[2] = B /\ r[4] = a
        /\ r[3] = u /\ r[5] = And(a, b)
    BY <1>d, <1>11, <2>1, ExecutesTyped, Registered DEF XorAt
  <2>3. Finds(At(2), 2, r, m.core, B, r) /\ m.core[B] = b
    BY <1>0, <1>d, <1>11, <2>2, Registered, AtGoes
  <2> HIDE DEF a, b, p, q, n
  <2>4. PICK g : Goes(r, g, d)
    BY <1>0, <2>1, <2>2, <2>3, Registered, BitsDiffer
  <2>5. d[B] = u
    BY <1>0, WithGives
  <2> HIDE DEF d
  <2>6. XorAt(start, r, g, d)
    BY <2>2, <2>5 DEF XorAt, a, b
  <2> QED BY <1>c, <2>4, <2>6 DEF Goes, Becomes
<1>12. m.r[PC] # 22
  BY XorText, Numbers, EndsBehind
<1> QED BY <1>1, <1>2, <1>3, <1>4, <1>5, <1>6, <1>7, <1>8, <1>9, <1>10, <1>11, <1>12 DEF XorAt

-----------------------------------------------------------------------------
(***************************************************************************)
(* All routines: whichever runs, what is asserted of it holds before each  *)
(* of its instructions, aborted and restarted or not.                      *)
(***************************************************************************)
Asserted(x, s, r, f, c) ==
    \/ \E op \in Branches, l \in {1, 2} : x = Compare(op, l) /\ CompareAt(op, l, s, r, f, c)
    \/ \E op \in Telling : x = Overflow(op) /\ OverflowAt(op, s, r, f, c)
    \/ x = CopyWords /\ CopyAt(s, r, f, c)
    \/ x = CopyString /\ StringAt(s, r, f, c)
    \/ x = Calls /\ CallsAt(s, r, f, c)
    \/ x = Save(Top) /\ SaveAt(s, r, f, c)
    \/ x = MovePrevious /\ PreviousAt(s, r, f, c)
    \/ x = Switch /\ SwitchAt(s, r, f, c)
    \/ \E op \in {"ADD", "SUB"}, carry \in {"ADC", "SBC"} : Chains(op, carry, x) /\ ChainAt(op, carry, s, r, f, c)
    \/ x = Neg2 /\ NegAt(s, r, f, c)
    \/ x = Asl2 /\ AslAt(s, r, f, c)
    \/ x = Lsr2 /\ LsrAt(s, r, f, c)
    \/ x = Sxt2 /\ SxtAt(s, r, f, c)
    \/ x = Inc2 /\ IncAt(s, r, f, c)
    \/ x = Dec2 /\ DecAt(s, r, f, c)
    \/ \E l \in {1, 2} : x = Half(l) /\ HalfAt(l, s, r, f, c)
    \/ \E q \in {0, 3} : Multiplies(q, x) /\ MulAt(q, s, r, f, c)
    \/ x = Div2 /\ DivAt(s, r, f, c)
    \/ \E n \in 0 .. 4 * W - 1 : x = Ash1(n) /\ AshAt(n, s, r, f, c)
    \/ \E n \in 0 .. 4 * W - 1 : x = Ash2(n) /\ AshcAt(n, s, r, f, c)
    \/ x = Ones /\ OnesAt(s, r, f, c)
    \/ x = Bytes /\ BytesAt(s, r, f, c)
    \/ x = Xor1 /\ XorAt(s, r, f, c)

\* The registers at the start of the instruction that is executed or restarted.
Regs == IF m.left = "fault" THEN backup ELSE m.r

GuestInv ==
    /\ start.r = routine.r
    /\ m.left \in {"no", "fault"}
    /\ m.left = "fault" => m.pc = backup[PC]
    /\ Asserted(routine, start, Regs, m.f, m.core)

\* Each step of any routine keeps what is asserted of it, and an abort leaves
\* what the instruction needs to be executed again.
LEMMA AssertedKept ==
    ASSUME TypeOK, Hosted, Step, Asserted(routine, start, m.r, m.f, m.core)
    PROVE  /\ m'.left \in {"no", "fault"}
           /\ Runs(m') => Asserted(routine, start, m'.r, m'.f, m'.core)
           /\ m'.left = "fault" => /\ m'.pc = m.r[PC] /\ m'.core = m.core
                                   /\ Asserted(routine, start, m.r, m'.f, m.core)
<1> DEFINE Goal == /\ m'.left \in {"no", "fault"}
                   /\ Runs(m') => Asserted(routine, start, m'.r, m'.f, m'.core)
                   /\ m'.left = "fault" => /\ m'.pc = m.r[PC] /\ m'.core = m.core
                                           /\ Asserted(routine, start, m.r, m'.f, m.core)
<1>1. ASSUME NEW op \in Branches, NEW l \in {1, 2}, routine = Compare(op, l),
             CompareAt(op, l, start, m.r, m.f, m.core)
      PROVE  Goal
  <2>1. \A r, f, c : CompareAt(op, l, start, r, f, c) => Asserted(routine, start, r, f, c)
    BY <1>1 DEF Asserted
  <2> QED BY <1>1, <2>1, CompareKept
<1>2. ASSUME NEW op \in Telling, routine = Overflow(op),
             OverflowAt(op, start, m.r, m.f, m.core)
      PROVE  Goal
  <2>1. \A r, f, c : OverflowAt(op, start, r, f, c) => Asserted(routine, start, r, f, c)
    BY <1>2 DEF Asserted
  <2> QED BY <1>2, <2>1, OverflowKept
<1>3. ASSUME routine = CopyWords, CopyAt(start, m.r, m.f, m.core) PROVE Goal
  <2>1. \A r, f, c : CopyAt(start, r, f, c) => Asserted(routine, start, r, f, c)
    BY <1>3 DEF Asserted
  <2> QED BY <1>3, <2>1, CopyKept
<1>4. ASSUME routine = CopyString, StringAt(start, m.r, m.f, m.core) PROVE Goal
  <2>1. \A r, f, c : StringAt(start, r, f, c) => Asserted(routine, start, r, f, c)
    BY <1>4 DEF Asserted
  <2> QED BY <1>4, <2>1, StringKept
<1>5. ASSUME routine = Calls, CallsAt(start, m.r, m.f, m.core) PROVE Goal
  <2>1. \A r, f, c : CallsAt(start, r, f, c) => Asserted(routine, start, r, f, c)
    BY <1>5 DEF Asserted
  <2> QED BY <1>5, <2>1, CallsKept
<1>6. ASSUME routine = Save(Top), SaveAt(start, m.r, m.f, m.core) PROVE Goal
  <2>1. \A r, f, c : SaveAt(start, r, f, c) => Asserted(routine, start, r, f, c)
    BY <1>6 DEF Asserted
  <2> QED BY <1>6, <2>1, SaveKept
<1>7. ASSUME routine = MovePrevious, PreviousAt(start, m.r, m.f, m.core) PROVE Goal
  <2>1. \A r, f, c : PreviousAt(start, r, f, c) => Asserted(routine, start, r, f, c)
    BY <1>7 DEF Asserted
  <2> QED BY <1>7, <2>1, PreviousKept
<1>8. ASSUME routine = Switch, SwitchAt(start, m.r, m.f, m.core) PROVE Goal
  <2>1. \A r, f, c : SwitchAt(start, r, f, c) => Asserted(routine, start, r, f, c)
    BY <1>8 DEF Asserted
  <2> QED BY <1>8, <2>1, SwitchKept
<1>9. ASSUME NEW op \in {"ADD", "SUB"}, NEW carry \in {"ADC", "SBC"}, Chains(op, carry, routine),
             ChainAt(op, carry, start, m.r, m.f, m.core)
      PROVE  Goal
  <2>1. \A r, f, c : ChainAt(op, carry, start, r, f, c) => Asserted(routine, start, r, f, c)
    BY <1>9 DEF Asserted
  <2> QED BY <1>9, <2>1, ChainKept
<1>10. ASSUME routine = Neg2, NegAt(start, m.r, m.f, m.core) PROVE Goal
  <2>1. \A r, f, c : NegAt(start, r, f, c) => Asserted(routine, start, r, f, c)
    BY <1>10 DEF Asserted
  <2> QED BY <1>10, <2>1, NegKept
<1>11. ASSUME routine = Asl2, AslAt(start, m.r, m.f, m.core) PROVE Goal
  <2>1. \A r, f, c : AslAt(start, r, f, c) => Asserted(routine, start, r, f, c)
    BY <1>11 DEF Asserted
  <2> QED BY <1>11, <2>1, AslKept
<1>12. ASSUME routine = Lsr2, LsrAt(start, m.r, m.f, m.core) PROVE Goal
  <2>1. \A r, f, c : LsrAt(start, r, f, c) => Asserted(routine, start, r, f, c)
    BY <1>12 DEF Asserted
  <2> QED BY <1>12, <2>1, LsrKept
<1>13. ASSUME routine = Sxt2, SxtAt(start, m.r, m.f, m.core) PROVE Goal
  <2>1. \A r, f, c : SxtAt(start, r, f, c) => Asserted(routine, start, r, f, c)
    BY <1>13 DEF Asserted
  <2> QED BY <1>13, <2>1, SxtKept
<1>14. ASSUME routine = Inc2, IncAt(start, m.r, m.f, m.core) PROVE Goal
  <2>1. \A r, f, c : IncAt(start, r, f, c) => Asserted(routine, start, r, f, c)
    BY <1>14 DEF Asserted
  <2> QED BY <1>14, <2>1, IncKept
<1>15. ASSUME routine = Dec2, DecAt(start, m.r, m.f, m.core) PROVE Goal
  <2>1. \A r, f, c : DecAt(start, r, f, c) => Asserted(routine, start, r, f, c)
    BY <1>15 DEF Asserted
  <2> QED BY <1>15, <2>1, DecKept
<1>16. ASSUME NEW l \in {1, 2}, routine = Half(l),
             HalfAt(l, start, m.r, m.f, m.core)
      PROVE  Goal
  <2>1. \A r, f, c : HalfAt(l, start, r, f, c) => Asserted(routine, start, r, f, c)
    BY <1>16 DEF Asserted
  <2> QED BY <1>16, <2>1, HalfKept
<1>17. ASSUME NEW q \in {0, 3}, Multiplies(q, routine),
             MulAt(q, start, m.r, m.f, m.core)
      PROVE  Goal
  <2>1. \A r, f, c : MulAt(q, start, r, f, c) => Asserted(routine, start, r, f, c)
    BY <1>17 DEF Asserted
  <2> QED BY <1>17, <2>1, MulKept
<1>18. ASSUME routine = Div2, DivAt(start, m.r, m.f, m.core) PROVE Goal
  <2>1. \A r, f, c : DivAt(start, r, f, c) => Asserted(routine, start, r, f, c)
    BY <1>18 DEF Asserted
  <2> QED BY <1>18, <2>1, DivKept
<1>19. ASSUME NEW n \in 0 .. 4 * W - 1, routine = Ash1(n),
             AshAt(n, start, m.r, m.f, m.core)
      PROVE  Goal
  <2>1. \A r, f, c : AshAt(n, start, r, f, c) => Asserted(routine, start, r, f, c)
    BY <1>19 DEF Asserted
  <2> QED BY <1>19, <2>1, AshKept
<1>20. ASSUME NEW n \in 0 .. 4 * W - 1, routine = Ash2(n),
             AshcAt(n, start, m.r, m.f, m.core)
      PROVE  Goal
  <2>1. \A r, f, c : AshcAt(n, start, r, f, c) => Asserted(routine, start, r, f, c)
    BY <1>20 DEF Asserted
  <2> QED BY <1>20, <2>1, AshcKept
<1>21. ASSUME routine = Ones, OnesAt(start, m.r, m.f, m.core) PROVE Goal
  <2>1. \A r, f, c : OnesAt(start, r, f, c) => Asserted(routine, start, r, f, c)
    BY <1>21 DEF Asserted
  <2> QED BY <1>21, <2>1, OnesKept
<1>22. ASSUME routine = Bytes, BytesAt(start, m.r, m.f, m.core) PROVE Goal
  <2>1. \A r, f, c : BytesAt(start, r, f, c) => Asserted(routine, start, r, f, c)
    BY <1>22 DEF Asserted
  <2> QED BY <1>22, <2>1, BytesKept
<1>23. ASSUME routine = Xor1, XorAt(start, m.r, m.f, m.core) PROVE Goal
  <2>1. \A r, f, c : XorAt(start, r, f, c) => Asserted(routine, start, r, f, c)
    BY <1>23 DEF Asserted
  <2> QED BY <1>23, <2>1, XorKept
<1> HIDE DEF Goal
<1>24. Goal
  BY <1>1, <1>2, <1>3, <1>4, <1>5, <1>6, <1>7, <1>8, <1>9, <1>10, <1>11, <1>12, <1>13, <1>14,
     <1>15, <1>16, <1>17, <1>18, <1>19, <1>20, <1>21, <1>22, <1>23 DEF Asserted
<1> QED BY <1>24 DEF Goal

-----------------------------------------------------------------------------
\* At the start the registers are those a routine is given, and core is as
\* the start remembers it, zero where it is not an input.
Begins(r, n) ==
    /\ r[0] = n /\ r[1] = A /\ r[2] = B /\ r[3] = 0 /\ r[4] = 0 /\ r[5] = 0
    /\ r[SP] = Top /\ r[PC] = 0

\* Every routine is given the same registers, but for the number in R0.
LEMMA RoutineBegins ==
    /\ \A name, n, text, inputs : Begins(Routine(name, n, text, inputs).r, n)
    /\ Begins(Save(Top).r, 0)
BY DEF Routine, Begins, Save, SP, PC

\* The string ends in front of the third word's end, and its copy is empty.
LEMMA BytesBegin ==
    ASSUME Hosted, Init, routine = CopyString
    PROVE  /\ ByteIn(start.core, A + 4) = 0
           /\ \A x \in 0 .. 5 : ByteIn(start.core, B + x) = 0
<1>1. \A a : Plain(a) /\ a \notin {A, A + 2} => start.core[a] = 0
  BY DEF Init, CopyString, Routine, Plain
<1>2. 0 % ByteSize = 0 /\ 0 \div ByteSize = 0
  BY ByteSizeTyped
<1>3. ByteIn(start.core, A + 4) = 0
  <2>1. Plain(A + 4) /\ A + 4 \notin {A, A + 2}
    BY PlainCells, Places
  <2>2. start.core[A + 4] = 0
    BY <1>1, <2>1
  <2>3. ByteIn(start.core, A + 4) = start.core[A + 4] % ByteSize
    BY <2>1, PlainBytes
  <2> QED BY <1>2, <2>2, <2>3
<1>4. ASSUME NEW x \in 0 .. 5
      PROVE  ByteIn(start.core, B + x) = 0
  <2>1. PICK e \in {0, 2, 4}, n \in {0, 1} : x = e + n /\ Plain(B + e) /\ B + x = (B + e) + n
    BY SixBytes
  <2>2. start.core[B + e] = 0
    BY <1>1, <2>1, Places
  <2>3. ByteIn(start.core, B + e) = 0 /\ ByteIn(start.core, (B + e) + 1) = 0 /\ (B + e) + 0 = B + e
    BY <1>2, <2>1, <2>2, PlainBytes
  <2> QED BY <2>1, <2>3
<1> QED BY <1>3, <1>4

\* At the start the assertion in front of the first instruction holds.
LEMMA Begun ==
    ASSUME Hosted, Init
    PROVE  Asserted(routine, start, start.r, start.f, start.core)
<1>0. start.r = routine.r
  BY DEF Init
<1>s. SP \in 0 .. 7 /\ PC = 7
  BY DEF SP, PC
<1>1. ASSUME NEW op \in Branches, NEW l \in {1, 2}, routine = Compare(op, l)
      PROVE  Asserted(routine, start, start.r, start.f, start.core)
  <2>1. Begins(start.r, l)
    BY <1>0, <1>1, RoutineBegins DEF Compare
  <2>2. CompareAt(op, l, start, start.r, start.f, start.core)
    BY <2>1, <1>s DEF Begins, CompareAt
  <2> QED BY <1>1, <2>2 DEF Asserted
<1>2. ASSUME NEW op \in Telling, routine = Overflow(op)
      PROVE  Asserted(routine, start, start.r, start.f, start.core)
  <2>1. Begins(start.r, 2)
    BY <1>0, <1>2, RoutineBegins DEF Overflow
  <2>2. OverflowAt(op, start, start.r, start.f, start.core)
    BY <2>1, <1>s DEF Begins, OverflowAt
  <2> QED BY <1>2, <2>2 DEF Asserted
<1>3. ASSUME routine = CopyWords
      PROVE  Asserted(routine, start, start.r, start.f, start.core)
  <2>1. Begins(start.r, 3)
    BY <1>0, <1>3, RoutineBegins DEF CopyWords
  <2>2. A + 2 * 0 = A /\ B + 2 * 0 = B /\ 3 - 0 = 3
    BY Places
  <2>3. CopyAt(start, start.r, start.f, start.core)
    BY <2>2, <2>1, <1>s DEF Begins, CopyAt
  <2> QED BY <1>3, <2>3 DEF Asserted
<1>4. ASSUME routine = CopyString
      PROVE  Asserted(routine, start, start.r, start.f, start.core)
  <2>1. Begins(start.r, 0)
    BY <1>0, <1>4, RoutineBegins DEF CopyString
  <2>2. /\ ByteIn(start.core, A + 4) = 0 /\ A + 0 = A /\ B + 0 = B
        /\ \A x \in 0 .. 5 : ByteIn(start.core, B + x) = 0
    BY <1>4, BytesBegin, Places
  <2>3. StringAt(start, start.r, start.f, start.core)
    BY <2>2, <2>1, <1>s DEF Begins, StringAt
  <2> QED BY <1>4, <2>3 DEF Asserted
<1>5. ASSUME routine = Calls
      PROVE  Asserted(routine, start, start.r, start.f, start.core)
  <2>1. Begins(start.r, 0)
    BY <1>0, <1>5, RoutineBegins DEF Calls
  <2>2. CallsAt(start, start.r, start.f, start.core)
    BY <2>1, <1>s DEF Begins, CallsAt
  <2> QED BY <1>5, <2>2 DEF Asserted
<1>6. ASSUME routine = Save(Top)
      PROVE  Asserted(routine, start, start.r, start.f, start.core)
  <2>1. Begins(start.r, 0)
    BY <1>0, <1>6, RoutineBegins DEF Save
  <2>2. SaveAt(start, start.r, start.f, start.core)
    BY <2>1, <1>s DEF Begins, SaveAt
  <2> QED BY <1>6, <2>2 DEF Asserted
<1>7. ASSUME routine = MovePrevious
      PROVE  Asserted(routine, start, start.r, start.f, start.core)
  <2>1. Begins(start.r, 0)
    BY <1>0, <1>7, RoutineBegins DEF MovePrevious
  <2>2. PreviousAt(start, start.r, start.f, start.core)
    BY <2>1, <1>s DEF Begins, PreviousAt
  <2> QED BY <1>7, <2>2 DEF Asserted
<1>8. ASSUME routine = Switch
      PROVE  Asserted(routine, start, start.r, start.f, start.core)
  <2>1. Begins(start.r, 0)
    BY <1>0, <1>8, RoutineBegins DEF Switch
  <2>2. SwitchAt(start, start.r, start.f, start.core)
    BY <2>1, <1>s DEF Begins, SwitchAt
  <2> QED BY <1>8, <2>2 DEF Asserted
<1>9. ASSUME NEW op \in {"ADD", "SUB"}, NEW carry \in {"ADC", "SBC"}, Chains(op, carry, routine)
      PROVE  Asserted(routine, start, start.r, start.f, start.core)
  <2>1. Begins(start.r, 0)
    BY <1>0, <1>9, RoutineBegins DEF Add2, Sub2, Chains
  <2>2. ChainAt(op, carry, start, start.r, start.f, start.core)
    BY <2>1, <1>s DEF Begins, ChainAt
  <2> QED BY <1>9, <2>2 DEF Asserted
<1>10. ASSUME routine = Neg2
      PROVE  Asserted(routine, start, start.r, start.f, start.core)
  <2>1. Begins(start.r, 0)
    BY <1>0, <1>10, RoutineBegins DEF Neg2
  <2>2. NegAt(start, start.r, start.f, start.core)
    BY <2>1, <1>s DEF Begins, NegAt
  <2> QED BY <1>10, <2>2 DEF Asserted
<1>11. ASSUME routine = Asl2
      PROVE  Asserted(routine, start, start.r, start.f, start.core)
  <2>1. Begins(start.r, 0)
    BY <1>0, <1>11, RoutineBegins DEF Asl2
  <2>2. AslAt(start, start.r, start.f, start.core)
    BY <2>1, <1>s DEF Begins, AslAt
  <2> QED BY <1>11, <2>2 DEF Asserted
<1>12. ASSUME routine = Lsr2
      PROVE  Asserted(routine, start, start.r, start.f, start.core)
  <2>1. Begins(start.r, 0)
    BY <1>0, <1>12, RoutineBegins DEF Lsr2
  <2>2. LsrAt(start, start.r, start.f, start.core)
    BY <2>1, <1>s DEF Begins, LsrAt
  <2> QED BY <1>12, <2>2 DEF Asserted
<1>13. ASSUME routine = Sxt2
      PROVE  Asserted(routine, start, start.r, start.f, start.core)
  <2>1. Begins(start.r, 0)
    BY <1>0, <1>13, RoutineBegins DEF Sxt2
  <2>2. SxtAt(start, start.r, start.f, start.core)
    BY <2>1, <1>s DEF Begins, SxtAt
  <2> QED BY <1>13, <2>2 DEF Asserted
<1>14. ASSUME routine = Inc2
      PROVE  Asserted(routine, start, start.r, start.f, start.core)
  <2>1. Begins(start.r, 0)
    BY <1>0, <1>14, RoutineBegins DEF Inc2
  <2>2. IncAt(start, start.r, start.f, start.core)
    BY <2>1, <1>s DEF Begins, IncAt
  <2> QED BY <1>14, <2>2 DEF Asserted
<1>15. ASSUME routine = Dec2
      PROVE  Asserted(routine, start, start.r, start.f, start.core)
  <2>1. Begins(start.r, 0)
    BY <1>0, <1>15, RoutineBegins DEF Dec2
  <2>2. DecAt(start, start.r, start.f, start.core)
    BY <2>1, <1>s DEF Begins, DecAt
  <2> QED BY <1>15, <2>2 DEF Asserted
<1>16. ASSUME NEW l \in {1, 2}, routine = Half(l)
      PROVE  Asserted(routine, start, start.r, start.f, start.core)
  <2>1. Begins(start.r, l)
    BY <1>0, <1>16, RoutineBegins DEF Half
  <2>2. HalfAt(l, start, start.r, start.f, start.core)
    BY <2>1, <1>s DEF Begins, HalfAt
  <2> QED BY <1>16, <2>2 DEF Asserted
<1>17. ASSUME NEW q \in {0, 3}, Multiplies(q, routine)
      PROVE  Asserted(routine, start, start.r, start.f, start.core)
  <2>1. Begins(start.r, 0)
    BY <1>0, <1>17, RoutineBegins DEF Mul2, Mul1, Multiplies
  <2>2. MulAt(q, start, start.r, start.f, start.core)
    BY <2>1, <1>s DEF Begins, MulAt
  <2> QED BY <1>17, <2>2 DEF Asserted
<1>18. ASSUME routine = Div2
      PROVE  Asserted(routine, start, start.r, start.f, start.core)
  <2>1. Begins(start.r, 0)
    BY <1>0, <1>18, RoutineBegins DEF Div2
  <2>2. DivAt(start, start.r, start.f, start.core)
    BY <2>1, <1>s DEF Begins, DivAt
  <2> QED BY <1>18, <2>2 DEF Asserted
<1>19. ASSUME NEW n \in 0 .. 4 * W - 1, routine = Ash1(n)
      PROVE  Asserted(routine, start, start.r, start.f, start.core)
  <2>1. Begins(start.r, n)
    BY <1>0, <1>19, RoutineBegins DEF Ash1
  <2>2. AshAt(n, start, start.r, start.f, start.core)
    BY <2>1, <1>s DEF Begins, AshAt
  <2> QED BY <1>19, <2>2 DEF Asserted
<1>20. ASSUME NEW n \in 0 .. 4 * W - 1, routine = Ash2(n)
      PROVE  Asserted(routine, start, start.r, start.f, start.core)
  <2>1. Begins(start.r, n)
    BY <1>0, <1>20, RoutineBegins DEF Ash2
  <2>2. AshcAt(n, start, start.r, start.f, start.core)
    BY <2>1, <1>s DEF Begins, AshcAt
  <2> QED BY <1>20, <2>2 DEF Asserted
<1>21. ASSUME routine = Ones
      PROVE  Asserted(routine, start, start.r, start.f, start.core)
  <2>1. Begins(start.r, 0)
    BY <1>0, <1>21, RoutineBegins DEF Ones
  <2>2. OnesAt(start, start.r, start.f, start.core)
    BY <2>1, <1>s DEF Begins, OnesAt
  <2> QED BY <1>21, <2>2 DEF Asserted
<1>22. ASSUME routine = Bytes
      PROVE  Asserted(routine, start, start.r, start.f, start.core)
  <2>1. Begins(start.r, 0)
    BY <1>0, <1>22, RoutineBegins DEF Bytes
  <2>2. ByteIn(start.core, A + 1) = start.core[A] \div ByteSize
    BY PlainCells, PlainBytes
  <2>3. BytesAt(start, start.r, start.f, start.core)
    BY <2>2, <2>1, <1>s DEF Begins, BytesAt
  <2> QED BY <1>22, <2>3 DEF Asserted
<1>23. ASSUME routine = Xor1
      PROVE  Asserted(routine, start, start.r, start.f, start.core)
  <2>1. Begins(start.r, 0)
    BY <1>0, <1>23, RoutineBegins DEF Xor1
  <2>2. XorAt(start, start.r, start.f, start.core)
    BY <2>1, <1>s DEF Begins, XorAt
  <2> QED BY <1>23, <2>2 DEF Asserted
<1>24. routine \in Guests
  BY DEF Hosted, Init
<1>25. /\ routine = Add2 => Chains("ADD", "ADC", routine)
       /\ routine = Sub2 => Chains("SUB", "SBC", routine)
       /\ routine = Mul2 => Multiplies(0, routine)
       /\ routine = Mul1 => Multiplies(3, routine)
  BY DEF Chains, Multiplies
<1> QED BY <1>1, <1>2, <1>3, <1>4, <1>5, <1>6, <1>7, <1>8, <1>9, <1>10, <1>11, <1>12, <1>13, <1>14,
        <1>15, <1>16, <1>17, <1>18, <1>19, <1>20, <1>21, <1>22, <1>23, <1>24, <1>25 DEF Guests, Telling

-----------------------------------------------------------------------------
\* The invariant holds at the start.
LEMMA GuestBegins ==
    ASSUME Hosted, Init
    PROVE  GuestInv
BY Begun DEF GuestInv, Regs, Init

\* What the guest kernel returns to is the instruction that was aborted, with
\* its registers and flags; a page taken away changes neither.
LEMMA GuestGoesOn ==
    ASSUME Hosted, TypeOK, GuestInv, [Next]_vars
    PROVE  GuestInv'
<1> USE DEF GuestInv
<1>1. CASE Step
  <2>1. m.left = "no" /\ Regs = m.r
    BY <1>1 DEF Step, Runs, Regs
  <2>2. /\ m'.left \in {"no", "fault"}
        /\ Runs(m') => Asserted(routine, start, m'.r, m'.f, m'.core)
        /\ m'.left = "fault" => /\ m'.pc = m.r[PC] /\ m'.core = m.core
                                /\ Asserted(routine, start, m.r, m'.f, m.core)
    BY <1>1, <2>1, AssertedKept
  <2>3. UNCHANGED <<routine, start>> /\ backup' = m.r
    BY <1>1 DEF Step
  <2>4. CASE m'.left = "no"
    BY <2>2, <2>3, <2>4 DEF Regs, Runs
  <2>5. CASE m'.left = "fault"
    BY <2>2, <2>3, <2>5 DEF Regs
  <2> QED BY <2>2, <2>4, <2>5
<1>2. CASE Resolve
  <2>1. /\ UNCHANGED <<routine, start, backup>> /\ m.left = "fault"
        /\ m' = [m EXCEPT !.r = [backup EXCEPT ![PC] = m.pc], !.pc = 0, !.out = 0, !.left = "no"]
    BY <1>2 DEF Resolve
  <2>2. [backup EXCEPT ![PC] = m.pc] = backup
    BY <2>1 DEF TypeOK
  <2>3. m'.left = "no" /\ m'.r = backup /\ m'.f = m.f /\ m'.core = m.core
    BY <2>1, <2>2 DEF TypeOK, Machine
  <2> QED BY <2>1, <2>3 DEF Regs
<1>3. CASE UNCHANGED <<routine, start, m, backup>>
  BY <1>3 DEF Regs
<1> QED BY <1>1, <1>2, <1>3 DEF Next, Evict, Exited, vars

\* Whatever routine runs, what is asserted of it holds wherever it stands: it never
\* leaves the machine for a bus error or an instruction that does not exist, and in
\* front of every instruction, or of the one a fault has aborted, its assertion holds
\* of registers, flags and core.
THEOREM RoutinesOnCourse ==
    ASSUME Hosted
    PROVE  Spec => [](TypeOK /\ GuestInv)
<1>1. Init => GuestInv
  BY GuestBegins
<1>2. TypeOK /\ GuestInv /\ [Next]_vars => GuestInv'
  BY GuestGoesOn
<1> QED BY <1>1, <1>2, TypeCorrect, PTL DEF Spec

-----------------------------------------------------------------------------
(***************************************************************************)
(* The end of a routine: what is asserted behind its last instruction.     *)
(***************************************************************************)
LEMMA GuestEnds ==
    ASSUME GuestInv, Ended
    PROVE  /\ \A op \in Branches : routine.name = op =>
                  \E l \in {1, 2} : start.r[0] = l /\ CompareAt(op, l, start, m.r, m.f, m.core) /\ m.r[PC] = 6
           /\ \A op \in Telling : routine.name = op => OverflowAt(op, start, m.r, m.f, m.core) /\ m.r[PC] = 14
           /\ routine.name = "copy" => CopyAt(start, m.r, m.f, m.core) /\ m.r[PC] = 4
           /\ routine.name = "string" => StringAt(start, m.r, m.f, m.core) /\ m.r[PC] = 4
           /\ routine.name = "calls" => CallsAt(start, m.r, m.f, m.core) /\ m.r[PC] = 26
           /\ routine.name = "save" => SaveAt(start, m.r, m.f, m.core) /\ m.r[PC] = 12
           /\ routine.name = "previous" => PreviousAt(start, m.r, m.f, m.core) /\ m.r[PC] = 8
           /\ routine.name = "switch" => SwitchAt(start, m.r, m.f, m.core) /\ m.r[PC] = 26
           /\ routine.name = "add" => ChainAt("ADD", "ADC", start, m.r, m.f, m.core) /\ m.r[PC] = 6
           /\ routine.name = "sub" => ChainAt("SUB", "SBC", start, m.r, m.f, m.core) /\ m.r[PC] = 6
           /\ routine.name = "neg" => NegAt(start, m.r, m.f, m.core) /\ m.r[PC] = 10
           /\ routine.name = "asl" => AslAt(start, m.r, m.f, m.core) /\ m.r[PC] = 4
           /\ routine.name = "lsr" => LsrAt(start, m.r, m.f, m.core) /\ m.r[PC] = 8
           /\ routine.name = "sxt" => SxtAt(start, m.r, m.f, m.core) /\ m.r[PC] = 4
           /\ routine.name = "inc" => IncAt(start, m.r, m.f, m.core) /\ m.r[PC] = 8
           /\ routine.name = "dec" => DecAt(start, m.r, m.f, m.core) /\ m.r[PC] = 10
           /\ routine.name = "half" =>
                  \E l \in {1, 2} : start.r[0] = l /\ HalfAt(l, start, m.r, m.f, m.core) /\ m.r[PC] = 2
           /\ routine.name = "mul" => MulAt(0, start, m.r, m.f, m.core) /\ m.r[PC] = 4
           /\ routine.name = "mul1" => MulAt(3, start, m.r, m.f, m.core) /\ m.r[PC] = 4
           /\ routine.name = "div" => DivAt(start, m.r, m.f, m.core) /\ m.r[PC] = 8
           /\ routine.name = "ash" =>
                  \E n \in 0 .. 4 * W - 1 : start.r[0] = n /\ AshAt(n, start, m.r, m.f, m.core) /\ m.r[PC] = 4
           /\ routine.name = "ashc" =>
                  \E n \in 0 .. 4 * W - 1 : start.r[0] = n /\ AshcAt(n, start, m.r, m.f, m.core) /\ m.r[PC] = 8
           /\ routine.name = "ones" => OnesAt(start, m.r, m.f, m.core) /\ m.r[PC] = 12
           /\ routine.name = "bytes" => BytesAt(start, m.r, m.f, m.core) /\ m.r[PC] = 14
           /\ routine.name = "xor" => XorAt(start, m.r, m.f, m.core) /\ m.r[PC] = 22
<1> DEFINE Here == Asserted(routine, start, m.r, m.f, m.core)
<1>0. Here /\ start.r = routine.r
  BY DEF GuestInv, Regs, Ended, Runs
<1>b. \A name, n, text, inputs : /\ Routine(name, n, text, inputs).r[0] = n
                                 /\ Routine(name, n, text, inputs).name = name
  BY RoutineBegins DEF Begins, Routine
<1>l. \A k \in 0 .. 12 : k \in 0 .. 13
  OBVIOUS
<1>n. /\ \A op, l : Compare(op, l).name = op /\ Compare(op, l).r[0] = l
      /\ \A op : Overflow(op).name = op
      /\ CopyWords.name = "copy"
      /\ CopyString.name = "string"
      /\ Calls.name = "calls"
      /\ Save(Top).name = "save"
      /\ MovePrevious.name = "previous"
      /\ Switch.name = "switch"
      /\ Add2.name = "add" /\ Sub2.name = "sub"
      /\ Neg2.name = "neg"
      /\ Asl2.name = "asl"
      /\ Lsr2.name = "lsr"
      /\ Sxt2.name = "sxt"
      /\ Inc2.name = "inc"
      /\ Dec2.name = "dec"
      /\ \A l : Half(l).name = "half" /\ Half(l).r[0] = l
      /\ Mul2.name = "mul" /\ Mul1.name = "mul1"
      /\ Div2.name = "div"
      /\ \A n : Ash1(n).name = "ash" /\ Ash1(n).r[0] = n
      /\ \A n : Ash2(n).name = "ashc" /\ Ash2(n).r[0] = n
      /\ Ones.name = "ones"
      /\ Bytes.name = "bytes"
      /\ Xor1.name = "xor"
  BY <1>b
  DEF Compare, Overflow, CopyWords, CopyString, Calls, Save, MovePrevious, Switch, Add2,
      Sub2, Neg2, Asl2, Lsr2, Sxt2, Inc2, Dec2, Half, Mul2, Mul1, Div2, Ash1, Ash2, Ones,
      Bytes, Xor1
<1>1. ASSUME NEW op \in Branches, NEW l \in {1, 2}, routine = Compare(op, l),
             CompareAt(op, l, start, m.r, m.f, m.core)
      PROVE  m.r[PC] = 6
  BY <1>1, CompareText, Numbers, EndsBehind DEF CompareAt
<1>2. ASSUME NEW op \in Telling, routine = Overflow(op),
             OverflowAt(op, start, m.r, m.f, m.core)
      PROVE  m.r[PC] = 14
  BY <1>2, OverflowText, Numbers, EndsBehind DEF OverflowAt
<1>3. ASSUME routine = CopyWords, CopyAt(start, m.r, m.f, m.core)
      PROVE  m.r[PC] = 4
  BY <1>3, CopyText, Numbers, EndsBehind DEF CopyAt
<1>4. ASSUME routine = CopyString, StringAt(start, m.r, m.f, m.core)
      PROVE  m.r[PC] = 4
  BY <1>4, StringText, Numbers, EndsBehind DEF StringAt
<1>5. ASSUME routine = Calls, CallsAt(start, m.r, m.f, m.core)
      PROVE  m.r[PC] = 26
  BY <1>5, CallsText, Numbers, EndsBehind DEF CallsAt
<1>6. ASSUME routine = Save(Top), SaveAt(start, m.r, m.f, m.core)
      PROVE  m.r[PC] = 12
  BY <1>6, SaveText, Numbers, EndsBehind DEF SaveAt
<1>7. ASSUME routine = MovePrevious, PreviousAt(start, m.r, m.f, m.core)
      PROVE  m.r[PC] = 8
  BY <1>7, PreviousText, Numbers, EndsBehind DEF PreviousAt
<1>8. ASSUME routine = Switch, SwitchAt(start, m.r, m.f, m.core)
      PROVE  m.r[PC] = 26
  BY <1>8, SwitchText, Numbers, EndsBehind DEF SwitchAt
<1>9. ASSUME NEW op \in {"ADD", "SUB"}, NEW carry \in {"ADC", "SBC"}, Chains(op, carry, routine),
             ChainAt(op, carry, start, m.r, m.f, m.core)
      PROVE  m.r[PC] = 6
  BY <1>9, ChainText, Numbers, EndsBehind DEF ChainAt
<1>10. ASSUME routine = Neg2, NegAt(start, m.r, m.f, m.core)
      PROVE  m.r[PC] = 10
  BY <1>10, NegText, Numbers, EndsBehind DEF NegAt
<1>11. ASSUME routine = Asl2, AslAt(start, m.r, m.f, m.core)
      PROVE  m.r[PC] = 4
  BY <1>11, AslText, Numbers, EndsBehind DEF AslAt
<1>12. ASSUME routine = Lsr2, LsrAt(start, m.r, m.f, m.core)
      PROVE  m.r[PC] = 8
  BY <1>12, LsrText, Numbers, EndsBehind DEF LsrAt
<1>13. ASSUME routine = Sxt2, SxtAt(start, m.r, m.f, m.core)
      PROVE  m.r[PC] = 4
  BY <1>13, SxtText, Numbers, EndsBehind DEF SxtAt
<1>14. ASSUME routine = Inc2, IncAt(start, m.r, m.f, m.core)
      PROVE  m.r[PC] = 8
  BY <1>14, IncText, Numbers, EndsBehind DEF IncAt
<1>15. ASSUME routine = Dec2, DecAt(start, m.r, m.f, m.core)
      PROVE  m.r[PC] = 10
  BY <1>15, DecText, Numbers, EndsBehind DEF DecAt
<1>16. ASSUME NEW l \in {1, 2}, routine = Half(l), HalfAt(l, start, m.r, m.f, m.core)
      PROVE  m.r[PC] = 2
  BY <1>16, HalfText, Numbers, EndsBehind DEF HalfAt
<1>17. ASSUME NEW q \in {0, 3}, Multiplies(q, routine),
             MulAt(q, start, m.r, m.f, m.core)
      PROVE  m.r[PC] = 4
  BY <1>17, MulText, Numbers, EndsBehind DEF MulAt
<1>18. ASSUME routine = Div2, DivAt(start, m.r, m.f, m.core)
      PROVE  m.r[PC] = 8
  BY <1>18, DivText, Numbers, EndsBehind DEF DivAt
<1>19. ASSUME NEW n \in 0 .. 4 * W - 1, routine = Ash1(n),
             AshAt(n, start, m.r, m.f, m.core)
      PROVE  m.r[PC] = 4
  BY <1>19, AshText, Numbers, EndsBehind DEF AshAt
<1>20. ASSUME NEW n \in 0 .. 4 * W - 1, routine = Ash2(n),
             AshcAt(n, start, m.r, m.f, m.core)
      PROVE  m.r[PC] = 8
  BY <1>20, AshcText, Numbers, EndsBehind DEF AshcAt
<1>21. ASSUME routine = Ones, OnesAt(start, m.r, m.f, m.core)
      PROVE  m.r[PC] = 12
  BY <1>21, OnesText, Numbers, EndsBehind DEF OnesAt
<1>22. ASSUME routine = Bytes, BytesAt(start, m.r, m.f, m.core)
      PROVE  m.r[PC] = 14
  BY <1>22, BytesText, Numbers, EndsBehind DEF BytesAt
<1>23. ASSUME routine = Xor1, XorAt(start, m.r, m.f, m.core)
      PROVE  m.r[PC] = 22
  BY <1>23, XorText, Numbers, EndsBehind DEF XorAt
<1> USE <1>0, <1>n
<1>24. \A op \in Branches : routine.name = op =>
            \E l \in {1, 2} : start.r[0] = l /\ CompareAt(op, l, start, m.r, m.f, m.core) /\ m.r[PC] = 6
  <2> SUFFICES ASSUME NEW op \in Branches, routine.name = op
               PROVE  \E l \in {1, 2} : start.r[0] = l /\ CompareAt(op, l, start, m.r, m.f, m.core)
                                        /\ m.r[PC] = 6
    OBVIOUS
  <2>1. \E p \in Branches, l \in {1, 2} : routine = Compare(p, l)
                                          /\ CompareAt(p, l, start, m.r, m.f, m.core)
    BY DEF Asserted, Telling, Branches, Chains, Multiplies
  <2>2. PICK l \in {1, 2} : routine = Compare(op, l) /\ CompareAt(op, l, start, m.r, m.f, m.core)
    BY <2>1
  <2>3. start.r[0] = l
    BY <2>2
  <2>4. m.r[PC] = 6
    BY <1>1, <2>2
  <2> QED BY <2>2, <2>3, <2>4
<1>25. \A op \in Telling : routine.name = op => OverflowAt(op, start, m.r, m.f, m.core) /\ m.r[PC] = 14
  BY <1>2 DEF Asserted, Telling, Branches, Chains, Multiplies
<1>26. routine.name = "copy" => CopyAt(start, m.r, m.f, m.core) /\ m.r[PC] = 4
  BY <1>3 DEF Asserted, Telling, Branches, Chains, Multiplies
<1>27. routine.name = "string" => StringAt(start, m.r, m.f, m.core) /\ m.r[PC] = 4
  BY <1>4 DEF Asserted, Telling, Branches, Chains, Multiplies
<1>28. routine.name = "calls" => CallsAt(start, m.r, m.f, m.core) /\ m.r[PC] = 26
  BY <1>5 DEF Asserted, Telling, Branches, Chains, Multiplies
<1>29. routine.name = "save" => SaveAt(start, m.r, m.f, m.core) /\ m.r[PC] = 12
  BY <1>6 DEF Asserted, Telling, Branches, Chains, Multiplies
<1>30. routine.name = "previous" => PreviousAt(start, m.r, m.f, m.core) /\ m.r[PC] = 8
  BY <1>7 DEF Asserted, Telling, Branches, Chains, Multiplies
<1>31. routine.name = "switch" => SwitchAt(start, m.r, m.f, m.core) /\ m.r[PC] = 26
  BY <1>8 DEF Asserted, Telling, Branches, Chains, Multiplies
<1>32. routine.name = "add" => ChainAt("ADD", "ADC", start, m.r, m.f, m.core) /\ m.r[PC] = 6
  BY <1>9 DEF Asserted, Telling, Branches, Chains, Multiplies
<1>33. routine.name = "sub" => ChainAt("SUB", "SBC", start, m.r, m.f, m.core) /\ m.r[PC] = 6
  BY <1>9 DEF Asserted, Telling, Branches, Chains, Multiplies
<1>34. routine.name = "neg" => NegAt(start, m.r, m.f, m.core) /\ m.r[PC] = 10
  BY <1>10 DEF Asserted, Telling, Branches, Chains, Multiplies
<1>35. routine.name = "asl" => AslAt(start, m.r, m.f, m.core) /\ m.r[PC] = 4
  BY <1>11 DEF Asserted, Telling, Branches, Chains, Multiplies
<1>36. routine.name = "lsr" => LsrAt(start, m.r, m.f, m.core) /\ m.r[PC] = 8
  BY <1>12 DEF Asserted, Telling, Branches, Chains, Multiplies
<1>37. routine.name = "sxt" => SxtAt(start, m.r, m.f, m.core) /\ m.r[PC] = 4
  BY <1>13 DEF Asserted, Telling, Branches, Chains, Multiplies
<1>38. routine.name = "inc" => IncAt(start, m.r, m.f, m.core) /\ m.r[PC] = 8
  BY <1>14 DEF Asserted, Telling, Branches, Chains, Multiplies
<1>39. routine.name = "dec" => DecAt(start, m.r, m.f, m.core) /\ m.r[PC] = 10
  BY <1>15 DEF Asserted, Telling, Branches, Chains, Multiplies
<1>40. routine.name = "half" =>
            \E l \in {1, 2} : start.r[0] = l /\ HalfAt(l, start, m.r, m.f, m.core) /\ m.r[PC] = 2
  BY <1>16 DEF Asserted, Telling, Branches, Chains, Multiplies
<1>41. routine.name = "mul" => MulAt(0, start, m.r, m.f, m.core) /\ m.r[PC] = 4
  BY <1>17 DEF Asserted, Telling, Branches, Chains, Multiplies
<1>42. routine.name = "mul1" => MulAt(3, start, m.r, m.f, m.core) /\ m.r[PC] = 4
  BY <1>17 DEF Asserted, Telling, Branches, Chains, Multiplies
<1>43. routine.name = "div" => DivAt(start, m.r, m.f, m.core) /\ m.r[PC] = 8
  BY <1>18 DEF Asserted, Telling, Branches, Chains, Multiplies
<1>44. routine.name = "ash" =>
            \E n \in 0 .. 4 * W - 1 : start.r[0] = n /\ AshAt(n, start, m.r, m.f, m.core) /\ m.r[PC] = 4
  BY <1>19 DEF Asserted, Telling, Branches, Chains, Multiplies
<1>45. routine.name = "ashc" =>
            \E n \in 0 .. 4 * W - 1 : start.r[0] = n /\ AshcAt(n, start, m.r, m.f, m.core) /\ m.r[PC] = 8
  BY <1>20 DEF Asserted, Telling, Branches, Chains, Multiplies
<1>46. routine.name = "ones" => OnesAt(start, m.r, m.f, m.core) /\ m.r[PC] = 12
  BY <1>21 DEF Asserted, Telling, Branches, Chains, Multiplies
<1>47. routine.name = "bytes" => BytesAt(start, m.r, m.f, m.core) /\ m.r[PC] = 14
  BY <1>22 DEF Asserted, Telling, Branches, Chains, Multiplies
<1>48. routine.name = "xor" => XorAt(start, m.r, m.f, m.core) /\ m.r[PC] = 22
  BY <1>23 DEF Asserted, Telling, Branches, Chains, Multiplies
<1> QED BY <1>24, <1>25, <1>26, <1>27, <1>28, <1>29, <1>30, <1>31, <1>32, <1>33, <1>34, <1>35,
        <1>36, <1>37, <1>38, <1>39, <1>40, <1>41, <1>42, <1>43, <1>44, <1>45, <1>46, <1>47,
        <1>48

\* A routine has started with the registers it is given.
LEMMA Started ==
    ASSUME Hosted, TypeOK, GuestInv
    PROVE  Begins(start.r, start.r[0]) /\ (routine.name = "save" => start.r[0] = 0)
<1>1. routine \in Guests /\ start.r = routine.r
  BY DEF Hosted, TypeOK, GuestInv
<1>2. routine = Save(Top) \/ \E name, n, text, inputs : name # "save" /\ routine = Routine(name, n, text, inputs)
  <2> DEFINE Other(x) == \E name, n, text, inputs : name # "save" /\ x = Routine(name, n, text, inputs)
  <2>0. \A name, n, text, inputs : name # "save" => Other(Routine(name, n, text, inputs))
    OBVIOUS
  <2> HIDE DEF Other
  <2>1. Other(Add2) /\ Other(Sub2) /\ Other(Neg2) /\ Other(Asl2) /\ Other(Lsr2) /\ Other(Sxt2)
    BY <2>0 DEF Add2, Sub2, Neg2, Asl2, Lsr2, Sxt2
  <2>2. Other(Mul2) /\ Other(Mul1) /\ Other(Div2) /\ Other(Xor1) /\ Other(Bytes)
    BY <2>0 DEF Mul2, Mul1, Div2, Xor1, Bytes
  <2>3. Other(Inc2) /\ Other(Dec2) /\ Other(Ones) /\ Other(CopyWords) /\ Other(CopyString)
    BY <2>0 DEF Inc2, Dec2, Ones, CopyWords, CopyString
  <2>4. Other(Calls) /\ Other(Switch) /\ Other(MovePrevious)
    BY <2>0 DEF Calls, Switch, MovePrevious
  <2>5. \A n : Other(Half(n)) /\ Other(Ash1(n)) /\ Other(Ash2(n))
    BY <2>0 DEF Half, Ash1, Ash2
  <2>6. \A op \in Branches : \A l : Other(Compare(op, l))
    BY <2>0 DEF Compare, Branches
  <2>7. \A op \in {"ADD", "SUB", "CMP", "NEG", "ASL"} : Other(Overflow(op))
    BY <2>0 DEF Overflow
  <2> HIDE <2>0
  <2>8. routine = Save(Top) \/ Other(routine)
    BY <1>1, <2>1, <2>2, <2>3, <2>4, <2>5, <2>6, <2>7 DEF Guests
  <2> QED BY <2>8 DEF Other
<1>3. CASE routine = Save(Top)
  BY <1>1, <1>3, RoutineBegins DEF Begins
<1>4. ASSUME NEW name, NEW n, NEW text, NEW inputs, name # "save",
             routine = Routine(name, n, text, inputs)
      PROVE  Begins(start.r, start.r[0]) /\ routine.name # "save"
  <2>1. Begins(start.r, n)
    BY <1>1, <1>4, RoutineBegins
  <2>2. start.r[0] = n /\ routine.name = name
    BY <1>4, <2>1 DEF Begins, Routine
  <2> QED BY <1>4, <2>1, <2>2
<1> QED BY <1>2, <1>3, <1>4

\* A string is copied up to its first zero.
LEMMA StringCopied ==
    ASSUME Hosted, StringAt(start, m.r, m.f, m.core), m.r[PC] = 4
    PROVE  \E n \in 0 .. 4 :
              /\ Byte(start, A + n) = 0
              /\ \A x \in 0 .. n - 1 : Byte(start, A + x) # 0
              /\ \A x \in 0 .. 5 : Byte(m, B + x) = IF x <= n THEN Byte(start, A + x) ELSE 0
              /\ m.r[1] = A + n + 1 /\ m.r[2] = B + n + 1
<1>0. \A k, x : Byte(k, x) = ByteIn(k.core, x)
  BY DEF Byte, ByteIn
<1>1. \A x \in 0 .. 5 : ByteIn(m.core, A + x) = ByteIn(start.core, A + x)
  BY DEF StringAt
<1>2. PICK k \in 0 .. 5 :
         /\ m.r[1] = A + k /\ m.r[2] = B + k
         /\ \A x \in 0 .. 5 : ByteIn(m.core, B + x) = IF x < k THEN ByteIn(start.core, A + x) ELSE 0
         /\ \A x \in 0 .. 5 : x + 1 < k => ByteIn(start.core, A + x) # 0
         /\ k > 0 /\ ByteIn(start.core, A + (k - 1)) = 0
  BY DEF StringAt
<1>3. k - 1 \in 0 .. 4 /\ k \in Int /\ A \in Int /\ B \in Int
  BY <1>2, Places
<1>4. Byte(start, A + (k - 1)) = 0
  BY <1>0, <1>2
<1>5. \A x \in 0 .. (k - 1) - 1 : Byte(start, A + x) # 0
  BY <1>0, <1>2, <1>3
<1>6. \A x \in 0 .. 5 : Byte(m, B + x) = IF x <= k - 1 THEN Byte(start, A + x) ELSE 0
  BY <1>0, <1>2, <1>3
<1>7. m.r[1] = A + (k - 1) + 1 /\ m.r[2] = B + (k - 1) + 1
  BY <1>2, <1>3
<1> QED BY <1>3, <1>4, <1>5, <1>6, <1>7

\* The assertions behind the last instructions of copies, calls, jumps and
\* accesses to the previous space say what RoutinesReturn asks.
LEMMA ReturnsMeant ==
    ASSUME Hosted, TypeOK, GuestInv
    PROVE  RoutinesReturn
<1>0. m.left \notin {"bus", "invalid"}
  BY DEF GuestInv
<1>b. Begins(start.r, start.r[0]) /\ (routine.name = "save" => start.r[0] = 0)
  BY Started
<1>p. A \in Int /\ B \in Int /\ A + 0 = A /\ B + 0 = B
  BY Places
<1>1. ASSUME Ended, routine.name = "copy"
      PROVE  /\ \A x \in {0, 2, 4} : m.core[B + x] = start.core[A + x]
             /\ m.r[1] = A + 6 /\ m.r[2] = B + 6 /\ m.r[0] = 0
  <2>1. CopyAt(start, m.r, m.f, m.core) /\ m.r[PC] = 4
    BY <1>1, GuestEnds
  <2> QED BY <1>p, <2>1 DEF CopyAt
<1>2. ASSUME Ended, routine.name = "string"
      PROVE  \E n \in 0 .. 4 :
                 /\ Byte(start, A + n) = 0
                 /\ \A x \in 0 .. n - 1 : Byte(start, A + x) # 0
                 /\ \A x \in 0 .. 5 : Byte(m, B + x) = IF x <= n THEN Byte(start, A + x) ELSE 0
                 /\ m.r[1] = A + n + 1 /\ m.r[2] = B + n + 1
  BY <1>2, GuestEnds, StringCopied
<1>3. ASSUME Ended, routine.name = "calls"
      PROVE  m.r[0] = (start.core[A] + 3) % 2^W /\ m.r[SP] = Top /\ m.r[5] = start.r[5]
  <2>1. CallsAt(start, m.r, m.f, m.core) /\ m.r[PC] = 26
    BY <1>3, GuestEnds
  <2> QED BY <1>b, <2>1 DEF CallsAt, Begins
<1>4. ASSUME Ended, routine.name = "switch"
      PROVE  m.r[5] = 3 - (start.core[A] % 4)
  <2>1. SwitchAt(start, m.r, m.f, m.core) /\ m.r[PC] = 26
    BY <1>4, GuestEnds
  <2>2. start.core[A] \in Int
    BY PlainCells, WordsInt DEF Plain, TypeOK, Machine
  <2> QED BY <2>1, <2>2 DEF SwitchAt
<1>5. ASSUME Ended, routine.name = "previous"
      PROVE  /\ m.core[B] = start.core[A] /\ m.r[1] = A + 2 /\ m.r[2] = B + 2
             /\ m.r[3] = Top /\ m.r[SP] = Top
  <2>1. PreviousAt(start, m.r, m.f, m.core) /\ m.r[PC] = 8
    BY <1>5, GuestEnds
  <2> QED BY <2>1 DEF PreviousAt
<1>6. ASSUME Ended, routine.name = "save"
      PROVE  \A q \in 0 .. SP : m.r[q] = start.r[q]
  <2>1. SaveAt(start, m.r, m.f, m.core) /\ m.r[PC] = 12
    BY <1>6, GuestEnds
  <2> QED BY <1>b, <1>6, <2>1 DEF SaveAt, Begins, SP
<1> QED BY <1>0, <1>1, <1>2, <1>3, <1>4, <1>5, <1>6 DEF RoutinesReturn, RegistersSaved, Means

-----------------------------------------------------------------------------
\* The sign of a difference is that of its remainder.
LEMMA DifferenceSigned ==
    ASSUME NEW l \in {1, 2}, NEW a \in 0 .. 2^Bits(l) - 1, NEW b \in 0 .. 2^Bits(l) - 1
    PROVE  Sign((a - b) % 2^Bits(l), l) <=> Sign(a - b, l)
<1>1. CASE W = 8 /\ l = 1
  <2>1. Bits(l) = 4
    BY <1>1 DEF Bits
  <2> QED BY <2>1 DEF Sign, Bit
<1>2. CASE W = 8 /\ l = 2
  <2>1. Bits(l) = 8
    BY <1>2 DEF Bits
  <2> QED BY <2>1 DEF Sign, Bit
<1>3. CASE W = 16 /\ l = 1
  <2>1. Bits(l) = 8
    BY <1>3 DEF Bits
  <2> QED BY <2>1 DEF Sign, Bit
<1>4. CASE W = 16 /\ l = 2
  <2>1. Bits(l) = 16
    BY <1>4 DEF Bits
  <2> QED BY <2>1 DEF Sign, Bit
<1> QED BY <1>1, <1>2, <1>3, <1>4, WidthAssumption

\* A word stands for the number two's complement says.
LEMMA SignedWords ==
    ASSUME NEW x \in Word
    PROVE  /\ SignedWord(x) = Signed(x, 2)
           /\ Sign(x, 2) <=> x >= 2^(W - 1)
           /\ SignedWord(x) = IF x >= 2^(W - 1) THEN x - 2^W ELSE x
<1>1. Bits(2) = W
  BY DEF Bits
<1>2. PICK h \in Nat \ {0} : /\ SignBit(2) = h /\ 2^W = 2 * h
                             /\ \A y \in 0 .. 2 * h - 1 : Sign(y, 2) <=> y >= h
  BY <1>1, SignDivides
<1> QED BY <1>1, <1>2 DEF SignedWord, Signed, SignBit, Word

\* Negation and doubling: V and C tell of the signed and the unsigned range.
LEMMA OneTold ==
    ASSUME NEW x \in Word, NEW f \in Flags
    PROVE  /\ NEG(x, 2, f).f.v <=> ~Fits(-SignedWord(x), 2)
           /\ NEG(x, 2, f).f.c <=> -x \notin Word
           /\ ASL(x, 2, f).f.v <=> ~Fits(2 * SignedWord(x), 2)
           /\ ASL(x, 2, f).f.c <=> 2 * x \notin Word
<1>1. Bits(2) = W
  BY DEF Bits
<1> DEFINE s == (-x) % 2^W
           u == (2 * x) % 2^W
<1>2. /\ NEG(x, 2, f).f.v <=> s = 2^(W - 1)
      /\ NEG(x, 2, f).f.c <=> s # 0
      /\ ASL(x, 2, f).f.v <=> ~(Sign(u, 2) <=> Sign(x, 2))
      /\ ASL(x, 2, f).f.c <=> Sign(x, 2)
  <2>1. \A p, q : Sign(p, q) \in BOOLEAN
    BY DEF Sign, Bit
  <2> QED BY <1>1, <2>1 DEF NEG, ASL, Result
<1>3. u \in Word
  <2>1. CASE W = 8
    BY <2>1 DEF Word
  <2>2. CASE W = 16
    BY <2>2 DEF Word
  <2> QED BY <2>1, <2>2, WidthAssumption
<1>4. (Sign(x, 2) <=> x >= 2^(W - 1)) /\ (Sign(u, 2) <=> u >= 2^(W - 1))
  BY <1>3, SignedWords
<1> DEFINE sx == SignedWord(x)
<1>5. sx = IF x >= 2^(W - 1) THEN x - 2^W ELSE x
  BY SignedWords
<1> HIDE DEF sx
<1>6. PICK h \in Nat \ {0} : 2^W = 2 * h /\ 2^(W - 1) = h /\ SignBit(2) = h
  BY <1>1, SignDivides DEF SignBit
<1>7. x \in 0 .. 2 * h - 1 /\ Word = 0 .. 2 * h - 1 /\ sx = IF x >= h THEN x - 2 * h ELSE x
  BY <1>5, <1>6 DEF Word
<1>8. s = (IF x = 0 THEN 0 ELSE 2 * h - x) /\ u = (IF x >= h THEN 2 * x - 2 * h ELSE 2 * x)
  <2>1. PICK M \in Nat \ {0} : M = 2 * h
    OBVIOUS
  <2>2. \A y \in Int : /\ -M <= y /\ y < 0 => y % M = y + M
                       /\ 0 <= y /\ y < M => y % M = y
                       /\ M <= y /\ y < 2 * M => y % M = y - M
    OBVIOUS
  <2>3. PICK y \in Int, z \in Int : /\ y = -x /\ -M <= y /\ y <= 0
                                    /\ z = 2 * x /\ 0 <= z /\ z < 2 * M
    BY <1>7, <2>1
  <2>4. s = y % M /\ u = z % M
    BY <1>6, <2>1, <2>3
  <2> HIDE DEF s, u
  <2>5. s = (IF y < 0 THEN y + M ELSE y) /\ u = (IF z < M THEN z ELSE z - M)
    BY <2>2, <2>3, <2>4
  <2> QED BY <1>7, <2>1, <2>3, <2>5
<1> HIDE DEF s, u
<1>9. /\ s = h <=> ~Fits(-sx, 2)
      /\ s # 0 <=> -x \notin Word
      /\ ~(u >= h <=> x >= h) <=> ~Fits(2 * sx, 2)
      /\ x >= h <=> 2 * x \notin Word
  BY <1>6, <1>7, <1>8 DEF Fits
<1> QED BY <1>2, <1>4, <1>6, <1>9 DEF s, u, sx

\* V and C of sums, differences and comparisons.
LEMMA TwoTold ==
    ASSUME NEW x \in Word, NEW y \in Word, NEW f \in Flags
    PROVE  /\ ADD(x, y, 2, f).f.v <=> ~Fits(SignedWord(x) + SignedWord(y), 2)
           /\ ADD(x, y, 2, f).f.c <=> x + y \notin Word
           /\ SUB(x, y, 2, f).f.v <=> ~Fits(SignedWord(y) - SignedWord(x), 2)
           /\ SUB(x, y, 2, f).f.c <=> y - x \notin Word
           /\ CMP(x, y, 2, f).f.v <=> ~Fits(SignedWord(x) - SignedWord(y), 2)
           /\ CMP(x, y, 2, f).f.c <=> x - y \notin Word
<1>1. SignedWord(x) = Signed(x, 2) /\ SignedWord(y) = Signed(y, 2)
  BY SignedWords
<1>2. 2^Bits(2) = 2^W /\ Word = 0 .. 2^Bits(2) - 1
  BY DEF Bits, Word
<1>3. /\ Taken("BVS", CMP(x, y, 2, f).f) <=> CMP(x, y, 2, f).f.v
      /\ CMP(x, y, 2, f).f.c <=> x < y
  BY DEF Taken, CMP, Result, FlagsOnly
<1>4. Taken("BVS", CMP(x, y, 2, f).f) <=> Signed(x, 2) - Signed(y, 2) \notin -SignBit(2) .. SignBit(2) - 1
  BY <1>2, BranchesCompare
<1>5. x < y <=> x - y \notin Word
  BY Places DEF Word
<1> QED BY <1>1, <1>3, <1>4, <1>5, OverflowsTold DEF Fits

\* Those behind sums, differences, negations and doublings say what V and C
\* tell.
LEMMA OverflowsMeant ==
    ASSUME Hosted, TypeOK, GuestInv, Ended, NEW op \in Telling, routine.name = op
    PROVE  LET wa == start.core[A]
               wb == start.core[B]
               v == Bit(m.r[5], 0)
               c == Bit(m.r[5], 1)
               sa == SignedWord(wa)
               sb == SignedWord(wb)
           IN /\ op = "ADD" => (v <=> ~Fits(sa + sb, 2)) /\ (c <=> wa + wb \notin Word)
              /\ op = "SUB" => (v <=> ~Fits(sb - sa, 2)) /\ (c <=> wb - wa \notin Word)
              /\ op = "CMP" => (v <=> ~Fits(sa - sb, 2)) /\ (c <=> wa - wb \notin Word)
              /\ op = "NEG" => (v <=> ~Fits(-sb, 2)) /\ (c <=> -wb \notin Word)
              /\ op = "ASL" => (v <=> ~Fits(2 * sb, 2)) /\ (c <=> 2 * wb \notin Word)
<1>1. OverflowAt(op, start, m.r, m.f, m.core) /\ m.r[PC] = 14
  BY GuestEnds
<1>2. m.r[5] = (IF Told(op, start).v THEN 1 ELSE 0) + (IF Told(op, start).c THEN 2 ELSE 0)
  BY <1>1 DEF OverflowAt
<1>3. (Bit(m.r[5], 0) <=> Told(op, start).v) /\ (Bit(m.r[5], 1) <=> Told(op, start).c)
  <2>1. /\ ~Bit(0, 0) /\ ~Bit(0, 1) /\ Bit(1, 0) /\ ~Bit(1, 1)
        /\ ~Bit(2, 0) /\ Bit(2, 1) /\ Bit(3, 0) /\ Bit(3, 1)
    BY DEF Bit
  <2> QED BY <1>2, <2>1
<1>4. start.core[A] \in Word /\ start.core[B] \in Word /\ start.f \in Flags
  BY PlainCells DEF Plain, TypeOK, Machine
<1>5. /\ op = "ADD" => Told(op, start) = ADD(start.core[A], start.core[B], 2, start.f).f
      /\ op = "SUB" => Told(op, start) = SUB(start.core[A], start.core[B], 2, start.f).f
      /\ op = "CMP" => Told(op, start) = CMP(start.core[A], start.core[B], 2, start.f).f
      /\ op = "NEG" => Told(op, start) = NEG(start.core[B], 2, start.f).f
      /\ op = "ASL" => Told(op, start) = ASL(start.core[B], 2, start.f).f
  BY DEF Told, TwoOperands, Computed2, Computed1
<1> QED BY <1>3, <1>4, <1>5, TwoTold, OneTold

\* Those behind branches say how the numbers compare.
LEMMA BranchesMeant ==
    ASSUME Hosted, TypeOK, GuestInv, Ended, routine.name \in Branches
    PROVE  LET l == start.r[0]
               a == start.core[A] % 2^Bits(l)
               b == start.core[B] % 2^Bits(l)
               sa == Signed(a, l)
               sb == Signed(b, l)
               Decides(op, holds) == routine.name = op => ((m.r[5] = 0) <=> holds)
           IN /\ Decides("BR", TRUE)
              /\ Decides("BEQ", a = b) /\ Decides("BNE", a # b)
              /\ Decides("BLT", sa < sb) /\ Decides("BGE", sa >= sb)
              /\ Decides("BLE", sa <= sb) /\ Decides("BGT", sa > sb)
              /\ Decides("BCS", a < b) /\ Decides("BCC", a >= b)
              /\ Decides("BLOS", a <= b) /\ Decides("BHI", a > b)
              /\ Decides("BVS", ~Fits(sa - sb, l)) /\ Decides("BVC", Fits(sa - sb, l))
              /\ Decides("BMI", Sign(a - b, l)) /\ Decides("BPL", ~Sign(a - b, l))
<1>1. PICK l \in {1, 2} : start.r[0] = l /\ CompareAt(routine.name, l, start, m.r, m.f, m.core)
                          /\ m.r[PC] = 6
  BY GuestEnds
<1> DEFINE a == start.core[A] % 2^Bits(l)
           b == start.core[B] % 2^Bits(l)
           c == CMP(a, b, l, start.f).f
<1>2. (m.r[5] = 0) <=> Taken(routine.name, c)
  BY <1>1 DEF CompareAt, Compared
<1>3. a \in 0 .. 2^Bits(l) - 1 /\ b \in 0 .. 2^Bits(l) - 1 /\ start.f \in Flags
  <2>1. start.core[A] \in Int /\ start.core[B] \in Int /\ start.f \in Flags
    BY PlainCells, WordsInt DEF Plain, TypeOK, Machine
  <2>2. PICK k \in Nat \ {0} : 2^Bits(l) = 2 * k
    BY SignDivides
  <2>3. \A x, n \in Int : n > 0 => x % n \in 0 .. n - 1
    OBVIOUS
  <2> QED BY <2>1, <2>2, <2>3
<1>4. Taken("BMI", c) <=> Sign(a - b, l)
  <2>1. Taken("BMI", c) <=> Sign((a - b) % 2^Bits(l), l)
    BY DEF Taken, CMP, FlagsOnly, Result
  <2> QED BY <1>3, <2>1, DifferenceSigned
<1>5. (Taken("BPL", c) <=> ~Taken("BMI", c)) /\ Taken("BR", c)
  BY DEF Taken
<1> HIDE DEF a, b, c
<1>6. LET sa == Signed(a, l)
          sb == Signed(b, l)
      IN /\ Taken("BEQ", c) <=> a = b
         /\ Taken("BNE", c) <=> a # b
         /\ Taken("BLT", c) <=> sa < sb
         /\ Taken("BGE", c) <=> sa >= sb
         /\ Taken("BLE", c) <=> sa <= sb
         /\ Taken("BGT", c) <=> sa > sb
         /\ Taken("BCS", c) <=> a < b
         /\ Taken("BCC", c) <=> a >= b
         /\ Taken("BLOS", c) <=> a <= b
         /\ Taken("BHI", c) <=> a > b
         /\ Taken("BVS", c) <=> ~Fits(sa - sb, l)
         /\ Taken("BVC", c) <=> Fits(sa - sb, l)
  BY <1>3, BranchesCompare DEF c, Fits
<1> DEFINE n == routine.name
           decided == (m.r[5] = 0)
<1>7. decided <=> Taken(n, c)
  BY <1>2
<1>8. start.core[A] % 2^Bits(start.r[0]) = a /\ start.core[B] % 2^Bits(start.r[0]) = b
  BY <1>1 DEF a, b
<1> HIDE DEF decided, n
<1>9. LET sa == Signed(a, l)
          sb == Signed(b, l)
          Decides(op, holds) == n = op => (decided <=> holds)
      IN /\ Decides("BR", TRUE)
         /\ Decides("BEQ", a = b) /\ Decides("BNE", a # b)
         /\ Decides("BLT", sa < sb) /\ Decides("BGE", sa >= sb)
         /\ Decides("BLE", sa <= sb) /\ Decides("BGT", sa > sb)
         /\ Decides("BCS", a < b) /\ Decides("BCC", a >= b)
         /\ Decides("BLOS", a <= b) /\ Decides("BHI", a > b)
         /\ Decides("BVS", ~Fits(sa - sb, l)) /\ Decides("BVC", Fits(sa - sb, l))
         /\ Decides("BMI", Sign(a - b, l)) /\ Decides("BPL", ~Sign(a - b, l))
  BY <1>4, <1>5, <1>6, <1>7
<1> QED BY <1>1, <1>8, <1>9 DEF n, decided

\* Together: what ComparisonsDecide asks.
LEMMA ComparisonsMeant ==
    ASSUME Hosted, TypeOK, GuestInv
    PROVE  ComparisonsDecide
<1>0. m.left \notin {"bus", "invalid"}
  BY DEF GuestInv
<1> QED BY <1>0, BranchesMeant, OverflowsMeant, SMTT(60) DEF ComparisonsDecide, Means, Signed, Telling

-----------------------------------------------------------------------------
(***************************************************************************)
(* What is computed at the end is what the numbers in core say.            *)
(***************************************************************************)
LEMMA Given ==
    ASSUME Hosted, TypeOK
    PROVE  /\ start.core[A] \in Word /\ start.core[A + 2] \in Word
           /\ start.core[B] \in Word /\ start.core[B + 2] \in Word
           /\ m.core[B] \in Word /\ m.core[B + 2] \in Word /\ start.f \in Flags
BY PlainCells DEF Plain, TypeOK, Machine

\* Sums, differences, negations, doubles and halves of double words.
LEMMA DoublesMeant ==
    ASSUME Hosted, TypeOK, GuestInv, Ended
    PROVE  LET aa == Double(start, A)
               bb == Double(start, B)
           IN /\ routine.name = "add" => Double(m, B) = (aa + bb) % 2^(2 * W)
              /\ routine.name = "sub" => Double(m, B) = (bb - aa) % 2^(2 * W)
              /\ routine.name = "neg" => Double(m, B) = (-bb) % 2^(2 * W)
              /\ routine.name = "asl" => Double(m, B) = (2 * bb) % 2^(2 * W)
              /\ routine.name = "lsr" => Double(m, B) = bb \div 2
<1> DEFINE a0 == start.core[A]
           a1 == start.core[A + 2]
           b0 == start.core[B]
           b1 == start.core[B + 2]
<1>1. /\ a0 \in Word /\ a1 \in Word /\ b0 \in Word /\ b1 \in Word /\ start.f \in Flags
      /\ m.core[B] \in Word /\ m.core[B + 2] \in Word
  BY Given
<1>2. /\ Double(start, A) = Doubled(a1, a0) /\ Double(start, B) = Doubled(b1, b0)
      /\ Double(m, B) = Doubled(m.core[B + 2], m.core[B])
  <2>1. \A x, y \in Word : x + 2^W * y = Doubled(y, x)
    BY Places, WordsInt DEF Doubled
  <2> QED BY <1>1, <2>1 DEF Double
<1>3. ASSUME routine.name = "add"
      PROVE  Double(m, B) = (Double(start, A) + Double(start, B)) % 2^(2 * W)
  <2>1. ChainAt("ADD", "ADC", start, m.r, m.f, m.core) /\ m.r[PC] = 6
    BY <1>3, GuestEnds
  <2> DEFINE s == ADD(a0, b0, 2, start.f)
             t == ADC(b1, 2, s.f)
             u == ADD(a1, t.val, 2, t.f)
  <2>2. m.core[B] = s.val /\ m.core[B + 2] = u.val
    BY <2>1 DEF ChainAt, Lower, Upper, Computed2, Computed1
  <2> HIDE DEF a0, a1, b0, b1
  <2>3. Doubled(u.val, s.val) = (Doubled(a1, a0) + Doubled(b1, b0)) % 2^(2 * W)
    BY <1>1, CarriesChain
  <2> QED BY <1>2, <2>2, <2>3
<1>4. ASSUME routine.name = "sub"
      PROVE  Double(m, B) = (Double(start, B) - Double(start, A)) % 2^(2 * W)
  <2>1. ChainAt("SUB", "SBC", start, m.r, m.f, m.core) /\ m.r[PC] = 6
    BY <1>4, GuestEnds
  <2> DEFINE s == SUB(a0, b0, 2, start.f)
             t == SBC(b1, 2, s.f)
             u == SUB(a1, t.val, 2, t.f)
  <2>2. m.core[B] = s.val /\ m.core[B + 2] = u.val
    BY <2>1 DEF ChainAt, Lower, Upper, Computed2, Computed1
  <2> HIDE DEF a0, a1, b0, b1
  <2>3. Doubled(u.val, s.val) = (Doubled(b1, b0) - Doubled(a1, a0)) % 2^(2 * W)
    BY <1>1, CarriesChain
  <2> QED BY <1>2, <2>2, <2>3
<1>5. ASSUME routine.name = "neg"
      PROVE  Double(m, B) = (-Double(start, B)) % 2^(2 * W)
  <2>1. NegAt(start, m.r, m.f, m.core) /\ m.r[PC] = 10
    BY <1>5, GuestEnds
  <2>2. /\ m.core[B] = NEG(b0, 2, start.f).val
        /\ m.core[B + 2] = SBC(NEG(b1, 2, start.f).val, 2, NEG(b0, 2, start.f).f).val
    BY <2>1 DEF NegAt, NegLow, NegHigh
  <2> HIDE DEF b0, b1
  <2>3. Doubled(SBC(NEG(b1, 2, start.f).val, 2, NEG(b0, 2, start.f).f).val,
                NEG(b0, 2, start.f).val) = (-Doubled(b1, b0)) % 2^(2 * W)
    BY <1>1, HalvesChain
  <2> QED BY <1>2, <2>2, <2>3
<1>6. ASSUME routine.name = "asl"
      PROVE  Double(m, B) = (2 * Double(start, B)) % 2^(2 * W)
  <2>1. AslAt(start, m.r, m.f, m.core) /\ m.r[PC] = 4
    BY <1>6, GuestEnds
  <2>2. /\ m.core[B] = ASL(b0, 2, start.f).val
        /\ m.core[B + 2] = ROL(b1, 2, ASL(b0, 2, start.f).f).val % 2^W
    BY <2>1 DEF AslAt, AslLow
  <2> HIDE DEF b0, b1
  <2>3. Doubled(ROL(b1, 2, ASL(b0, 2, start.f).f).val % 2^W, ASL(b0, 2, start.f).val)
            = (2 * Doubled(b1, b0)) % 2^(2 * W)
    BY <1>1, HalvesChain
  <2> QED BY <1>2, <2>2, <2>3
<1>7. ASSUME routine.name = "lsr"
      PROVE  Double(m, B) = Double(start, B) \div 2
  <2>1. LsrAt(start, m.r, m.f, m.core) /\ m.r[PC] = 8
    BY <1>7, GuestEnds
  <2>2. LET h == ROR(b1, 2, [start.f EXCEPT !.c = FALSE])
        IN m.core[B + 2] = h.val /\ m.core[B] = ROR(b0, 2, h.f).val
    BY <2>1 DEF LsrAt, LsrHigh
  <2> QED BY <1>1, <1>2, <2>2, HalvesChain
<1> QED BY <1>3, <1>4, <1>5, <1>6, <1>7

\* A double word counted down by halves.
LEMMA CountedDown ==
    ASSUME NEW b \in Word, NEW x \in Word, NEW lo, lo = (b - 1) % 2^W,
           NEW hi, hi = (IF b = 0 THEN (x - 1) % 2^W ELSE x),
           NEW k, k = b + 2^W * x, NEW d, d = lo + 2^W * hi
    PROVE  d = (k - 1) % 2^(2 * W)
<1>1. PICK h \in Nat \ {0}, g \in Nat \ {0} : /\ 2^W = h /\ 2^(2 * W) = g
                                             /\ \/ h = 256 /\ g = 65536
                                                \/ h = 65536 /\ g = 4294967296
  BY Powers
<1>2. b \in 0 .. h - 1 /\ x \in 0 .. h - 1
  BY <1>1 DEF Word
<1>3. PICK y \in Int : y = b + h * x - 1 /\ (k - 1) % 2^(2 * W) = y % g
  BY <1>1, <1>2
<1>4. -1 <= y /\ y < g
  BY <1>1, <1>2, <1>3
<1>5. \A z \in Int : /\ -1 <= z /\ z < g => z % g = IF z < 0 THEN g - 1 ELSE z
                     /\ -1 <= z /\ z < h => z % h = IF z < 0 THEN h - 1 ELSE z
  <2>1. CASE h = 256 /\ g = 65536
    BY <2>1
  <2>2. CASE h = 65536 /\ g = 4294967296
    BY <2>2
  <2> QED BY <1>1, <2>1, <2>2
<1>6. y % g = IF y < 0 THEN g - 1 ELSE y
  BY <1>4, <1>5
<1>7. /\ (b - 1) % h = (IF b = 0 THEN h - 1 ELSE b - 1)
      /\ (x - 1) % h = (IF x = 0 THEN h - 1 ELSE x - 1)
  <2>1. PICK v \in Int, w \in Int : v = b - 1 /\ w = x - 1 /\ -1 <= v /\ v < h /\ -1 <= w /\ w < h
    BY <1>2
  <2>2. v % h = (IF v < 0 THEN h - 1 ELSE v) /\ w % h = (IF w < 0 THEN h - 1 ELSE w)
    BY <1>5, <2>1
  <2>3. (v < 0 <=> b = 0) /\ (w < 0 <=> x = 0)
    BY <1>2, <2>1
  <2> QED BY <2>1, <2>2, <2>3
<1>8. d = lo + h * hi /\ lo = (b - 1) % h /\ hi = IF b = 0 THEN (x - 1) % h ELSE x
  BY <1>1
<1>9. CASE b = 0 /\ x = 0
  <2>1. lo = h - 1 /\ hi = h - 1 /\ y = -1
    BY <1>2, <1>3, <1>7, <1>8, <1>9
  <2> QED BY <1>1, <1>3, <1>6, <1>8, <2>1
<1>10. CASE b = 0 /\ x # 0
  <2>1. lo = h - 1 /\ hi = x - 1 /\ y = h * x - 1 /\ x \in Int /\ x > 0
    BY <1>2, <1>3, <1>7, <1>8, <1>10
  <2>2. d = y /\ ~(y < 0)
    BY <1>1, <1>8, <2>1
  <2> QED BY <1>3, <1>6, <2>2
<1>11. CASE b # 0
  <2>1. lo = b - 1 /\ hi = x /\ ~(y < 0)
    BY <1>1, <1>2, <1>3, <1>7, <1>8, <1>11
  <2> QED BY <1>1, <1>2, <1>3, <1>6, <1>8, <2>1
<1> QED BY <1>9, <1>10, <1>11

\* Double words counted up and down.
LEMMA CountsMeant ==
    ASSUME Hosted, TypeOK, GuestInv, Ended
    PROVE  LET sa == SignedWord(start.core[A])
               bb == Double(start, B)
           IN /\ routine.name = "sxt" => SignedLong(Double(m, B)) = sa
              /\ routine.name = "inc" => Double(m, B) = (bb + 1) % 2^(2 * W)
              /\ routine.name = "dec" => Double(m, B) = (bb - 1) % 2^(2 * W)
<1> DEFINE a == start.core[A]
           b == start.core[B]
           x == start.core[B + 2]
<1>1. a \in Word /\ b \in Word /\ x \in Word
  BY Given
<1>2. ASSUME routine.name = "sxt"
      PROVE  SignedLong(Double(m, B)) = SignedWord(start.core[A])
  <2>1. SxtAt(start, m.r, m.f, m.core) /\ m.r[PC] = 4
    BY <1>2, GuestEnds
  <2>2. m.core[B] = a /\ m.core[B + 2] = IF Sign(a, 2) THEN 2^W - 1 ELSE 0
    BY <2>1 DEF SxtAt
  <2>3. /\ Sign(a, 2) <=> a >= 2^(W - 1)
        /\ SignedWord(a) = IF a >= 2^(W - 1) THEN a - 2^W ELSE a
    BY <1>1, SignedWords
  <2> HIDE DEF a
  <2> QED BY <1>1, <2>2, <2>3, Powers DEF SignedLong, Double, Word, a
<1>3. ASSUME routine.name = "inc"
      PROVE  Double(m, B) = (Double(start, B) + 1) % 2^(2 * W)
  <2>1. IncAt(start, m.r, m.f, m.core) /\ m.r[PC] = 8
    BY <1>3, GuestEnds
  <2>2. /\ m.core[B] = (b + 1) % 2^W
        /\ m.core[B + 2] = IF (b + 1) % 2^W = 0 THEN (x + 1) % 2^W ELSE x
    BY <2>1 DEF IncAt
  <2>3. Double(m, B) = m.core[B] + 2^W * m.core[B + 2] /\ Double(start, B) = b + 2^W * x
    BY DEF Double
  <2> HIDE DEF b, x
  <2> QED BY <1>1, <2>2, <2>3, Powers DEF Word
<1>4. ASSUME routine.name = "dec"
      PROVE  Double(m, B) = (Double(start, B) - 1) % 2^(2 * W)
  <2>1. DecAt(start, m.r, m.f, m.core) /\ m.r[PC] = 10
    BY <1>4, GuestEnds
  <2>2. /\ m.core[B] = (b - 1) % 2^W
        /\ m.core[B + 2] = IF b = 0 THEN (x - 1) % 2^W ELSE x
    BY <2>1 DEF DecAt
  <2>3. Double(m, B) = m.core[B] + 2^W * m.core[B + 2] /\ Double(start, B) = b + 2^W * x
    BY DEF Double
  <2> HIDE DEF b, x
  <2> QED BY <1>1, <2>2, <2>3, CountedDown
<1> QED BY <1>2, <1>3, <1>4

\* ASR halves the number a word stands for, rounding down.
LEMMA WordHalved ==
    ASSUME NEW x \in Word, NEW f, NEW s, s = ASR(x, 2, f).val % 2^W
    PROVE  SignedWord(s) = SignedWord(x) \div 2
<1>1. ASR(x, 2, f).val = x \div 2 + (IF Sign(x, 2) THEN SignBit(2) ELSE 0)
  BY DEF ASR, Result
<1>2. SignBit(2) = 2^(W - 1) /\ (Sign(x, 2) <=> x >= 2^(W - 1))
  BY SignedWords DEF SignBit, Bits
<1>3. CASE x >= 2^(W - 1)
  <2>1. s = (x \div 2 + 2^(W - 1)) % 2^W
    BY <1>1, <1>2, <1>3
  <2> QED BY <1>3, <2>1, Powers DEF SignedWord, Word
<1>4. CASE ~(x >= 2^(W - 1))
  <2>1. s = (x \div 2 + 0) % 2^W
    BY <1>1, <1>2, <1>4
  <2> QED BY <1>4, <2>1, Powers DEF SignedWord, Word
<1> QED BY <1>3, <1>4

\* ASRB that of a byte.
LEMMA ByteHalved ==
    ASSUME NEW y \in 0 .. ByteSize - 1, NEW f
    PROVE  ASR(y, 1, f).val % ByteSize = (SignedByte(y) \div 2) % ByteSize
<1>1. ASR(y, 1, f).val = y \div 2 + (IF Sign(y, 1) THEN SignBit(1) ELSE 0)
  BY DEF ASR, Result
<1>2. PICK h \in Nat \ {0} : /\ SignBit(1) = h /\ ByteSize = 2 * h /\ h \in {8, 128}
                             /\ Sign(y, 1) <=> y >= h
  <2>1. PICK h \in Nat \ {0} : /\ SignBit(1) = h /\ 2^Bits(1) = 2 * h
                               /\ \A x \in 0 .. 2 * h - 1 : Sign(x, 1) <=> x >= h
    BY SignDivides
  <2>2. 2^Bits(1) = ByteSize
    BY DEF Bits, ByteSize
  <2>3. h \in {8, 128}
    BY <2>1, <2>2, Powers
  <2> QED BY <2>1, <2>2, <2>3
<1>3. CASE y >= h
  <2>1. ASR(y, 1, f).val = y \div 2 + h /\ SignedByte(y) = y - 2 * h
    BY <1>1, <1>2, <1>3 DEF SignedByte
  <2>2. y \in 0 .. 2 * h - 1
    BY <1>2
  <2>3. CASE h = 8
    BY <1>2, <2>1, <2>2, <2>3
  <2>4. CASE h = 128
    BY <1>2, <2>1, <2>2, <2>4
  <2> QED BY <1>2, <2>3, <2>4
<1>4. CASE ~(y >= h)
  <2>1. ASR(y, 1, f).val = y \div 2 + 0 /\ SignedByte(y) = y
    BY <1>1, <1>2, <1>4 DEF SignedByte
  <2> QED BY <1>2, <2>1
<1> QED BY <1>3, <1>4

\* The bits of a word.
LEMMA WordBits ==
    ASSUME NEW x \in Word
    PROVE  {k \in 0 .. W - 1 : Bit(x, k)} = BitsOf(x)
<1>1. W \in 0 .. 2 * W /\ x \in 0 .. 2^W - 1
  BY WidthAssumption DEF Word
<1>2. BitsOf(x) \subseteq 0 .. W - 1
  BY <1>1, BitsFromBits
<1>3. 0 .. W - 1 \subseteq 0 .. 2 * W - 1
  BY WidthAssumption
<1> QED BY <1>2, <1>3 DEF BitsOf

\* A byte moved to a register is the upper half of its word, extended.
LEMMA BytesExtended ==
    ASSUME NEW x \in Word, NEW z, z = MovedWord(x \div ByteSize, 1, Pseudo + 3) % 2^(2 * W)
    PROVE  SignedWord(z) = Shifted(SignedWord(x), -(W \div 2))
<1> DEFINE y == x \div ByteSize
<1>1. y \in 0 .. ByteSize - 1
  BY BytesTold
<1>2. PICK h \in Nat \ {0} : SignBit(1) = h /\ ByteSize = 2 * h /\ (Sign(y, 1) <=> y >= h)
  <2>1. PICK h \in Nat \ {0} : /\ SignBit(1) = h /\ 2^Bits(1) = 2 * h
                               /\ \A v \in 0 .. 2 * h - 1 : Sign(v, 1) <=> v >= h
    BY SignDivides
  <2>2. 2^Bits(1) = ByteSize
    BY DEF Bits, ByteSize
  <2> QED BY <1>1, <2>1, <2>2
<1>3. Pseudo + 3 \in Pseudo .. Pseudo + 7
  BY ByteSizeTyped
<1>4. MovedWord(y, 1, Pseudo + 3) = IF y >= h THEN y + 2^W - ByteSize ELSE y
  BY <1>2, <1>3 DEF MovedWord, IsReg
<1>5. SignedWord(x) = IF x >= 2^(W - 1) THEN x - 2^W ELSE x
  BY SignedWords
<1>6. Shifted(SignedWord(x), -(W \div 2)) = SignedWord(x) \div ByteSize
  <2>1. W \div 2 \in Int /\ W \div 2 > 0
    BY WidthAssumption
  <2>2. ~(-(W \div 2) >= 0) /\ -(-(W \div 2)) = W \div 2
    BY <2>1
  <2> QED BY <2>2 DEF Shifted, ByteSize
<1>7. y >= h <=> x >= 2^(W - 1)
  BY <1>2, Powers DEF Word
<1>8. CASE x >= 2^(W - 1)
  <2>1. z = (y + 2^W - ByteSize) % 2^(2 * W) /\ SignedWord(x) = x - 2^W
    BY <1>4, <1>5, <1>7, <1>8

  <2>2. z = y + 2^W - ByteSize
    BY <1>1, <2>1, Powers
  <2>3. z >= 2^(W - 1)
    BY <1>2, <1>7, <1>8, <2>2, <1>1, Powers
  <2>4. SignedWord(z) = y - ByteSize
    BY <1>1, <2>2, <2>3, Powers DEF SignedWord
  <2>5. (x - 2^W) \div ByteSize = y - ByteSize
    BY Powers DEF Word
  <2> QED BY <1>6, <2>1, <2>4, <2>5
<1>9. CASE ~(x >= 2^(W - 1))
  <2>1. z = y % 2^(2 * W) /\ SignedWord(x) = x
    BY <1>4, <1>5, <1>7, <1>9
  <2>2. z = y
    BY <1>1, <2>1, Powers
  <2>3. SignedWord(y) = y
    BY <1>1, Powers DEF SignedWord
  <2> QED BY <1>6, <2>1, <2>2, <2>3
<1> QED BY <1>8, <1>9

\* Ones counted, bits combined and bytes moved, halved and extended.
LEMMA BitsMeant ==
    ASSUME Hosted, TypeOK, GuestInv, Ended
    PROVE  LET a == start.core[A]
               b == start.core[B]
               sa == SignedWord(a)
           IN /\ routine.name = "half" =>
                     IF start.r[0] = 2 THEN SignedWord(m.core[B]) = SignedWord(b) \div 2
                     ELSE m.core[B] = (b - (b % ByteSize))
                                      + ((SignedByte(b % ByteSize) \div 2) % ByteSize)
              /\ routine.name = "ones" => m.r[5] = Cardinality({k \in 0 .. W - 1 : Bit(a, k)})
              /\ routine.name = "xor" => m.r[3] = m.core[B] /\ a + b = m.core[B] + 2 * m.r[5]
              /\ routine.name = "bytes" =>
                     /\ m.core[B] = (a % ByteSize) * ByteSize + a \div ByteSize
                     /\ SignedWord(m.r[3]) = Shifted(sa, -(W \div 2))
<1> DEFINE a == start.core[A]
           b == start.core[B]
<1>1. a \in Word /\ b \in Word /\ m.core[B] \in Word
  BY Given
<1>2. ASSUME routine.name = "half"
      PROVE  IF start.r[0] = 2 THEN SignedWord(m.core[B]) = SignedWord(b) \div 2
             ELSE m.core[B] = (b - (b % ByteSize))
                              + ((SignedByte(b % ByteSize) \div 2) % ByteSize)
  <2>1. PICK l \in {1, 2} : start.r[0] = l /\ HalfAt(l, start, m.r, m.f, m.core) /\ m.r[PC] = 2
    BY <1>2, GuestEnds
  <2>2. CASE l = 2
    <3>1. m.core[B] = ASR(b, 2, start.f).val % 2^W
      BY <2>1, <2>2 DEF HalfAt
    <3> QED BY <1>1, <2>1, <2>2, <3>1, WordHalved
  <2>3. CASE l = 1
    <3>1. m.core[B] = (b \div ByteSize) * ByteSize + (ASR(b % ByteSize, 1, start.f).val % ByteSize)
      BY <2>1, <2>3 DEF HalfAt
    <3> HIDE DEF b
    <3>2. /\ b = ByteSize * (b \div ByteSize) + (b % ByteSize) /\ b % ByteSize \in 0 .. ByteSize - 1
          /\ b \in Int /\ b \div ByteSize \in Int /\ ByteSize \in Int
      <4>1. ByteSize \in Nat \ {0} /\ b \in Int
        BY <1>1, WordsInt, ByteSizeTyped
      <4> QED BY <4>1, Remainders
    <3>3. ASR(b % ByteSize, 1, start.f).val % ByteSize = (SignedByte(b % ByteSize) \div 2) % ByteSize
      BY <3>2, ByteHalved
    <3>4. b - (b % ByteSize) = (b \div ByteSize) * ByteSize
      BY <3>2
    <3> QED BY <2>1, <2>3, <3>1, <3>3, <3>4
  <2> QED BY <2>2, <2>3
<1>3. ASSUME routine.name = "ones"
      PROVE  m.r[5] = Cardinality({k \in 0 .. W - 1 : Bit(a, k)})
  <2>1. OnesAt(start, m.r, m.f, m.core) /\ m.r[PC] = 12
    BY <1>3, GuestEnds
  <2>2. m.r[0] = 0 /\ m.r[5] \in Nat /\ m.r[5] + OnesIn(m.r[0]) + 0 = OnesIn(a)
    BY <2>1 DEF OnesAt
  <2>3. m.r[5] = OnesIn(a)
    BY <2>2, OnesBounded
  <2> QED BY <1>1, <2>3, WordBits DEF OnesIn
<1>4. ASSUME routine.name = "xor"
      PROVE  m.r[3] = m.core[B] /\ a + b = m.core[B] + 2 * m.r[5]
  <2>1. XorAt(start, m.r, m.f, m.core) /\ m.r[PC] = 22
    BY <1>4, GuestEnds
  <2>2. m.r[3] = Xor(a, b) /\ m.core[B] = Xor(a, b) /\ m.r[5] = And(a, b)
    BY <2>1 DEF XorAt
  <2>3. a \in Long /\ b \in Long
    BY <1>1, WordsInt
  <2> QED BY <2>2, <2>3, XorAdds
<1>5. ASSUME routine.name = "bytes"
      PROVE  /\ m.core[B] = (a % ByteSize) * ByteSize + a \div ByteSize
             /\ SignedWord(m.r[3]) = Shifted(SignedWord(a), -(W \div 2))
  <2>1. BytesAt(start, m.r, m.f, m.core) /\ m.r[PC] = 14
    BY <1>5, GuestEnds
  <2>2. /\ ByteIn(m.core, B) = a \div ByteSize /\ ByteIn(m.core, B + 1) = a % ByteSize
        /\ m.r[3] = MovedWord(a \div ByteSize, 1, Pseudo + 3) % 2^(2 * W)
    BY <2>1 DEF BytesAt
  <2>3. m.core[B] % ByteSize = a \div ByteSize /\ m.core[B] \div ByteSize = a % ByteSize
    BY <2>2, PlainCells, PlainBytes
  <2> HIDE DEF a
  <2>4. m.core[B] = (a % ByteSize) * ByteSize + a \div ByteSize
    <3>1. m.core[B] = ByteSize * (m.core[B] \div ByteSize) + (m.core[B] % ByteSize)
      BY <1>1, BytesTold
    <3>2. a \div ByteSize \in Int /\ a % ByteSize \in Int /\ ByteSize \in Int
      BY <1>1, BytesTold, ByteSizeTyped
    <3> QED BY <2>3, <3>1, <3>2
  <2>5. SignedWord(m.r[3]) = Shifted(SignedWord(a), -(W \div 2))
    BY <1>1, <2>2, BytesExtended
  <2> QED BY <2>4, <2>5
<1> QED BY <1>2, <1>3, <1>4, <1>5

\* The operands of MUL and DIV are the numbers words stand for.
LEMMA ExtendedMeans ==
    ASSUME NEW x \in Word
    PROVE  Extended(x) = SignedWord(x) /\ SignedWord(x) \in -(2^(W - 1)) .. 2^(W - 1) - 1
<1>1. (Sign(x, 2) <=> x >= 2^(W - 1)) /\ SignedWord(x) = IF x >= 2^(W - 1) THEN x - 2^W ELSE x
  BY SignedWords
<1>2. CASE x >= 2^(W - 1)
  <2>1. x % 2^(W - 1) = x - 2^(W - 1) /\ x - 2^(W - 1) - 2^(W - 1) = x - 2^W
    BY <1>2, Powers DEF Word
  <2>2. x - 2^W \in -(2^(W - 1)) .. 2^(W - 1) - 1
    BY <1>2, Powers DEF Word
  <2> QED BY <1>1, <1>2, <2>1, <2>2 DEF Extended
<1>3. CASE ~(x >= 2^(W - 1))
  <2>1. SignedLong(x) = x /\ x \in -(2^(W - 1)) .. 2^(W - 1) - 1
    BY <1>3, Powers DEF Word, SignedLong
  <2> QED BY <1>1, <1>3, <2>1 DEF Extended
<1> QED BY <1>2, <1>3

\* The two words of a number are its remainder; a number that fits is the
\* signed one of its remainder.
LEMMA WordsJoin ==
    ASSUME NEW d \in Int
    PROVE  2^W * ((d \div 2^W) % 2^W) + (d % 2^W) = d % 2^(2 * W)
<1>1. PICK h \in Nat \ {0}, g \in Nat \ {0} : /\ 2^W = h /\ 2^(2 * W) = g
                                             /\ \/ h = 256 /\ g = 65536
                                                \/ h = 65536 /\ g = 4294967296
  BY Powers
<1>2. PICK q \in Int, r \in 0 .. h - 1 : d = h * q + r /\ d \div h = q /\ d % h = r
  BY Remainders
<1>3. PICK p \in Int, s \in 0 .. h - 1 : q = h * p + s /\ q % h = s
  BY Remainders
<1>4. PICK t \in 0 .. g - 1 : t = h * s + r /\ d = g * p + t
  BY <1>1, <1>2, <1>3
<1>5. d % g = t
  <2>1. g \in Nat \ {0} /\ p \in Int /\ t \in 0 .. g - 1 /\ d = g * p + t
    BY <1>1, <1>3, <1>4
  <2> QED BY <2>1, Divided
<1> QED BY <1>1, <1>2, <1>3, <1>4, <1>5

\* A signed number cut to a word or two of them is still that number.
LEMMA SignedRemainders ==
    /\ \A d \in -(2^(W - 1)) .. 2^(W - 1) - 1 : SignedWord(d % 2^W) = d
    /\ \A d \in -(2^(2 * W - 1)) .. 2^(2 * W - 1) - 1 : SignedLong(d % 2^(2 * W)) = d
<1>1. ASSUME NEW h \in Nat \ {0}, NEW n, n = 2 * h, NEW d \in -h .. h - 1
      PROVE  d % n = IF d < 0 THEN d + n ELSE d
  <2>1. n \in Nat \ {0} /\ d \in Int
    BY <1>1
  <2>2. CASE d < 0
    <3>1. d \in -n .. -1
      BY <1>1, <2>2
    <3> QED BY <2>1, <2>2, <3>1, Wraps
  <2>3. CASE ~(d < 0)
    <3>1. d \in 0 .. n - 1
      BY <1>1, <2>3
    <3> QED BY <2>1, <2>3, <3>1, Small
  <2> QED BY <2>2, <2>3
<1>2. /\ 2^(W - 1) \in Nat \ {0} /\ 2^W = 2 * 2^(W - 1)
      /\ 2^(2 * W - 1) \in Nat \ {0} /\ 2^(2 * W) = 2 * 2^(2 * W - 1)
  BY Powers
<1>3. ASSUME NEW d \in -(2^(W - 1)) .. 2^(W - 1) - 1
      PROVE  SignedWord(d % 2^W) = d
  <2>1. d % 2^W = IF d < 0 THEN d + 2^W ELSE d
    BY <1>1, <1>2
  <2> QED BY <1>2, <2>1 DEF SignedWord
<1>4. ASSUME NEW d \in -(2^(2 * W - 1)) .. 2^(2 * W - 1) - 1
      PROVE  SignedLong(d % 2^(2 * W)) = d
  <2>1. d % 2^(2 * W) = IF d < 0 THEN d + 2^(2 * W) ELSE d
    BY <1>1, <1>2
  <2> QED BY <1>2, <2>1 DEF SignedLong
<1> QED BY <1>3, <1>4

\* The product of two bounded numbers.
LEMMA ProductBounded ==
    ASSUME NEW h \in Nat, NEW x \in -h .. h, NEW y \in -h .. h
    PROVE  x * y \in -(h * h) .. h * h
<1>1. \A p, q \in Nat : p * q >= 0
  OBVIOUS
<1>2. h - x \in Nat /\ h + x \in Nat /\ h - y \in Nat /\ h + y \in Nat
  OBVIOUS
<1>3. /\ (h - x) * (h + y) >= 0 /\ (h + x) * (h - y) >= 0
      /\ (h - x) * (h - y) >= 0 /\ (h + x) * (h + y) >= 0
  BY <1>1, <1>2
<1>4. /\ (h - x) * (h + y) + (h + x) * (h - y) = 2 * (h * h) - 2 * (x * y)
      /\ (h - x) * (h - y) + (h + x) * (h + y) = 2 * (h * h) + 2 * (x * y)
  OBVIOUS
<1> QED BY <1>3, <1>4

\* Products, of one and of two words.
LEMMA ProductsMeant ==
    ASSUME Hosted, TypeOK, GuestInv, Ended
    PROVE  LET sa == SignedWord(start.core[A])
               sb == SignedWord(start.core[B])
           IN /\ routine.name = "mul" => SignedLong(2^W * m.r[0] + m.r[0 + 1]) = sa * sb
              /\ routine.name = "mul1" => m.r[3] = (sa * sb) % 2^W
<1> DEFINE sa == SignedWord(start.core[A])
           sb == SignedWord(start.core[B])
           d == sa * sb
           h == 2^(W - 1)
<1>1. /\ Extended(start.core[A]) = sa /\ Extended(start.core[B]) = sb
      /\ sa \in -h .. h - 1 /\ sb \in -h .. h - 1
  BY Given, ExtendedMeans
<1>2. MUL(start.core[A], start.core[B]).hi = (d \div 2^W) % 2^W
      /\ MUL(start.core[A], start.core[B]).lo = d % 2^W
  BY <1>1 DEF MUL, Registers
<1> HIDE DEF sa, sb
<1>3. d \in -(2^(2 * W - 1)) .. 2^(2 * W - 1) - 1 /\ d \in Int
  <2>1. h \in Nat /\ h * h < 2^(2 * W - 1)
    BY Powers
  <2>2. sa \in -h .. h /\ sb \in -h .. h
    BY <1>1, <2>1
  <2> HIDE DEF h
  <2>3. sa * sb \in -(h * h) .. h * h
    BY <2>1, <2>2, ProductBounded
  <2> QED BY <2>1, <2>3, Powers
<1> HIDE DEF d
<1>4. ASSUME routine.name = "mul"
      PROVE  SignedLong(2^W * m.r[0] + m.r[0 + 1]) = d
  <2>1. MulAt(0, start, m.r, m.f, m.core) /\ m.r[PC] = 4
    BY <1>4, GuestEnds
  <2>2. m.r[0] = (d \div 2^W) % 2^W /\ m.r[1] = d % 2^W /\ 0 + 1 = 1
    BY <1>2, <2>1 DEF MulAt
  <2>3. 2^W * ((d \div 2^W) % 2^W) + (d % 2^W) = d % 2^(2 * W)
    BY <1>3, WordsJoin
  <2> QED BY <1>3, <2>2, <2>3, SignedRemainders
<1>5. ASSUME routine.name = "mul1"
      PROVE  m.r[3] = d % 2^W
  <2>1. MulAt(3, start, m.r, m.f, m.core) /\ m.r[PC] = 4
    BY <1>5, GuestEnds
  <2> QED BY <1>2, <2>1 DEF MulAt
<1> QED BY <1>4, <1>5 DEF d, sa, sb

\* The quotient toward zero is the only number that divides with a remainder of
\* the sign of the dividend.
LEMMA QuotientDivides ==
    ASSUME NEW n \in Int, NEW d \in Int, d # 0, NEW q \in Int
    PROVE  Divides(n, d, q) <=> q = Quotient(n, d)
<1>1. PICK x \in Nat : x = IF n < 0 THEN -n ELSE n
  OBVIOUS
<1>2. PICK y \in Nat \ {0} : y = IF d < 0 THEN -d ELSE d
  OBVIOUS
<1>3. PICK k \in Int, r \in 0 .. y - 1 : x = y * k + r /\ x \div y = k
  BY Remainders
<1>4. Quotient(n, d) = IF (n < 0) # (d < 0) THEN -k ELSE k
  BY <1>1, <1>2, <1>3 DEF Quotient
<1>5. PICK e \in Int : e = n - q * d
  OBVIOUS
<1>6. Divides(n, d, q) <=> /\ (IF e < 0 THEN -e ELSE e) < y
                           /\ e = 0 \/ (e < 0 <=> n < 0)
  BY <1>2, <1>5 DEF Divides, Absolute
<1>7. \A p \in Int, g \in 0 .. y - 1 : y * k + r = y * p + g => k = p /\ r = g
  BY RemaindersAgree
<1>8. CASE n >= 0 /\ d > 0
  <2>1. x = n /\ y = d /\ Quotient(n, d) = k
    BY <1>1, <1>2, <1>4, <1>8
  <2>2. q = k => e = r
    BY <1>3, <1>5, <2>1
  <2>3. e \in 0 .. y - 1 => y * k + r = y * q + e
    BY <1>3, <1>5, <2>1
  <2>4. Divides(n, d, q) <=> e \in 0 .. y - 1
    BY <1>6, <1>8, <2>1
  <2> QED BY <1>7, <2>1, <2>2, <2>3, <2>4
<1>9. CASE n >= 0 /\ d < 0
  <2>1. x = n /\ y = -d /\ Quotient(n, d) = -k
    BY <1>1, <1>2, <1>4, <1>9
  <2>2. q = -k => e = r
    BY <1>3, <1>5, <2>1
  <2>3. PICK p \in Int : p = -q
    OBVIOUS
  <2>4. e \in 0 .. y - 1 => y * k + r = y * p + e
    BY <1>3, <1>5, <2>1, <2>3
  <2>5. Divides(n, d, q) <=> e \in 0 .. y - 1
    BY <1>6, <1>9, <2>1
  <2> QED BY <1>7, <2>1, <2>2, <2>3, <2>4, <2>5
<1>10. CASE n < 0 /\ d > 0
  <2>1. x = -n /\ y = d /\ Quotient(n, d) = -k
    BY <1>1, <1>2, <1>4, <1>10
  <2>2. PICK p \in Int, g \in Int : p = -q /\ g = -e
    OBVIOUS
  <2>3. q = -k => g = r
    BY <1>3, <1>5, <2>1, <2>2
  <2>4. g \in 0 .. y - 1 => y * k + r = y * p + g
    BY <1>3, <1>5, <2>1, <2>2
  <2>5. Divides(n, d, q) <=> g \in 0 .. y - 1
    BY <1>6, <1>10, <2>1, <2>2
  <2> QED BY <1>7, <2>1, <2>2, <2>3, <2>4, <2>5
<1>11. CASE n < 0 /\ d < 0
  <2>1. x = -n /\ y = -d /\ Quotient(n, d) = k
    BY <1>1, <1>2, <1>4, <1>11
  <2>2. PICK g \in Int : g = -e
    OBVIOUS
  <2>3. q = k => g = r
    BY <1>3, <1>5, <2>1, <2>2
  <2>4. g \in 0 .. y - 1 => y * k + r = y * q + g
    BY <1>3, <1>5, <2>1, <2>2
  <2>5. Divides(n, d, q) <=> g \in 0 .. y - 1
    BY <1>6, <1>11, <2>1, <2>2
  <2> QED BY <1>7, <2>1, <2>2, <2>3, <2>4, <2>5
<1> QED BY <1>8, <1>9, <1>10, <1>11

\* DIV's quotient and remainder, or the overflow it tells.
LEMMA DivisionTold ==
    ASSUME NEW hi \in Word, NEW lo \in Word, NEW b \in Word, NEW z, z = DIV(hi, lo, b),
           NEW n, n = SignedLong(2^W * hi + lo), NEW d, d = SignedWord(b)
    PROVE  /\ z.f.v <=> d = 0 \/ ~\E q \in -(2^(W - 1)) .. 2^(W - 1) - 1 : Divides(n, d, q)
           /\ ~z.f.v => /\ z.store
                        /\ Divides(n, d, SignedWord(z.hi % 2^(2 * W)))
                        /\ n = SignedWord(z.hi % 2^(2 * W)) * d + SignedWord(z.lo % 2^(2 * W))
<1> DEFINE h == 2^(W - 1)
           s == Quotient(n, d)
<1>1. Extended(b) = d /\ d \in -h .. h - 1
  BY ExtendedMeans
<1>2. SignedLong(Paired(hi, lo)) = n
  BY PairedMeans
<1>3. b = 0 <=> d = 0
  <2>1. d = IF b >= 2^(W - 1) THEN b - 2^W ELSE b
    BY SignedWords
  <2> QED BY <2>1, Powers DEF Word
<1>4. h \in Nat \ {0} /\ 2^(2 * W - 1) \in Int /\ 2^(2 * W - 1) >= h /\ 2^W = 2 * h
  BY Powers
<1>5. n \in Int
  BY Powers DEF SignedLong, Word
<1>6. CASE b = 0
  <2>1. z.f.v = TRUE
    BY <1>6 DEF DIV, FlagsOnly, Registers
  <2> QED BY <1>3, <1>6, <2>1
<1>7. CASE b # 0 /\ n = -(2^(2 * W - 1)) /\ b = 2^W - 1
  <2>1. z.f.v = TRUE
    BY <1>2, <1>7 DEF DIV, FlagsOnly, Registers
  <2>2. d = -1
    <3>1. d = IF b >= 2^(W - 1) THEN b - 2^W ELSE b
      BY SignedWords
    <3> QED BY <1>7, <3>1, Powers
  <2>3. s = 2^(2 * W - 1)
    <3>1. n < 0 /\ -n = 2^(2 * W - 1) /\ -d = 1 /\ d < 0 /\ 2^(2 * W - 1) \div 1 = 2^(2 * W - 1)
      BY <1>4, <1>7, <2>2
    <3> QED BY <3>1 DEF Quotient
  <2>4. \A q \in -h .. h - 1 : ~Divides(n, d, q)
    <3>1. \A q \in -h .. h - 1 : q # s
      BY <1>4, <2>3
    <3> QED BY <1>1, <1>4, <1>5, <2>2, <3>1, QuotientDivides
  <2> QED BY <2>1, <2>4
<1>8. CASE b # 0 /\ ~(n = -(2^(2 * W - 1)) /\ b = 2^W - 1)
  <2>0. d # 0 /\ d \in Int
    BY <1>1, <1>3, <1>4, <1>8
  <2>s. s \in Int
    BY <1>5, <2>0, QuotientTyped
  <2>d. \A q \in Int : Divides(n, d, q) <=> q = s
    BY <1>5, <2>0, QuotientDivides
  <2>1. CASE s >= h \/ s < -h
    <3>1. z.f.v = TRUE
      BY <1>1, <1>2, <1>8, <2>1 DEF DIV, FlagsOnly, Registers
    <3> HIDE DEF s
    <3>2. \A q \in -h .. h - 1 : q # s /\ q \in Int
      BY <1>4, <2>1, <2>s
    <3> QED BY <2>d, <3>1, <3>2
  <2>2. CASE ~(s >= h \/ s < -h)
    <3>1. /\ z.f.v = FALSE /\ z.store = TRUE
          /\ z.hi = s % 2^W /\ z.lo = (n - d * s) % 2^W
      BY <1>1, <1>2, <1>8, <2>2 DEF DIV, Registers
    <3> HIDE DEF s
    <3>2. s \in -h .. h - 1
      BY <1>4, <2>2, <2>s
    <3>3. PICK r \in Int : r = n - s * d /\ r = n - d * s
      BY <1>5, <2>0, <2>s
    <3>4. r \in -h .. h - 1
      <4>1. Divides(n, d, s)
        BY <2>d, <2>s
      <4>2. Absolute(r) < Absolute(d)
        BY <3>3, <4>1 DEF Divides
      <4> QED BY <1>1, <1>4, <4>2 DEF Absolute
    <3>5. z.hi \in Word /\ z.lo \in Word
      <4>1. \A y \in Int : y % 2^W \in 0 .. 2^W - 1
        BY <1>4
      <4> QED BY <2>s, <3>1, <3>3, <4>1 DEF Word
    <3>6. z.hi % 2^(2 * W) = z.hi /\ z.lo % 2^(2 * W) = z.lo
      BY <3>5, LongWord
    <3>7. SignedWord(z.hi) = s /\ SignedWord(z.lo) = r
      BY <3>1, <3>2, <3>3, <3>4, SignedRemainders
    <3>8. n = s * d + r
      BY <1>5, <2>0, <2>s, <3>3
    <3> QED BY <2>0, <2>d, <2>s, <3>1, <3>2, <3>6, <3>7, <3>8
  <2> QED BY <2>1, <2>2
<1> QED BY <1>6, <1>7, <1>8

\* Quotients and remainders.
LEMMA QuotientsMeant ==
    ASSUME Hosted, TypeOK, GuestInv, Ended, routine.name = "div"
    PROVE  LET n == SignedLong(Double(start, A))
               d == SignedWord(start.core[B])
               fits == \E q \in -(2^(W - 1)) .. 2^(W - 1) - 1 : Divides(n, d, q)
           IN /\ m.f.v <=> d = 0 \/ ~fits
              /\ ~m.f.v => /\ Divides(n, d, SignedWord(m.r[0]))
                           /\ n = SignedWord(m.r[0]) * d + SignedWord(m.r[1])
<1> DEFINE hi == start.core[A + 2]
           lo == start.core[A]
           b == start.core[B]
           z == DIV(hi, lo, b)
           n == SignedLong(Double(start, A))
           d == SignedWord(b)
<1>1. hi \in Word /\ lo \in Word /\ b \in Word
  BY Given
<1>2. n = SignedLong(2^W * hi + lo)
  <2>1. \A x, y \in Word : x + 2^W * y = 2^W * y + x
    BY Places, WordsInt
  <2> QED BY <1>1, <2>1 DEF Double
<1>3. DivAt(start, m.r, m.f, m.core) /\ m.r[PC] = 8
  BY GuestEnds
<1>4. /\ m.f.v = z.f.v
      /\ z.store => m.r[0] = z.hi % 2^(2 * W) /\ m.r[1] = z.lo % 2^(2 * W)
  BY <1>3 DEF DivAt
<1> HIDE DEF hi, lo, b, z, n, d
<1>5. /\ z.f.v <=> d = 0 \/ ~\E q \in -(2^(W - 1)) .. 2^(W - 1) - 1 : Divides(n, d, q)
      /\ ~z.f.v => /\ z.store
                   /\ Divides(n, d, SignedWord(z.hi % 2^(2 * W)))
                   /\ n = SignedWord(z.hi % 2^(2 * W)) * d + SignedWord(z.lo % 2^(2 * W))
  BY <1>1, <1>2, DivisionTold DEF z, d
<1>6. /\ m.f.v <=> d = 0 \/ ~\E q \in -(2^(W - 1)) .. 2^(W - 1) - 1 : Divides(n, d, q)
      /\ ~m.f.v => /\ Divides(n, d, SignedWord(m.r[0]))
                   /\ n = SignedWord(m.r[0]) * d + SignedWord(m.r[1])
  BY <1>4, <1>5
<1> QED BY <1>6 DEF n, d, b

\* Adding a multiple of h changes no remainder.
LEMMA SameRemainder ==
    ASSUME NEW h \in Nat \ {0}, NEW q \in Int, NEW w \in Int, NEW v, v = h * q + w
    PROVE  v % h = w % h
<1>1. v \in Int /\ v \div h = q + (w \div h) /\ v % h = w % h
  BY DividedSum
<1> QED BY <1>1

\* A shift of x, n bits wide, by c places, as ASH and ASHC compute it, is that of
\* the signed number x stands for.
LEMMA ShiftMeans ==
    ASSUME NEW n \in {W, 2 * W}, NEW h, h = 2^n, NEW o, o = h - 1, NEW x \in 0 .. h - 1, NEW u,
           NEW negative \in BOOLEAN, negative <=> x >= 2^(n - 1),
           NEW y, y = (IF negative THEN x - h ELSE x), NEW k \in 0 .. 2 * W
    PROVE  /\ k < 2 * W => (x * 2^k) % h = Shifted(y, k) % h
           /\ k \in 1 .. 2 * W - 1 =>
                  ArithmeticRight(x, k, o, negative, u) = Shifted(y, -k) % h
<1>1. h \in Nat \ {0} /\ 2^k \in Nat \ {0} /\ k \in Int /\ n \in 0 .. 2 * W
  BY WidthAssumption, PowersDouble
<1>2. y \in Int /\ x \in Int
  BY <1>1
<1>3. k < 2 * W => (x * 2^k) % h = Shifted(y, k) % h
  <2>1. Shifted(y, k) = y * 2^k
    BY DEF Shifted
  <2>2. PICK p \in Nat \ {0}, v \in Int, w \in Int : p = 2^k /\ v = x * p /\ w = y * p
    BY <1>1, <1>2
  <2>3. PICK q \in Int : v = h * q + w
    <3>1. CASE negative
      <4>1. v = h * p + w
        BY <1>1, <1>2, <2>2, <3>1
      <4> QED BY <2>2, <4>1
    <3>2. CASE ~negative
      <4>1. v = h * 0 + w
        BY <1>1, <1>2, <2>2, <3>2
      <4> QED BY <4>1
    <3> QED BY <3>1, <3>2
  <2>4. v % h = w % h
    <3>1. h \in Nat \ {0} /\ q \in Int /\ w \in Int /\ v = h * q + w
      BY <1>1, <2>2, <2>3
    <3> QED BY ONLY <3>1, SameRemainder, ZenonT(60)
  <2> QED BY <2>1, <2>2, <2>4
<1>4. ASSUME k \in 1 .. 2 * W - 1
      PROVE  ArithmeticRight(x, k, o, negative, u) = Shifted(y, -k) % h
  <2>1. Shifted(y, -k) = y \div 2^k
    <3>1. ~(-k >= 0) /\ -(-k) = k
      BY <1>1, <1>4
    <3> QED BY <3>1 DEF Shifted
  <2>2. PICK p, e : p = x \div 2^k /\ e = x - h
    OBVIOUS
  <2>3. /\ ArithmeticRight(x, k, o, FALSE, u) = p /\ p \in 0 .. x
        /\ ArithmeticRight(x, k, o, TRUE, u) = (e \div 2^k) % h
    <3>1. k \in 1 .. 2 * W - 1 /\ x \in 0 .. 2^n - 1
      BY <1>4
    <3>2. RightDivides(n, x, k, u, h, o, e, p)
      BY <2>2, <3>1, ArithmeticRightDivides
    <3> QED BY <3>2 DEF RightDivides
  <2>4. CASE negative
    <3>1. negative = TRUE /\ y = e
      BY <2>2, <2>4
    <3> QED BY <2>1, <2>3, <3>1
  <2>5. CASE ~negative
    <3>1. negative = FALSE /\ y = x
      BY <2>5
    <3>2. p \in 0 .. h - 1
      BY <1>1, <1>2, <2>3
    <3>3. p % h = p
      BY <1>1, <3>2, Small
    <3> QED BY <2>1, <2>2, <2>3, <3>1, <3>3
  <2> QED BY <2>4, <2>5
<1> QED BY <1>3, <1>4

\* A shift of a number yields a number.
LEMMA ShiftedTyped ==
    ASSUME NEW y \in Int, NEW c \in -(2 * W) .. 2 * W
    PROVE  Shifted(y, c) \in Int
<1>1. CASE c >= 0
  <2>1. 2^c \in Nat \ {0}
    BY <1>1, WidthAssumption, PowersDouble
  <2> QED BY <1>1, <2>1 DEF Shifted
<1>2. CASE ~(c >= 0)
  <2>1. 2^(-c) \in Nat \ {0}
    BY <1>2, WidthAssumption, PowersDouble
  <2> QED BY <1>2, <2>1 DEF Shifted
<1> QED BY <1>1, <1>2

\* The count that the six lowest bits of a register stand for.
LEMMA CountMeans ==
    ASSUME NEW n \in 0 .. 4 * W - 1
    PROVE  /\ n % (4 * W) = n /\ Count(n) \in -(2 * W) .. 2 * W
           /\ n >= 2 * W => /\ Count(n) = -(4 * W - n) /\ 4 * W - n \in 1 .. 2 * W
                            /\ Count(n) # -2 * W => 4 * W - n \in 1 .. 2 * W - 1
           /\ ~(n >= 2 * W) => Count(n) = n /\ n \in 0 .. 2 * W /\ n < 2 * W
BY WidthAssumption DEF Count

\* Shifts of words and of double words.
LEMMA ShiftsMeant ==
    ASSUME Hosted, TypeOK, GuestInv, Ended
    PROVE  LET c == Count(start.r[0])
               sa == SignedWord(start.core[A])
               aa == Double(start, A)
           IN /\ routine.name = "ash" => (c # -2 * W => m.r[3] = Shifted(sa, c) % 2^W)
              /\ routine.name = "ashc" =>
                     (c # -2 * W => SignedLong(2^W * m.r[4] + m.r[4 + 1])
                                        = SignedLong(Shifted(SignedLong(aa), c) % 2^(2 * W)))
<1> DEFINE a == start.core[A]
           hi == start.core[A + 2]
<1>1. a \in Word /\ hi \in Word
  BY Given
<1>2. ASSUME routine.name = "ash", Count(start.r[0]) # -2 * W
      PROVE  m.r[3] = Shifted(SignedWord(a), Count(start.r[0])) % 2^W
  <2>1. PICK n \in 0 .. 4 * W - 1 : start.r[0] = n /\ AshAt(n, start, m.r, m.f, m.core) /\ m.r[PC] = 4
    BY <1>2, GuestEnds
  <2>2. PICK u \in BOOLEAN : m.r[3] = ASH(a, n, u).hi % 2^(2 * W)
    BY <2>1 DEF AshAt
  <2> HIDE DEF a
  <2> DEFINE h == 2^W
             y == IF Sign(a, 2) THEN a - h ELSE a
  <2>3. /\ Sign(a, 2) \in BOOLEAN /\ (Sign(a, 2) <=> a >= 2^(W - 1)) /\ SignedWord(a) = y
        /\ a \in 0 .. h - 1 /\ h \in Nat \ {0}
    BY <1>1, SignedWords, Powers DEF Sign, Bit, Word
  <2>4. W \in {W, 2 * W}
    OBVIOUS
  <2>y. y = IF Sign(a, 2) THEN a - h ELSE a
    OBVIOUS
  <2> HIDE DEF y
  <2>5. ASSUME NEW k \in 0 .. 2 * W
        PROVE  /\ k < 2 * W => (a * 2^k) % h = Shifted(y, k) % h
               /\ k \in 1 .. 2 * W - 1 =>
                      ArithmeticRight(a, k, h - 1, Sign(a, 2), u) = Shifted(y, -k) % h
    BY <2>3, <2>4, <2>y, ShiftMeans
  <2>6. CASE n >= 2 * W
    <3>1. /\ 4 * W - n \in 1 .. 2 * W - 1 /\ 4 * W - n \in 0 .. 2 * W
          /\ Count(n) = -(4 * W - n) /\ n % (4 * W) = n
      BY <1>2, <2>1, <2>6, CountMeans
    <3>2. ASH(a, n, u).hi = ArithmeticRight(a, 4 * W - n, h - 1, Sign(a, 2), u)
      BY <2>6, <3>1 DEF ASH, Registers
    <3>3. ASH(a, n, u).hi = Shifted(y, Count(n)) % h
      BY <2>5, <3>1, <3>2
    <3>4. Shifted(y, Count(n)) % h \in Word
      <4>1. Shifted(y, Count(n)) \in Int
        <5>1. y \in Int /\ Count(n) \in -(2 * W) .. 2 * W
          BY <2>1, <2>3, <2>y, CountMeans
        <5> QED BY <5>1, ShiftedTyped
      <4> QED BY <2>3, <4>1 DEF Word
    <3> QED BY <2>1, <2>2, <2>3, <3>3, <3>4, LongWord
  <2>7. CASE ~(n >= 2 * W)
    <3>1. Count(n) = n /\ n \in 0 .. 2 * W /\ n < 2 * W /\ n % (4 * W) = n
      BY <2>1, <2>7, CountMeans
    <3>2. ASH(a, n, u).hi = ((a % h) * 2^n) % h /\ a % h = a
      BY <2>3, <2>7, <3>1, Small DEF ASH, Registers
    <3>3. ASH(a, n, u).hi = Shifted(y, Count(n)) % h
      BY <2>5, <3>1, <3>2
    <3>4. Shifted(y, Count(n)) % h \in Word
      <4>1. Shifted(y, Count(n)) \in Int
        <5>1. y \in Int /\ Count(n) \in -(2 * W) .. 2 * W
          BY <2>1, <2>3, <2>y, CountMeans
        <5> QED BY <5>1, ShiftedTyped
      <4> QED BY <2>3, <4>1 DEF Word
    <3> QED BY <2>1, <2>2, <2>3, <3>3, <3>4, LongWord
  <2> QED BY <2>6, <2>7
<1>3. ASSUME routine.name = "ashc", Count(start.r[0]) # -2 * W
      PROVE  SignedLong(2^W * m.r[4] + m.r[4 + 1])
                 = SignedLong(Shifted(SignedLong(Double(start, A)), Count(start.r[0])) % 2^(2 * W))
  <2>1. PICK n \in 0 .. 4 * W - 1 : start.r[0] = n /\ AshcAt(n, start, m.r, m.f, m.core) /\ m.r[PC] = 8
    BY <1>3, GuestEnds
  <2>2. PICK u \in BOOLEAN : LET z == ASHC(hi, a, n, u)
                             IN m.r[4] = z.hi % 2^(2 * W) /\ m.r[5] = z.lo % 2^(2 * W)
    BY <2>1 DEF AshcAt
  <2> DEFINE x == Double(start, A)
             h == 2^(2 * W)
             minus == Bit(x, 2 * W - 1)
             y == IF minus THEN x - h ELSE x
  <2>3. x = Paired(hi, a) /\ x \in 0 .. h - 1 /\ h \in Nat \ {0}
    <3>1. Paired(hi, a) = 2^W * hi + a
      BY <1>1, PairedMeans
    <3>2. x = 2^W * hi + a
      <4>1. \A p, q \in Word : p + 2^W * q = 2^W * q + p
        BY Places, WordsInt
      <4> QED BY <1>1, <4>1 DEF Double
    <3> HIDE DEF x, a, hi
    <3> QED BY <1>1, <3>1, <3>2, Powers DEF Word
  <2> HIDE DEF a, hi, x
  <2>4. /\ minus \in BOOLEAN /\ (minus <=> x >= 2^(2 * W - 1)) /\ SignedLong(x) = y
    <3>1. minus <=> x >= 2^(2 * W - 1)
      BY <2>3, Powers DEF Bit
    <3> QED BY <3>1 DEF SignedLong, Bit
  <2>5. 2 * W \in {W, 2 * W}
    OBVIOUS
  <2>y. y = IF minus THEN x - h ELSE x
    OBVIOUS
  <2> HIDE DEF y, minus
  <2>6. ASSUME NEW k \in 0 .. 2 * W
        PROVE  /\ k < 2 * W => (x * 2^k) % h = Shifted(y, k) % h
               /\ k \in 1 .. 2 * W - 1 =>
                      ArithmeticRight(x, k, h - 1, minus, u) = Shifted(y, -k) % h
    BY <2>3, <2>4, <2>5, <2>y, ShiftMeans
  <2>7. Shifted(y, Count(n)) \in Int
    <3>1. y \in Int /\ Count(n) \in -(2 * W) .. 2 * W
      BY <2>1, <2>3, <2>y, CountMeans
    <3> QED BY <3>1, ShiftedTyped
  <2>8. PICK s \in Int : /\ s = Shifted(y, Count(n)) % h /\ s \in 0 .. h - 1
                         /\ ASHC(hi, a, n, u).hi = (s \div 2^W) % 2^W
                         /\ ASHC(hi, a, n, u).lo = s % 2^W
    <3>1. Shifted(y, Count(n)) % h \in 0 .. h - 1
      BY <2>3, <2>7
    <3>2. CASE n >= 2 * W
      <4>1. /\ 4 * W - n \in 1 .. 2 * W - 1 /\ 4 * W - n \in 0 .. 2 * W
            /\ Count(n) = -(4 * W - n) /\ n % (4 * W) = n
        BY <1>3, <2>1, <3>2, CountMeans
      <4> DEFINE s == ArithmeticRight(x, 4 * W - n, h - 1, minus, u)
      <4>2. ASHC(hi, a, n, u).hi = (s \div 2^W) % 2^W /\ ASHC(hi, a, n, u).lo = s % 2^W
        BY <2>3, <3>2, <4>1 DEF ASHC, Registers, minus
      <4>3. s = Shifted(y, Count(n)) % h
        BY <2>6, <4>1
      <4> HIDE DEF s
      <4> QED BY <3>1, <4>2, <4>3
    <3>3. CASE ~(n >= 2 * W)
      <4>1. Count(n) = n /\ n \in 0 .. 2 * W /\ n < 2 * W /\ n % (4 * W) = n
        BY <2>1, <3>3, CountMeans
      <4> DEFINE s == (x * 2^n) % h
      <4>2. ASHC(hi, a, n, u).hi = (s \div 2^W) % 2^W /\ ASHC(hi, a, n, u).lo = s % 2^W
        BY <2>3, <3>3, <4>1 DEF ASHC, Registers
      <4>3. s = Shifted(y, Count(n)) % h
        BY <2>6, <4>1
      <4> HIDE DEF s
      <4> QED BY <3>1, <4>2, <4>3
    <3> QED BY <3>2, <3>3
  <2>9. m.r[4] = (s \div 2^W) % 2^W /\ m.r[5] = s % 2^W
    <3>1. (s \div 2^W) % 2^W \in Word /\ s % 2^W \in Word
      <4>1. 2^W \in Nat \ {0} /\ s \div 2^W \in Int
        BY Powers
      <4> QED BY <4>1 DEF Word
    <3> QED BY <2>2, <2>8, <3>1, LongWord
  <2>10. 2^W * m.r[4] + m.r[4 + 1] = s
    <3>1. 2^W * ((s \div 2^W) % 2^W) + (s % 2^W) = s % h
      BY WordsJoin
    <3>2. s % h = s
      BY <2>3, <2>8, Small
    <3> QED BY <2>9, <3>1, <3>2
  <2> QED BY <2>1, <2>4, <2>8, <2>10 DEF x
<1> QED BY <1>2, <1>3

\* Together: what ArithmeticMeant asks.
LEMMA ArithmeticsMeant ==
    ASSUME Hosted, TypeOK, GuestInv
    PROVE  ArithmeticMeant
<1>0. m.left \notin {"bus", "invalid"}
  BY DEF GuestInv
<1> QED BY <1>0, DoublesMeant, CountsMeant, BitsMeant, ProductsMeant, QuotientsMeant, ShiftsMeant
        DEF ArithmeticMeant, Means

-----------------------------------------------------------------------------
(***************************************************************************)
(* The theorems.                                                           *)
(***************************************************************************)

\* Copies, a stack with its calls and returns, a jump table and accesses to the
\* previous space end with what they are meant to leave in core and registers.
THEOREM ReturnsHold ==
    ASSUME Hosted
    PROVE  Spec => []RoutinesReturn
<1>1. TypeOK /\ GuestInv => RoutinesReturn
  BY ReturnsMeant
<1> QED BY <1>1, RoutinesOnCourse, PTL

\* A branch behind a comparison decides as the numbers compare, and V and C tell
\* what has left its range.
THEOREM ComparisonsHold ==
    ASSUME Hosted
    PROVE  Spec => []ComparisonsDecide
<1>1. TypeOK /\ GuestInv => ComparisonsDecide
  BY ComparisonsMeant
<1> QED BY <1>1, RoutinesOnCourse, PTL

\* Instructions that hand carry, borrow, sign or halves of a result to each other
\* compute what the numbers in core say.
THEOREM ArithmeticHolds ==
    ASSUME Hosted
    PROVE  Spec => []ArithmeticMeant
<1>1. TypeOK /\ GuestInv => ArithmeticMeant
  BY ArithmeticsMeant
<1> QED BY <1>1, RoutinesOnCourse, PTL
=============================================================================
