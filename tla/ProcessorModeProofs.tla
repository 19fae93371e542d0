------------------------- MODULE ProcessorModeProofs -------------------------
(***************************************************************************)
(* Proofs about ProcessorMode, for every stack, every set of vectors and   *)
(* every depth of nesting.                                                 *)
(***************************************************************************)
EXTENDS ProcessorMode, SequenceTheorems, TLAPS

USE ModeAssumption

-----------------------------------------------------------------------------
(***************************************************************************)
(* Addresses.                                                              *)
(***************************************************************************)

\* A push steps down by one word, round the end of the address space.
LEMMA BelowFacts ==
    ASSUME NEW a \in Address
    PROVE  /\ Below(a) \in Address
           /\ a # 0 => Below(a) = a - 1
           /\ a = 0 => Below(a) = Words - 1
BY DEF Below, Address

\* A pop steps up.
LEMMA AboveFacts ==
    ASSUME NEW a \in Address, NEW n \in {1, 2}
    PROVE  /\ Above(a, n) \in Address
           /\ a + n < Words => Above(a, n) = a + n
BY DEF Above, Address

-----------------------------------------------------------------------------
(***************************************************************************)
(* switchmode(), the store into PS and the load from a vector.             *)
(***************************************************************************)

\* The kernel's and the user's stack pointers of a register set.
KernelSpOf(r) == IF r.curuser THEN r.ksp ELSE r.r6
UserSpOf(r) == IF r.curuser THEN r.r6 ELSE r.usp

\* The two copies of the modes agree.
Agree(r) ==
    /\ r.ps.cm \in {0, 3} => r.ps.cm = Bits(r.curuser)
    /\ r.ps.pm \in {0, 3} => r.ps.pm = Bits(r.prevuser)

\* switchmode() moves no stack pointer and makes the modes agree.
LEMMA SwitchedFacts ==
    ASSUME NEW r \in Registers, NEW b \in BOOLEAN
    PROVE  /\ Switched(r, b) \in Registers
           /\ Switched(r, b).curuser = b
           /\ Switched(r, b).pc = r.pc
           /\ KernelSpOf(Switched(r, b)) = KernelSpOf(r)
           /\ UserSpOf(Switched(r, b)) = UserSpOf(r)
           /\ Agree(Switched(r, b))
<1> DEFINE k == IF r.curuser THEN r.ksp ELSE r.r6
           u == IF r.curuser THEN r.r6 ELSE r.usp
           w == [cm |-> Bits(b), pm |-> Bits(r.curuser), pri |-> r.ps.pri]
           x == [r EXCEPT !.prevuser = r.curuser, !.curuser = b, !.ksp = k, !.usp = u,
                          !.r6 = IF b THEN u ELSE k, !.ps = w]
<1>1. k \in Address /\ u \in Address /\ r.curuser \in BOOLEAN
  BY DEF Registers
<1>2. w \in PsWords
  BY <1>1 DEF Registers, PsWords, Modes, Bits
<1>3. Switched(r, b) = x
  BY DEF Switched
<1> HIDE DEF k, u, w
<1>4. /\ x \in Registers /\ x.curuser = b /\ x.prevuser = r.curuser /\ x.pc = r.pc
      /\ x.ksp = k /\ x.usp = u /\ x.ps = w /\ x.r6 = IF b THEN u ELSE k
  BY <1>1, <1>2 DEF Registers
<1> HIDE DEF x
<1>5. KernelSpOf(x) = k /\ UserSpOf(x) = u
  BY <1>4 DEF KernelSpOf, UserSpOf
<1>6. Agree(x)
  BY <1>4 DEF Agree, w
<1> QED BY <1>3, <1>4, <1>5, <1>6 DEF k, u, KernelSpOf, UserSpOf

\* So does a store into PS, which sets the modes of the word if they exist.
LEMMA PsStoredFacts ==
    ASSUME NEW r \in Registers, NEW v \in PsWords, Agree(r)
    PROVE  /\ PsStored(r, v) \in Registers
           /\ PsStored(r, v).ps = v
           /\ PsStored(r, v).pc = r.pc
           /\ v.cm \notin {0, 3} => PsStored(r, v).curuser = r.curuser
           /\ KernelSpOf(PsStored(r, v)) = KernelSpOf(r)
           /\ UserSpOf(PsStored(r, v)) = UserSpOf(r)
           /\ Agree(PsStored(r, v))
<1> DEFINE s == IF v.cm \in {0, 3} THEN Switched(r, v.cm = 3) ELSE r
<1>1. /\ s \in Registers /\ s.pc = r.pc
      /\ KernelSpOf(s) = KernelSpOf(r) /\ UserSpOf(s) = UserSpOf(r)
      /\ v.cm \in {0, 3} => s.curuser = (v.cm = 3)
      /\ v.cm \notin {0, 3} => s.curuser = r.curuser
  BY SwitchedFacts
<1> HIDE DEF s
<1>2. PsStored(r, v) = [s EXCEPT !.prevuser = IF v.pm \in {0, 3} THEN v.pm = 3 ELSE s.prevuser,
                                 !.ps = v]
  BY DEF PsStored, s
<1> QED BY <1>1, <1>2 DEF Registers, KernelSpOf, UserSpOf, Agree, Bits, PsWords, Modes

\* The load from a vector leaves mode and stack pointers alone.
LEMMA LoadedFacts ==
    ASSUME NEW r \in Registers, ~r.curuser, NEW v, v.pc \in Pcs, v.pri \in 0 .. 7
    PROVE  /\ Loaded(r, v) \in Registers
           /\ ~Loaded(r, v).curuser
           /\ Loaded(r, v).r6 = r.r6
           /\ UserSpOf(Loaded(r, v)) = UserSpOf(r)
           /\ Agree(Loaded(r, v))
<1> DEFINE w == [cm |-> 0, pm |-> Bits(r.prevuser), pri |-> v.pri]
           x == [r EXCEPT !.pc = v.pc, !.ps = w]
<1>1. w \in PsWords
  BY DEF Registers, PsWords, Modes, Bits
<1>2. w.cm = 0 /\ w.pm = Bits(r.prevuser)
  OBVIOUS
<1>3. Loaded(r, v) = x
  BY DEF Loaded
<1> HIDE DEF w
<1>4. /\ x \in Registers /\ x.curuser = r.curuser /\ x.prevuser = r.prevuser
      /\ x.r6 = r.r6 /\ x.usp = r.usp /\ x.ps = w
  BY <1>1 DEF Registers
<1> HIDE DEF x
<1>5. Agree(x)
  BY <1>2, <1>4 DEF Agree, Bits
<1> QED BY <1>3, <1>4, <1>5 DEF UserSpOf

-----------------------------------------------------------------------------
(***************************************************************************)
(* Frames: what FramesIntact says of a stack pointer, a stack and the      *)
(* programs interrupted.                                                   *)
(***************************************************************************)

Frames(sp, m, cs) ==
    \A i \in 1 .. Len(cs) :
        /\ sp # 0 /\ sp <= cs[i].at /\ cs[i].at + 1 \in Stack
        /\ m[cs[i].at] = cs[i].pc /\ m[cs[i].at + 1] = cs[i].ps
        /\ \A j \in 1 .. i - 1 : cs[i].at + 1 < cs[j].at

\* Nothing below the stack pointer belongs to a frame.
LEMMA FramesBelow ==
    ASSUME NEW sp \in Address, NEW m, NEW cs \in Seq(Contexts), Frames(sp, m, cs),
           NEW sp2 \in Address, cs # << >> => sp2 # 0 /\ sp2 <= sp,
           NEW m2, \A x \in Stack : x >= sp => m2[x] = m[x]
    PROVE  Frames(sp2, m2, cs)
<1> SUFFICES ASSUME NEW i \in 1 .. Len(cs)
             PROVE  /\ sp2 # 0 /\ sp2 <= cs[i].at /\ cs[i].at + 1 \in Stack
                    /\ m2[cs[i].at] = cs[i].pc /\ m2[cs[i].at + 1] = cs[i].ps
                    /\ \A j \in 1 .. i - 1 : cs[i].at + 1 < cs[j].at
  BY DEF Frames
<1>1. cs[i] \in Contexts /\ cs # << >>
  OBVIOUS
<1>2. cs[i].at \in Stack
  BY <1>1 DEF Contexts
<1>3. /\ sp <= cs[i].at /\ cs[i].at + 1 \in Stack
      /\ m[cs[i].at] = cs[i].pc /\ m[cs[i].at + 1] = cs[i].ps
      /\ \A j \in 1 .. i - 1 : cs[i].at + 1 < cs[j].at
  BY DEF Frames
<1> QED BY <1>1, <1>2, <1>3 DEF Stack, Address

\* A frame built under the others.
LEMMA FramesAppend ==
    ASSUME NEW sp \in Address, NEW m, NEW cs \in Seq(Contexts), Frames(sp, m, cs),
           NEW c \in Contexts, c.at = sp, sp # 0, sp + 1 \in Stack,
           m[sp] = c.pc, m[sp + 1] = c.ps,
           \A j \in 1 .. Len(cs) : sp + 1 < cs[j].at
    PROVE  Frames(sp, m, Append(cs, c))
<1> SUFFICES ASSUME NEW i \in 1 .. Len(Append(cs, c))
             PROVE  LET s == Append(cs, c) IN
                    /\ sp # 0 /\ sp <= s[i].at /\ s[i].at + 1 \in Stack
                    /\ m[s[i].at] = s[i].pc /\ m[s[i].at + 1] = s[i].ps
                    /\ \A j \in 1 .. i - 1 : s[i].at + 1 < s[j].at
  BY DEF Frames
<1>1. Len(cs) \in Nat /\ Len(Append(cs, c)) = Len(cs) + 1
  OBVIOUS
<1>2. \A j \in 1 .. Len(cs) : Append(cs, c)[j] = cs[j]
  OBVIOUS
<1>3. CASE i = Len(cs) + 1
  <2>1. Append(cs, c)[i] = c
    BY <1>3
  <2> QED BY <1>1, <1>2, <1>3, <2>1 DEF Address
<1>4. CASE i \in 1 .. Len(cs)
  <2>1. Append(cs, c)[i] = cs[i]
    BY <1>2, <1>4
  <2> QED BY <1>1, <1>2, <1>4, <2>1 DEF Frames
<1> QED BY <1>1, <1>3, <1>4

\* A sequence without its last element.
LEMMA FrontFacts ==
    ASSUME NEW S, NEW s \in Seq(S), s # << >>
    PROVE  /\ Len(s) \in Nat \ {0}
           /\ Front(s) \in Seq(S)
           /\ Len(Front(s)) = Len(s) - 1
           /\ \A i \in 1 .. Len(s) - 1 : Front(s)[i] = s[i]
<1>1. Len(s) \in Nat \ {0}
  OBVIOUS
<1>2. \A i \in 1 .. Len(s) - 1 : s[i] \in S
  BY <1>1
<1> DEFINE n == Len(s) - 1
<1>3. n \in Int /\ 1 \in Int /\ \A i \in 1 .. n : s[i] \in S
  BY <1>1, <1>2
<1> HIDE DEF n
<1>4. /\ SubSeq(s, 1, n) \in Seq(S)
      /\ Len(SubSeq(s, 1, n)) = IF 1 <= n THEN n - 1 + 1 ELSE 0
      /\ \A i \in 1 .. n - 1 + 1 : SubSeq(s, 1, n)[i] = s[1 + i - 1]
  BY <1>3, SubSeqProperties
<1>5. n \in Nat /\ n = Len(s) - 1
  BY <1>1 DEF n
<1>6. Len(SubSeq(s, 1, n)) = n /\ \A i \in 1 .. n : SubSeq(s, 1, n)[i] = s[i]
  BY <1>4, <1>5
<1>7. Front(s) = SubSeq(s, 1, n)
  BY DEF Front, n
<1> QED BY <1>1, <1>4, <1>5, <1>6, <1>7

\* The last frame removed.
LEMMA FramesPop ==
    ASSUME NEW sp \in Address, NEW m, NEW cs \in Seq(Contexts), Frames(sp, m, cs),
           cs # << >>, sp = cs[Len(cs)].at
    PROVE  Frames(Above(sp, 2), m, Front(cs))
<1>1. /\ Len(cs) \in Nat \ {0} /\ Len(Front(cs)) = Len(cs) - 1
      /\ \A i \in 1 .. Len(cs) - 1 : Front(cs)[i] = cs[i]
  BY FrontFacts
<1>2. ASSUME NEW i \in 1 .. Len(cs)
      PROVE  cs[i].at \in Stack
  <2>1. cs[i] \in Contexts
    OBVIOUS
  <2> QED BY <2>1 DEF Contexts
<1> SUFFICES ASSUME NEW i \in 1 .. Len(cs) - 1
             PROVE  /\ Above(sp, 2) # 0 /\ Above(sp, 2) <= cs[i].at /\ cs[i].at + 1 \in Stack
                    /\ m[cs[i].at] = cs[i].pc /\ m[cs[i].at + 1] = cs[i].ps
                    /\ \A j \in 1 .. i - 1 : cs[i].at + 1 < cs[j].at
  BY <1>1 DEF Frames
<1>3. /\ cs[i].at + 1 \in Stack
      /\ m[cs[i].at] = cs[i].pc /\ m[cs[i].at + 1] = cs[i].ps
      /\ \A j \in 1 .. i - 1 : cs[i].at + 1 < cs[j].at
  BY <1>1 DEF Frames
<1>4. sp + 1 < cs[i].at
  <2>1. \A j \in 1 .. Len(cs) - 1 : cs[Len(cs)].at + 1 < cs[j].at
    BY <1>1 DEF Frames
  <2> QED BY <2>1
<1>5. cs[i].at \in Stack
  BY <1>1, <1>2
<1>6. sp + 2 < Words /\ sp + 2 <= cs[i].at /\ sp + 2 # 0
  <2> DEFINE a == cs[i].at
  <2>1. sp \in Nat /\ Words \in Int
    BY DEF Address
  <2>2. a \in Int /\ a <= Words - 1
    BY <1>5 DEF Stack
  <2>3. sp + 1 < a
    BY <1>4
  <2> HIDE DEF a
  <2>4. sp + 2 < Words /\ sp + 2 <= a /\ sp + 2 # 0
    BY <2>1, <2>2, <2>3
  <2> QED BY <2>4 DEF a
<1>7. Above(sp, 2) = sp + 2
  BY <1>6, AboveFacts
<1> QED BY <1>3, <1>6, <1>7

\* A pop of a word that is not the last frame's.
LEMMA FramesUp ==
    ASSUME NEW sp \in Address, NEW m, NEW cs \in Seq(Contexts), Frames(sp, m, cs),
           cs # << >> => sp # cs[Len(cs)].at
    PROVE  Frames(Above(sp, 1), m, cs)
<1> SUFFICES ASSUME NEW i \in 1 .. Len(cs)
             PROVE  /\ Above(sp, 1) # 0 /\ Above(sp, 1) <= cs[i].at
                    /\ cs[i].at + 1 \in Stack
                    /\ m[cs[i].at] = cs[i].pc /\ m[cs[i].at + 1] = cs[i].ps
                    /\ \A j \in 1 .. i - 1 : cs[i].at + 1 < cs[j].at
  BY DEF Frames
<1> DEFINE n == Len(cs)
           a == cs[i].at
           l == cs[n].at
<1>1. n \in Nat \ {0} /\ cs # << >> /\ cs[i] \in Contexts /\ cs[n] \in Contexts
  OBVIOUS
<1>2. a \in Stack /\ l \in Stack
  BY <1>1 DEF Contexts
<1>3. /\ sp <= l /\ cs[i].at + 1 \in Stack
      /\ m[cs[i].at] = cs[i].pc /\ m[cs[i].at + 1] = cs[i].ps
      /\ \A j \in 1 .. i - 1 : cs[i].at + 1 < cs[j].at
  BY <1>1 DEF Frames
<1>4. a = l \/ l + 1 < a
  <2>1. CASE i = n
    BY <2>1
  <2>2. CASE i \in 1 .. n - 1
    BY <1>1, <2>2 DEF Frames
  <2> QED BY <1>1, <2>1, <2>2
<1>5. sp # l
  BY <1>1
<1>6. sp \in Nat /\ Words \in Int /\ a \in Int /\ l \in Int /\ a <= Words - 1
  BY <1>2 DEF Address, Stack
<1> HIDE DEF a, l
<1>7. sp + 1 <= a /\ sp + 1 < Words /\ sp + 1 # 0
  BY <1>2, <1>3, <1>4, <1>5, <1>6
<1>8. Above(sp, 1) = sp + 1
  BY <1>7, AboveFacts
<1> QED BY <1>3, <1>7, <1>8 DEF a

-----------------------------------------------------------------------------
(***************************************************************************)
(* The inductive invariant, of values rather than of variables.            *)
(***************************************************************************)

MemOK(m) ==
    /\ DOMAIN m = Stack
    /\ \A a \in Stack : m[a] \in PsWords \/ m[a] \in Pcs \/ m[a] = Data

CsAgree(cs) ==
    \A i \in 1 .. Len(cs) :
        /\ cs[i].ps.cm \in {0, 3} => cs[i].ps.cm = Bits(cs[i].user)
        /\ cs[i].ps.pm \in {0, 3} => cs[i].ps.pm = Bits(cs[i].prev)

Good(r, m, cs) ==
    /\ r \in Registers /\ MemOK(m) /\ cs \in Seq(Contexts)
    /\ Agree(r) /\ Frames(KernelSpOf(r), m, cs) /\ CsAgree(cs)

Others(tr, se, ov) ==
    /\ tr \in Traps \cup {Fault, NoVec}
    /\ se \in Lines \cup {NoVec}
    /\ ov \in BOOLEAN

\* The invariant, restated.
LEMMA IInvIs == IInv <=> Good(regs, mem, contexts) /\ Others(trapping, servicing, overflow)
BY DEF IInv, TypeOK, ModesAgree, FramesIntact, ContextsAgree, Good, Others, MemOK,
       CsAgree, Agree, Frames, KernelSpOf, KernelSp

\* The same of the next state.
LEMMA IInvPrimeIs ==
    IInv' <=> Good(regs', mem', contexts') /\ Others(trapping', servicing', overflow')
BY DEF IInv, TypeOK, ModesAgree, FramesIntact, ContextsAgree, Good, Others, MemOK,
       CsAgree, Agree, Frames, KernelSpOf, KernelSp

\* It holds when the guest starts.
LEMMA InitGood == Init => IInv
<1> SUFFICES ASSUME Init PROVE IInv
  OBVIOUS
<1>1. 0 \in Address /\ 0 \in Modes /\ 0 \in 0 .. 7
  BY DEF Address, Modes
<1> DEFINE w == [cm |-> 0, pm |-> 0, pri |-> 0]
<1>9. w \in PsWords
  BY <1>1 DEF PsWords
<1>2. regs \in Registers
  <2>1. regs \in [curuser : {FALSE}, prevuser : {FALSE}, r6 : {0}, pc : Pcs,
                  ksp : {0}, usp : {0}, ps : {w}]
    BY DEF Init
  <2> HIDE DEF w
  <2> QED BY <1>1, <1>9, <2>1 DEF Registers
<1>3. /\ regs.ps = [cm |-> 0, pm |-> 0, pri |-> 0]
      /\ regs.curuser = FALSE /\ regs.prevuser = FALSE
  BY DEF Init
<1>4. Agree(regs)
  BY <1>3 DEF Agree, Bits
<1>5. MemOK(mem)
  BY DEF Init, MemOK
<1>6. contexts \in Seq(Contexts) /\ Len(contexts) = 0
  BY DEF Init
<1>7. Frames(KernelSpOf(regs), mem, contexts) /\ CsAgree(contexts)
  BY <1>6 DEF Frames, CsAgree
<1>8. Others(trapping, servicing, overflow)
  BY DEF Init, Others
<1> QED BY <1>2, <1>4, <1>5, <1>6, <1>7, <1>8, IInvIs DEF Good

-----------------------------------------------------------------------------
(***************************************************************************)
(* The entry sequence.                                                     *)
(***************************************************************************)

\* Where they go.
LEMMA FrameAddresses ==
    ASSUME NEW sp \in Address, Below(sp) \in Stack, Below(Below(sp)) \in Stack
    PROVE  /\ Below(Below(sp)) \in Address /\ Below(Below(sp)) # 0
           /\ Below(sp) = Below(Below(sp)) + 1
           /\ sp # 0 => sp = Below(sp) + 1
<1>1. Below(sp) \in Address /\ Below(sp) # 0
  BY BelowFacts DEF Stack
<1>2. Below(Below(sp)) \in Address /\ Below(Below(sp)) = Below(sp) - 1
  BY <1>1, BelowFacts
<1>3. Below(Below(sp)) # 0
  BY DEF Stack
<1>4. sp # 0 => Below(sp) = sp - 1
  BY BelowFacts
<1> QED BY <1>1, <1>2, <1>3, <1>4 DEF Address

\* The entry builds the frame of the program interrupted under the others, or
\* faults; it ends in the kernel and moves no user stack pointer.
LEMMA EnterFacts ==
    ASSUME IInv, NEW next, next.pc \in Pcs, next.pri \in 0 .. 7, Enter(next)
    PROVE  /\ Good(regs', mem', contexts')
           /\ trapping' \in {NoVec, Fault} /\ overflow' \in BOOLEAN
           /\ ~regs'.curuser
           /\ UserSpOf(regs') = UserSpOf(regs)
           /\ overflow' \/ Len(contexts') > Len(contexts)
<1> DEFINE s == Switched(regs, FALSE)
           sp == s.r6
           a1 == Below(sp)
           a2 == Below(a1)
           c == [at |-> a2, pc |-> regs.pc, ps |-> regs.ps,
                 user |-> regs.curuser, prev |-> regs.prevuser]
<1>1. /\ regs \in Registers /\ MemOK(mem) /\ contexts \in Seq(Contexts)
      /\ Agree(regs) /\ Frames(KernelSpOf(regs), mem, contexts) /\ CsAgree(contexts)
      /\ overflow \in BOOLEAN
  BY IInvIs DEF Good, Others
<1>2. /\ regs.curuser \in BOOLEAN /\ regs.prevuser \in BOOLEAN
      /\ regs.pc \in Pcs /\ regs.ps \in PsWords
  BY <1>1 DEF Registers
<1>3. /\ s \in Registers /\ ~s.curuser /\ UserSpOf(s) = UserSpOf(regs) /\ Agree(s)
      /\ KernelSpOf(s) = KernelSpOf(regs)
  BY <1>1, SwitchedFacts
<1>4. sp \in Address /\ sp = KernelSpOf(regs)
  BY <1>3 DEF Registers, KernelSpOf
<1>5. Frames(sp, mem, contexts)
  BY <1>1, <1>4
<1>6. a1 \in Address /\ a2 \in Address
  BY <1>4, BelowFacts
<1>7. \A x \in Address : /\ [s EXCEPT !.r6 = x] \in Registers
                         /\ ~[s EXCEPT !.r6 = x].curuser
                         /\ [s EXCEPT !.r6 = x].r6 = x
                         /\ UserSpOf([s EXCEPT !.r6 = x]) = UserSpOf(regs)
                         /\ Agree([s EXCEPT !.r6 = x])
  <2> HIDE DEF s
  <2> QED BY <1>3 DEF Registers, UserSpOf, Agree
<1>8. CASE {a1, a2} \subseteq Stack
  <2>1. /\ mem' = [mem EXCEPT ![a1] = regs.ps, ![a2] = regs.pc]
        /\ regs' = Loaded([s EXCEPT !.r6 = a2], next)
        /\ trapping' = NoVec
        /\ contexts' = IF overflow THEN contexts ELSE Append(contexts, c)
        /\ overflow' = overflow
    BY <1>8 DEF Enter, SavedPs
  <2>2. a1 \in Stack /\ a2 \in Stack /\ a2 # 0 /\ a1 = a2 + 1 /\ (sp # 0 => sp = a1 + 1)
    BY <1>4, <1>8, FrameAddresses
  <2> HIDE DEF sp, a1, a2, s
  <2>3. /\ regs' \in Registers /\ ~regs'.curuser /\ regs'.r6 = a2
        /\ UserSpOf(regs') = UserSpOf(regs) /\ Agree(regs')
    <3> DEFINE x == [s EXCEPT !.r6 = a2]
    <3>1. x \in Registers /\ ~x.curuser /\ x.r6 = a2 /\ UserSpOf(x) = UserSpOf(regs)
      BY <1>6, <1>7
    <3>2. regs' = Loaded(x, next)
      BY <2>1
    <3> HIDE DEF x
    <3>3. /\ Loaded(x, next) \in Registers /\ ~Loaded(x, next).curuser
          /\ Loaded(x, next).r6 = x.r6 /\ UserSpOf(Loaded(x, next)) = UserSpOf(x)
          /\ Agree(Loaded(x, next))
      BY <3>1, LoadedFacts
    <3> QED BY <3>1, <3>2, <3>3
  <2>4. KernelSpOf(regs') = a2
    BY <2>3 DEF KernelSpOf
  <2>5. a1 \in Int /\ a2 \in Int /\ sp \in Int /\ a1 # a2
    BY <1>4, <1>6, <2>2 DEF Address
  <2>6. /\ MemOK(mem') /\ mem'[a1] = regs.ps /\ mem'[a2] = regs.pc
        /\ \A x \in Stack : x # a1 /\ x # a2 => mem'[x] = mem[x]
    <3> DEFINE v == regs.ps
               p == regs.pc
    <3>1. mem' = [mem EXCEPT ![a1] = v, ![a2] = p]
      BY <2>1
    <3>2. v \in PsWords /\ p \in Pcs /\ MemOK(mem)
      BY <1>1, <1>2
    <3> HIDE DEF v, p
    <3>3. /\ MemOK(mem') /\ mem'[a1] = v /\ mem'[a2] = p
          /\ \A x \in Stack : x # a1 /\ x # a2 => mem'[x] = mem[x]
      BY <3>1, <3>2, <2>2, <2>5 DEF MemOK
    <3> QED BY <3>3 DEF v, p
  <2>7. ASSUME NEW i \in 1 .. Len(contexts) PROVE sp # 0 /\ sp <= contexts[i].at
    BY <1>5 DEF Frames
  <2>8. contexts # << >> => sp # 0
    <3>1. contexts # << >> => 1 \in 1 .. Len(contexts)
      BY <1>1
    <3> QED BY <3>1, <2>7
  <2>9. Frames(a2, mem', contexts)
    <3>1. \A x \in Stack : x >= sp /\ sp # 0 => mem'[x] = mem[x]
      BY <2>2, <2>5, <2>6 DEF Stack
    <3>2. contexts # << >> => a2 # 0 /\ a2 <= sp
      BY <2>2, <2>5, <2>8
    <3>3. CASE sp # 0
      BY <1>1, <1>4, <1>5, <1>6, <3>1, <3>2, <3>3, FramesBelow
    <3>4. CASE sp = 0
      <4>1. Len(contexts) = 0
        BY <1>1, <2>8, <3>4
      <4> QED BY <4>1 DEF Frames
    <3> QED BY <3>3, <3>4
  <2>10. c \in Contexts /\ c.at = a2 /\ c.pc = regs.pc /\ c.ps = regs.ps
         /\ c.user = regs.curuser /\ c.prev = regs.prevuser
    BY <1>2, <2>2 DEF Contexts
  <2> HIDE DEF c
  <2>11. CASE overflow
    BY <1>1, <2>1, <2>3, <2>4, <2>6, <2>9, <2>11 DEF Good
  <2>12. CASE ~overflow
    <3>1. contexts' = Append(contexts, c)
      BY <2>1, <2>12
    <3>2. \A j \in 1 .. Len(contexts) : a2 + 1 < contexts[j].at
      <4> TAKE j \in 1 .. Len(contexts)
      <4>1. contexts[j] \in Contexts
        BY <1>1
      <4>2. contexts[j].at \in Int
        BY <4>1 DEF Contexts, Stack
      <4>3. sp # 0 /\ sp <= contexts[j].at
        BY <2>7
      <4> QED BY <2>2, <2>5, <4>2, <4>3
    <3>3. Frames(a2, mem', Append(contexts, c))
      BY <1>1, <1>6, <2>2, <2>6, <2>9, <2>10, <3>2, FramesAppend
    <3>4. /\ Append(contexts, c) \in Seq(Contexts)
          /\ Len(contexts) \in Nat /\ Len(Append(contexts, c)) = Len(contexts) + 1
          /\ Append(contexts, c)[Len(contexts) + 1] = c
          /\ \A i \in 1 .. Len(contexts) : Append(contexts, c)[i] = contexts[i]
      BY <1>1, <2>10
    <3>5. CsAgree(Append(contexts, c))
      <4> SUFFICES ASSUME NEW i \in 1 .. Len(contexts) + 1
                   PROVE  LET d == Append(contexts, c)[i] IN
                          /\ d.ps.cm \in {0, 3} => d.ps.cm = Bits(d.user)
                          /\ d.ps.pm \in {0, 3} => d.ps.pm = Bits(d.prev)
        BY <3>4 DEF CsAgree
      <4>1. CASE i \in 1 .. Len(contexts)
        BY <1>1, <3>4, <4>1 DEF CsAgree
      <4>2. CASE i = Len(contexts) + 1
        BY <1>1, <2>10, <3>4, <4>2 DEF Agree
      <4> QED BY <3>4, <4>1, <4>2
    <3>6. Good(regs', mem', contexts')
      BY <2>3, <2>4, <2>6, <3>1, <3>3, <3>4, <3>5 DEF Good
    <3>7. Len(contexts') > Len(contexts)
      BY <3>1, <3>4
    <3> QED BY <1>1, <2>1, <2>3, <3>6, <3>7
  <2> QED BY <1>1, <2>1, <2>3, <2>11, <2>12
<1>9. CASE ~({a1, a2} \subseteq Stack)
  <2>1. /\ mem' = IF a1 \in Stack THEN [mem EXCEPT ![a1] = regs.ps] ELSE mem
        /\ regs' = [s EXCEPT !.r6 = IF a1 \in Stack THEN a2 ELSE a1]
        /\ trapping' = Fault /\ overflow' = TRUE /\ contexts' = << >>
    BY <1>9 DEF Enter, SavedPs
  <2> HIDE DEF s, a1, a2
  <2>2. /\ regs' \in Registers /\ ~regs'.curuser /\ UserSpOf(regs') = UserSpOf(regs)
        /\ Agree(regs')
    BY <1>6, <1>7, <2>1
  <2>3. MemOK(mem')
    BY <1>1, <1>2, <2>1 DEF MemOK
  <2>4. contexts' \in Seq(Contexts) /\ Len(contexts') = 0
    BY <2>1
  <2>5. Frames(KernelSpOf(regs'), mem', contexts') /\ CsAgree(contexts')
    BY <2>4 DEF Frames, CsAgree
  <2>6. Good(regs', mem', contexts')
    BY <2>2, <2>3, <2>4, <2>5 DEF Good
  <2> QED BY <2>1, <2>2, <2>6
<1> QED BY <1>8, <1>9

-----------------------------------------------------------------------------
(***************************************************************************)
(* The other steps that change a stack pointer or a mode.                  *)
(***************************************************************************)

\* A return of the kernel stores the saved PS, leaves the other stack pointer
\* alone and, if it is from a handler, takes what the frame holds.
LEMMA KernelReturnFacts ==
    ASSUME IInv, KernelReturn
    PROVE  /\ Good(regs', mem', contexts')
           /\ UserSpOf(regs') = UserSpOf(regs)
           /\ contexts # << >> =>
                  LET c == contexts[Len(contexts)] IN
                  /\ regs'.pc = c.pc /\ regs'.ps = c.ps
                  /\ contexts' = Front(contexts)
<1> DEFINE sp == regs.r6
           p == mem[sp]
           v == mem[Above(sp, 1)]
           up == Above(sp, 2)
           r == [regs EXCEPT !.pc = p, !.r6 = up]
           n == Len(contexts)
<1>1. /\ regs \in Registers /\ MemOK(mem) /\ contexts \in Seq(Contexts)
      /\ Agree(regs) /\ Frames(KernelSpOf(regs), mem, contexts) /\ CsAgree(contexts)
  BY IInvIs DEF Good
<1>2. /\ ~regs.curuser /\ sp \in Address /\ sp \in Stack /\ Above(sp, 1) \in Stack
      /\ p \in Pcs /\ v \in PsWords /\ mem' = mem
      /\ contexts # << >> => AtFrame
      /\ contexts' = IF AtFrame THEN Front(contexts) ELSE contexts
  BY <1>1 DEF KernelReturn, Registers
<1>3. regs' = PsStored(r, v)
  BY DEF KernelReturn
<1>4. up \in Address
  BY <1>2, AboveFacts
<1>5. Frames(sp, mem, contexts)
  BY <1>1, <1>2 DEF KernelSpOf
<1> HIDE DEF sp, p, v, up
<1>6. /\ r \in Registers /\ r.curuser = regs.curuser /\ r.prevuser = regs.prevuser
      /\ r.ps = regs.ps /\ r.r6 = up /\ r.usp = regs.usp /\ r.pc = p
  BY <1>1, <1>2, <1>4 DEF Registers
<1> HIDE DEF r
<1>7. Agree(r) /\ KernelSpOf(r) = up /\ UserSpOf(r) = UserSpOf(regs)
  BY <1>1, <1>2, <1>6 DEF Agree, KernelSpOf, UserSpOf
<1>8. /\ regs' \in Registers /\ regs'.ps = v /\ regs'.pc = p
      /\ KernelSpOf(regs') = up /\ UserSpOf(regs') = UserSpOf(regs) /\ Agree(regs')
  BY <1>2, <1>3, <1>6, <1>7, PsStoredFacts
<1>9. CASE contexts = << >>
  <2>1. contexts' = contexts /\ Len(contexts') = 0
    BY <1>2, <1>9 DEF AtFrame
  <2>2. Frames(up, mem', contexts') /\ CsAgree(contexts')
    BY <2>1 DEF Frames, CsAgree
  <2> QED BY <1>1, <1>2, <1>8, <1>9, <2>1, <2>2 DEF Good
<1>10. CASE contexts # << >>
  <2>1. sp = contexts[n].at /\ contexts' = Front(contexts)
    BY <1>2, <1>10 DEF AtFrame, Last, sp
  <2>2. /\ n \in Nat \ {0} /\ Front(contexts) \in Seq(Contexts)
        /\ Len(Front(contexts)) = n - 1
        /\ \A i \in 1 .. n - 1 : Front(contexts)[i] = contexts[i]
    BY <1>1, <1>10, FrontFacts
  <2>3. Frames(up, mem, Front(contexts))
    BY <1>1, <1>2, <1>5, <1>10, <2>1, FramesPop DEF up
  <2>4. CsAgree(Front(contexts))
    <3>1. \A i \in 1 .. n - 1 : i \in 1 .. Len(contexts)
      BY <2>2
    <3> QED BY <1>1, <2>2, <3>1 DEF CsAgree
  <2>5. Good(regs', mem', contexts')
    BY <1>1, <1>2, <1>8, <2>1, <2>2, <2>3, <2>4 DEF Good
  <2>6. /\ sp + 1 \in Stack
        /\ mem[sp] = contexts[n].pc /\ mem[sp + 1] = contexts[n].ps
    BY <1>5, <2>1, <2>2 DEF Frames
  <2>7. Above(sp, 1) = sp + 1
    <3>1. sp + 1 < Words
      BY <2>6 DEF Stack
    <3> QED BY <1>2, <3>1, AboveFacts
  <2>8. p = contexts[n].pc /\ v = contexts[n].ps
    BY <2>6, <2>7 DEF p, v
  <2> QED BY <1>8, <2>1, <2>5, <2>8
<1> QED BY <1>9, <1>10

\* A return of a user program keeps the modes; only the user's stack moves.
LEMMA UserReturnFacts ==
    ASSUME IInv, UserReturn
    PROVE  /\ Good(regs', mem', contexts')
           /\ regs'.curuser
           /\ KernelSpOf(regs') = KernelSpOf(regs)
           /\ regs'.ps.cm = regs.ps.cm /\ regs'.ps.pm = regs.ps.pm
           /\ regs'.ps.pri \div 2 = regs.ps.pri \div 2
<1>1. /\ regs \in Registers /\ MemOK(mem) /\ contexts \in Seq(Contexts)
      /\ Agree(regs) /\ Frames(KernelSpOf(regs), mem, contexts) /\ CsAgree(contexts)
  BY IInvIs DEF Good
<1>2. regs.curuser = TRUE /\ mem' = mem /\ contexts' = contexts
  BY <1>1 DEF UserReturn, Registers
<1>3. PICK p \in Pcs, x \in Stored, sp \in UserStacks :
          regs' = PsStored([regs EXCEPT !.pc = p, !.r6 = sp], UserWord(x))
  BY DEF UserReturn
<1> DEFINE r == [regs EXCEPT !.pc = p, !.r6 = sp]
           v == UserWord(x)
           q == 2 * (regs.ps.pri \div 2) + (x.pri % 2)
<1>4. regs.ps \in PsWords /\ x \in PsWords /\ sp \in Address
  BY <1>1 DEF Registers
<1>5. regs.ps.pri \in 0 .. 7 /\ x.pri \in 0 .. 7
  BY <1>4 DEF PsWords
<1>6. q \in 0 .. 7 /\ q \div 2 = regs.ps.pri \div 2
  BY <1>5
<1>7. v = [regs.ps EXCEPT !.pri = q]
  BY DEF UserWord
<1> HIDE DEF q, v
<1>8. v \in PsWords /\ v.cm = regs.ps.cm /\ v.pm = regs.ps.pm /\ v.pri = q
  BY <1>4, <1>6, <1>7 DEF PsWords
<1>9. /\ r \in Registers /\ r.curuser = regs.curuser /\ r.prevuser = regs.prevuser
      /\ r.ps = regs.ps /\ r.ksp = regs.ksp
  BY <1>1, <1>4 DEF Registers
<1>10. regs' = PsStored(r, v)
  BY <1>3 DEF v
<1> HIDE DEF r
<1>11. Agree(r) /\ KernelSpOf(r) = KernelSpOf(regs)
  BY <1>1, <1>2, <1>9 DEF Agree, KernelSpOf
<1>12. /\ regs' \in Registers /\ regs'.ps = v
       /\ v.cm \notin {0, 3} => regs'.curuser = r.curuser
       /\ KernelSpOf(regs') = KernelSpOf(regs) /\ Agree(regs')
  BY <1>8, <1>9, <1>10, <1>11, PsStoredFacts
<1>13. regs'.curuser = TRUE
  <2>1. CASE v.cm \in {0, 3}
    <3>1. v.cm = Bits(regs.curuser) /\ v.cm = Bits(regs'.curuser)
      BY <1>1, <1>8, <1>12, <2>1 DEF Agree
    <3>2. regs'.curuser \in BOOLEAN
      BY <1>12 DEF Registers
    <3> QED BY <1>2, <3>1, <3>2 DEF Bits
  <2>2. CASE v.cm \notin {0, 3}
    BY <1>2, <1>9, <1>12, <2>2
  <2> QED BY <2>1, <2>2
<1>14. Good(regs', mem', contexts')
  BY <1>1, <1>2, <1>12 DEF Good
<1> QED BY <1>6, <1>8, <1>12, <1>13, <1>14

\* Another instruction of the user moves the user's stack pointer only.
LEMMA UserStepFacts ==
    ASSUME IInv, UserStep
    PROVE  /\ Good(regs', mem', contexts')
           /\ regs'.curuser /\ regs'.ps = regs.ps
           /\ KernelSpOf(regs') = KernelSpOf(regs)
<1>1. /\ regs \in Registers /\ MemOK(mem) /\ contexts \in Seq(Contexts)
      /\ Agree(regs) /\ Frames(KernelSpOf(regs), mem, contexts) /\ CsAgree(contexts)
  BY IInvIs DEF Good
<1>2. regs.curuser = TRUE /\ mem' = mem /\ contexts' = contexts
  BY <1>1 DEF UserStep, Registers
<1>3. PICK p \in Pcs, sp \in UserStacks : regs' = [regs EXCEPT !.pc = p, !.r6 = sp]
  BY DEF UserStep
<1>4. sp \in Address
  OBVIOUS
<1>5. /\ regs' \in Registers /\ regs'.curuser = regs.curuser
      /\ regs'.prevuser = regs.prevuser /\ regs'.ps = regs.ps /\ regs'.ksp = regs.ksp
  BY <1>1, <1>3, <1>4 DEF Registers
<1>6. Agree(regs') /\ KernelSpOf(regs') = KernelSpOf(regs)
  BY <1>1, <1>2, <1>5 DEF Agree, KernelSpOf
<1> QED BY <1>1, <1>2, <1>5, <1>6 DEF Good

\* A push of the kernel goes below every frame, or loses the stack.
LEMMA KernelPushFacts ==
    ASSUME IInv, KernelPush
    PROVE  /\ Good(regs', mem', contexts')
           /\ overflow' \in BOOLEAN /\ trapping' \in {trapping, Fault}
           /\ regs'.usp = regs.usp /\ regs'.curuser = regs.curuser
           /\ overflow' \/ contexts' = contexts
<1> DEFINE a == Below(regs.r6)
<1>1. /\ regs \in Registers /\ MemOK(mem) /\ contexts \in Seq(Contexts)
      /\ Agree(regs) /\ Frames(KernelSpOf(regs), mem, contexts) /\ CsAgree(contexts)
      /\ overflow \in BOOLEAN
  BY IInvIs DEF Good, Others
<1>2. regs.curuser = FALSE /\ regs.r6 \in Address /\ a \in Address
  BY <1>1, BelowFacts DEF KernelPush, Registers
<1>3. /\ regs' = [regs EXCEPT !.r6 = a]
      /\ a \in Stack => /\ mem' = [mem EXCEPT ![a] = Data] /\ trapping' = trapping
                        /\ overflow' = overflow /\ contexts' = contexts
      /\ a \notin Stack => /\ mem' = mem /\ trapping' = Fault
                           /\ overflow' = TRUE /\ contexts' = << >>
  BY DEF KernelPush
<1>4. regs.r6 # 0 => a = regs.r6 - 1
  BY <1>2, BelowFacts
<1> HIDE DEF a
<1>5. /\ regs' \in Registers /\ regs'.curuser = regs.curuser /\ regs'.r6 = a
      /\ regs'.prevuser = regs.prevuser /\ regs'.ps = regs.ps /\ regs'.usp = regs.usp
  BY <1>1, <1>2, <1>3 DEF Registers
<1>6. Agree(regs') /\ KernelSpOf(regs') = a /\ KernelSpOf(regs) = regs.r6
  BY <1>1, <1>2, <1>5 DEF Agree, KernelSpOf
<1>7. CASE a \in Stack
  <2>1. contexts # << >> => regs.r6 # 0
    <3>1. contexts # << >> => 1 \in 1 .. Len(contexts)
      BY <1>1
    <3> QED BY <1>1, <1>6, <3>1 DEF Frames
  <2>2. regs.r6 \in Int /\ a \in Int /\ a # 0
    BY <1>2, <1>7 DEF Address, Stack
  <2>3. /\ MemOK(mem')
        /\ \A x \in Stack : x # a => mem'[x] = mem[x]
    BY <1>1, <1>3, <1>7 DEF MemOK
  <2>4. Frames(a, mem', contexts)
    <3>1. CASE contexts # << >>
      <4>1. a < regs.r6
        BY <1>4, <2>1, <2>2, <3>1
      <4>2. \A x \in Stack : x >= regs.r6 => mem'[x] = mem[x]
        BY <2>2, <2>3, <4>1 DEF Stack
      <4> QED BY <1>1, <1>2, <1>6, <2>2, <4>1, <4>2, FramesBelow
    <3>2. CASE contexts = << >>
      BY <3>2 DEF Frames
    <3> QED BY <3>1, <3>2
  <2> QED BY <1>1, <1>3, <1>5, <1>6, <1>7, <2>3, <2>4 DEF Good
<1>8. CASE a \notin Stack
  <2>1. contexts' \in Seq(Contexts) /\ Len(contexts') = 0
    BY <1>3, <1>8
  <2>2. Frames(a, mem', contexts') /\ CsAgree(contexts')
    BY <2>1 DEF Frames, CsAgree
  <2> QED BY <1>1, <1>3, <1>5, <1>6, <1>8, <2>1, <2>2 DEF Good
<1> QED BY <1>7, <1>8

\* A pop of the kernel, of MTPI's too, stops at the last frame.
LEMMA PopFacts ==
    ASSUME IInv, ~regs.curuser, Poppable, UNCHANGED <<mem, contexts>>,
           NEW p \in Pcs, NEW u \in Address,
           regs' = [regs EXCEPT !.r6 = Above(@, 1), !.pc = p, !.usp = u]
    PROVE  /\ Good(regs', mem', contexts')
           /\ regs'.curuser = regs.curuser /\ regs'.usp = u
           /\ regs'.r6 = Above(regs.r6, 1)
<1> DEFINE a == Above(regs.r6, 1)
<1>1. /\ regs \in Registers /\ MemOK(mem) /\ contexts \in Seq(Contexts)
      /\ Agree(regs) /\ Frames(KernelSpOf(regs), mem, contexts) /\ CsAgree(contexts)
  BY IInvIs DEF Good
<1>2. regs.curuser = FALSE /\ regs.r6 \in Address /\ a \in Address
  BY <1>1, AboveFacts DEF Registers
<1>3. regs' = [regs EXCEPT !.r6 = a, !.pc = p, !.usp = u]
  OBVIOUS
<1>4. Frames(a, mem, contexts)
  <2>1. contexts # << >> => regs.r6 # contexts[Len(contexts)].at
    BY DEF Poppable, AtFrame, Last
  <2>2. Frames(regs.r6, mem, contexts)
    BY <1>1, <1>2 DEF KernelSpOf
  <2> QED BY <1>1, <1>2, <2>1, <2>2, FramesUp
<1> HIDE DEF a
<1>5. /\ regs' \in Registers /\ regs'.curuser = regs.curuser /\ regs'.r6 = a
      /\ regs'.prevuser = regs.prevuser /\ regs'.ps = regs.ps /\ regs'.usp = u
  BY <1>1, <1>2, <1>3 DEF Registers
<1>6. Agree(regs') /\ KernelSpOf(regs') = a
  BY <1>1, <1>2, <1>5 DEF Agree, KernelSpOf
<1>7. Good(regs', mem', contexts')
  BY <1>1, <1>4, <1>5, <1>6 DEF Good
<1> QED BY <1>5, <1>7 DEF a

\* KernelPop is such a pop ...
LEMMA KernelPopFacts ==
    ASSUME IInv, KernelPop
    PROVE  /\ Good(regs', mem', contexts')
           /\ regs'.curuser = regs.curuser /\ regs'.usp = regs.usp
<1>1. regs \in Registers /\ regs.usp \in Address
  BY IInvIs DEF Good, Registers
<1>2. PICK p \in Pcs : regs' = [regs EXCEPT !.r6 = Above(@, 1), !.pc = p]
  BY DEF KernelPop
<1>3. regs' = [regs EXCEPT !.r6 = Above(@, 1), !.pc = p, !.usp = regs.usp]
  BY <1>1, <1>2 DEF Registers
<1> QED BY <1>1, <1>3, PopFacts DEF KernelPop

\* ... and so is Mtpi.
LEMMA MtpiFacts ==
    ASSUME IInv, Mtpi
    PROVE  /\ Good(regs', mem', contexts')
           /\ regs'.curuser = regs.curuser /\ regs'.usp \in Address
           /\ regs'.r6 = Above(regs.r6, 1)
<1>1. regs \in Registers /\ regs.pc \in Pcs
  BY IInvIs DEF Good, Registers
<1>2. PICK u \in UserStacks : regs' = [regs EXCEPT !.r6 = Above(@, 1), !.usp = u]
  BY DEF Mtpi
<1>3. regs' = [regs EXCEPT !.r6 = Above(@, 1), !.pc = regs.pc, !.usp = u]
  BY <1>1, <1>2 DEF Registers
<1>4. u \in Address
  OBVIOUS
<1> QED BY <1>1, <1>3, <1>4, PopFacts DEF Mtpi

\* A store into PS moves no stack pointer.
LEMMA StorePsFacts ==
    ASSUME IInv, StorePs
    PROVE  /\ Good(regs', mem', contexts')
           /\ UserSpOf(regs') = UserSpOf(regs)
<1>1. /\ regs \in Registers /\ MemOK(mem) /\ contexts \in Seq(Contexts)
      /\ Agree(regs) /\ Frames(KernelSpOf(regs), mem, contexts) /\ CsAgree(contexts)
  BY IInvIs DEF Good
<1>2. PICK v \in Stored : regs' = PsStored(regs, v)
  BY DEF StorePs
<1>3. v \in PsWords
  OBVIOUS
<1>4. /\ regs' \in Registers /\ KernelSpOf(regs') = KernelSpOf(regs)
      /\ UserSpOf(regs') = UserSpOf(regs) /\ Agree(regs')
  BY <1>1, <1>2, <1>3, PsStoredFacts
<1>5. mem' = mem /\ contexts' = contexts
  BY DEF StorePs
<1> QED BY <1>1, <1>4, <1>5 DEF Good

\* The vectors are those of a handler.
LEMMA VectorFacts ==
    /\ \A v \in Traps \cup {Fault} : v.pc \in Pcs /\ v.pri \in 0 .. 7 /\ v # NoVec
    /\ \A l \in Lines : l.pc \in Pcs /\ l.pri \in 0 .. 7
<1>1. ASSUME NEW v \in Traps \cup {Fault} PROVE v.pc \in Pcs /\ v.pri \in 0 .. 7
  <2>1. v \in [pc : Pcs, pri : 0 .. 7]
    OBVIOUS
  <2> QED BY <2>1
<1>2. ASSUME NEW v \in Traps \cup {Fault} PROVE v # NoVec
  <2>1. NoVec.pc = Data
    BY DEF NoVec
  <2> QED BY <1>1, <2>1
<1>3. ASSUME NEW l \in Lines PROVE l.pc \in Pcs /\ l.pri \in 0 .. 7
  <2>1. l \in [pc : Pcs, pri : 0 .. 7, level : 0 .. 7]
    OBVIOUS
  <2> QED BY <2>1
<1> QED BY <1>1, <1>2, <1>3

\* A trap or an interrupt, taken or taken again, is an entry.
LEMMA EntryFacts ==
    ASSUME IInv, Emt \/ TrapAt \/ HandleInterrupt
    PROVE  /\ Good(regs', mem', contexts')
           /\ Others(trapping', servicing', overflow')
           /\ ~regs'.curuser
           /\ UserSpOf(regs') = UserSpOf(regs)
           /\ overflow' \/ Len(contexts') > Len(contexts)
<1>1. Others(trapping, servicing, overflow)
  BY IInvIs
<1>2. \E v : v.pc \in Pcs /\ v.pri \in 0 .. 7 /\ Enter(v)
  <2>1. CASE Emt
    BY <2>1, VectorFacts DEF Emt
  <2>2. CASE TrapAt
    <3>1. Enter(IF servicing = NoVec THEN trapping ELSE servicing) /\ trapping # NoVec
      BY <2>2 DEF TrapAt
    <3>2. CASE servicing = NoVec
      BY <1>1, <3>1, <3>2, VectorFacts DEF Others
    <3>3. CASE servicing # NoVec
      BY <1>1, <3>1, <3>3, VectorFacts DEF Others
    <3> QED BY <3>2, <3>3
  <2>3. CASE HandleInterrupt
    BY <2>3, VectorFacts DEF HandleInterrupt
  <2> QED BY <2>1, <2>2, <2>3
<1>3. servicing' \in Lines \cup {NoVec}
  BY <1>1 DEF Others, Emt, TrapAt, HandleInterrupt
<1>4. PICK v : v.pc \in Pcs /\ v.pri \in 0 .. 7 /\ Enter(v)
  BY <1>2
<1>5. /\ Good(regs', mem', contexts')
      /\ trapping' \in {NoVec, Fault} /\ overflow' \in BOOLEAN
      /\ ~regs'.curuser
      /\ UserSpOf(regs') = UserSpOf(regs)
      /\ overflow' \/ Len(contexts') > Len(contexts)
  BY <1>4, EnterFacts
<1> QED BY <1>3, <1>5 DEF Others

-----------------------------------------------------------------------------
(***************************************************************************)
(* The inductive invariant and what follows from it.                       *)
(***************************************************************************)

\* Every step keeps it.
LEMMA NextGood == IInv /\ [Next]_vars => IInv'
<1> SUFFICES ASSUME IInv, [Next]_vars PROVE IInv'
  OBVIOUS
<1>1. /\ Good(regs, mem, contexts) /\ Others(trapping, servicing, overflow)
  BY IInvIs
<1>2. CASE Emt \/ TrapAt \/ HandleInterrupt
  BY <1>2, EntryFacts, IInvPrimeIs
<1>3. CASE Trap
  <2>1. /\ regs' = regs /\ mem' = mem /\ contexts' = contexts
        /\ trapping' \in Traps \cup {Fault} /\ servicing' = servicing /\ overflow' = overflow
    BY <1>3 DEF Trap
  <2> QED BY <1>1, <2>1, IInvPrimeIs DEF Others
<1>4. CASE KernelReturn
  BY <1>1, <1>4, KernelReturnFacts, IInvPrimeIs DEF KernelReturn, Others
<1>5. CASE UserReturn
  BY <1>1, <1>5, UserReturnFacts, IInvPrimeIs DEF UserReturn, Others
<1>6. CASE UserStep
  BY <1>1, <1>6, UserStepFacts, IInvPrimeIs DEF UserStep, Others
<1>7. CASE KernelPush
  <2>1. servicing' = servicing
    BY <1>7 DEF KernelPush
  <2>2. Good(regs', mem', contexts') /\ overflow' \in BOOLEAN /\ trapping' \in {trapping, Fault}
    BY <1>7, KernelPushFacts
  <2> QED BY <1>1, <2>1, <2>2, IInvPrimeIs DEF Others
<1>8. CASE KernelPop
  BY <1>1, <1>8, KernelPopFacts, IInvPrimeIs DEF KernelPop, Others
<1>9. CASE Mtpi
  BY <1>1, <1>9, MtpiFacts, IInvPrimeIs DEF Mtpi, Others
<1>10. CASE StorePs
  BY <1>1, <1>10, StorePsFacts, IInvPrimeIs DEF StorePs, Others
<1>11. CASE Stopped \/ UNCHANGED vars
  BY <1>1, <1>11, IInvPrimeIs DEF Stopped, vars
<1> QED BY <1>2, <1>3, <1>4, <1>5, <1>6, <1>7, <1>8, <1>9, <1>10, <1>11 DEF Next

\* The invariant holds for ever.
THEOREM Invariance == Spec => []IInv
<1> QED BY InitGood, NextGood, PTL DEF Spec

\* Registers, stack, vectors and histories have their types.
THEOREM TypeCorrect == Spec => []TypeOK
<1>1. IInv => TypeOK
  BY DEF IInv
<1> QED BY <1>1, Invariance, PTL

\* curuser and prevuser agree with the mode fields of PS.
THEOREM ModesAlwaysAgree == Spec => []ModesAgree
<1>1. IInv => ModesAgree
  BY DEF IInv
<1> QED BY <1>1, Invariance, PTL

\* The frames of all programs interrupted stay in the kernel stack, however
\* deep traps and interrupts nest and whatever happens on top of them.
THEOREM FramesStayIntact == Spec => []FramesIntact
<1>1. IInv => FramesIntact
  BY DEF IInv
<1> QED BY <1>1, Invariance, PTL

\* A return resumes the program interrupted.
THEOREM ReturnResumes == Spec => ResumesInterrupted
<1> DEFINE c == Last(contexts)
           Resumed == /\ regs'.pc = c.pc /\ regs'.ps = c.ps
                      /\ c.ps.cm \in {0, 3} => regs'.curuser = c.user
                      /\ c.ps.pm \in {0, 3} => regs'.prevuser = c.prev
           Resumes == contexts # << >> /\ ~overflow' /\ Len(contexts') < Len(contexts) => Resumed
<1>1. ASSUME IInv, [Next]_vars PROVE [Resumes]_vars
  <2> SUFFICES ASSUME contexts # << >>, ~overflow', Len(contexts') < Len(contexts)
               PROVE  Resumed
    OBVIOUS
  <2>1. Good(regs, mem, contexts) /\ contexts \in Seq(Contexts) /\ Len(contexts) \in Nat
    BY <1>1, IInvIs DEF Good
  <2>2. KernelReturn
    <3>1. contexts' # contexts
      BY <2>1
    <3>2. ~(Emt \/ TrapAt \/ HandleInterrupt)
      <4>1. ~(Len(contexts') > Len(contexts))
        <5>1. Good(regs', mem', contexts')
          BY <1>1, NextGood, IInvPrimeIs
        <5>2. Len(contexts') \in Nat
          BY <5>1 DEF Good
        <5> QED BY <2>1, <5>2
      <4> QED BY <1>1, <4>1, EntryFacts
    <3>3. ~KernelPush
      BY <1>1, <3>1, KernelPushFacts
    <3>4. ~(Trap \/ UserReturn \/ UserStep \/ KernelPop \/ Mtpi \/ StorePs \/ Stopped)
      BY <3>1 DEF Trap, UserReturn, UserStep, KernelPop, Mtpi, StorePs, Stopped, vars
    <3> QED BY <1>1, <3>1, <3>2, <3>3, <3>4 DEF Next, vars
  <2>3. /\ regs'.pc = c.pc /\ regs'.ps = c.ps /\ Good(regs', mem', contexts')
    BY <1>1, <2>2, KernelReturnFacts DEF Last
  <2>4. /\ c.ps.cm \in {0, 3} => c.ps.cm = Bits(c.user)
        /\ c.ps.pm \in {0, 3} => c.ps.pm = Bits(c.prev)
    <3>1. Len(contexts) \in 1 .. Len(contexts)
      BY <2>1
    <3> QED BY <2>1, <3>1 DEF Good, CsAgree, Last
  <2>5. /\ c.ps.cm \in {0, 3} => c.ps.cm = Bits(regs'.curuser)
        /\ c.ps.pm \in {0, 3} => c.ps.pm = Bits(regs'.prevuser)
    BY <2>3 DEF Good, Agree
  <2>6. regs'.curuser \in BOOLEAN /\ regs'.prevuser \in BOOLEAN
    BY <2>3 DEF Good, Registers
  <2>7. c.user \in BOOLEAN /\ c.prev \in BOOLEAN
    <3>1. c \in Contexts
      BY <2>1 DEF Last
    <3> QED BY <3>1 DEF Contexts
  <2>8. \A x \in BOOLEAN, y \in BOOLEAN : Bits(x) = Bits(y) => x = y
    BY DEF Bits
  <2> HIDE DEF c
  <2> QED BY <2>3, <2>4, <2>5, <2>6, <2>7, <2>8
<1>2. Spec => [][Resumes]_vars
  BY <1>1, Invariance, PTL DEF Spec
<1> QED BY <1>2 DEF ResumesInterrupted

\* The user leaves its mode by a trap or an interrupt only.
THEOREM UserStaysConfined == Spec => UserConfined
<1> DEFINE Confined ==
             regs.curuser =>
               \/ ~regs'.curuser /\ (overflow' \/ Len(contexts') > Len(contexts))
               \/ /\ regs'.curuser
                  /\ regs'.ps.cm = regs.ps.cm /\ regs'.ps.pm = regs.ps.pm
                  /\ regs'.ps.pri \div 2 = regs.ps.pri \div 2
<1>1. ASSUME IInv, [Next]_vars PROVE [Confined]_vars
  <2> SUFFICES ASSUME regs.curuser, vars' # vars PROVE Confined
    OBVIOUS
  <2>1. CASE Emt \/ TrapAt \/ HandleInterrupt
    BY <1>1, <2>1, EntryFacts
  <2>2. CASE UserReturn
    BY <1>1, <2>2, UserReturnFacts
  <2>3. CASE UserStep
    BY <1>1, <2>3, UserStepFacts
  <2>4. CASE Trap
    BY <2>4 DEF Trap
  <2>5. ~(KernelReturn \/ KernelPush \/ KernelPop \/ Mtpi \/ StorePs \/ Stopped)
    BY DEF KernelReturn, KernelPush, KernelPop, Mtpi, StorePs, Stopped
  <2> QED BY <1>1, <2>1, <2>2, <2>3, <2>4, <2>5 DEF Next
<1>2. Spec => [][Confined]_vars
  BY <1>1, Invariance, PTL DEF Spec
<1> QED BY <1>2 DEF UserConfined

-----------------------------------------------------------------------------
(***************************************************************************)
(* The banked R6 implements the two stack pointers of StackPointers.       *)
(***************************************************************************)

\* R6, KSP and USP, read through the mode, are two stack pointers, and only
\* the user and MTPI move the user's.
THEOREM BanksImplementStackPointers == Spec => StackPointersBanked
<1> DEFINE K == KernelSpOf(regs)
           U == UserSpOf(regs)
<1>1. ASSUME Init PROVE Banks!SpInit
  <2>1. regs \in Registers /\ regs.curuser = FALSE
    BY <1>1, InitGood, IInvIs DEF Good, Init
  <2> QED BY <2>1 DEF Banks!SpInit, Banks!Address, Address, KernelSp, Registers
<1>2. ASSUME IInv, IInv', [Next]_vars PROVE [Banks!SpNext]_(Banks!spvars)
  <2>1. regs \in Registers /\ regs' \in Registers
    BY <1>2, IInvIs, IInvPrimeIs DEF Good
  <2>2. /\ KernelSp = K /\ KernelSp' = K'
        /\ U = IF regs.curuser THEN regs.r6 ELSE regs.usp
        /\ U' = IF regs'.curuser THEN regs'.r6 ELSE regs'.usp
    BY DEF KernelSp, KernelSpOf, UserSpOf
  <2>3. K' \in Address /\ U' \in Address
    BY <2>1 DEF Registers, KernelSpOf, UserSpOf
  <2>4. regs.curuser \in BOOLEAN /\ regs'.curuser \in BOOLEAN
    BY <2>1 DEF Registers
  <2>5. ASSUME ~regs.curuser \/ ~regs'.curuser, U' = U PROVE Banks!KernelStep
    BY <2>2, <2>3, <2>4, <2>5 DEF Banks!KernelStep, Banks!Address, Address
  <2>6. ASSUME regs.curuser, regs'.curuser, K' = K PROVE Banks!UserStep
    BY <2>2, <2>3, <2>4, <2>6 DEF Banks!UserStep, Banks!Address, Address
  <2>7. CASE Emt \/ TrapAt \/ HandleInterrupt
    BY <1>2, <2>5, <2>7, EntryFacts DEF Banks!SpNext
  <2>8. CASE KernelReturn
    BY <1>2, <2>5, <2>8, KernelReturnFacts DEF Banks!SpNext, KernelReturn
  <2>9. CASE UserReturn
    BY <1>2, <2>6, <2>9, UserReturnFacts DEF Banks!SpNext, UserReturn
  <2>10. CASE UserStep
    BY <1>2, <2>6, <2>10, UserStepFacts DEF Banks!SpNext, UserStep
  <2>11. CASE KernelPush
    <3>1. ~regs.curuser /\ regs'.curuser = regs.curuser /\ regs'.usp = regs.usp
      BY <1>2, <2>11, KernelPushFacts DEF KernelPush
    <3> QED BY <2>5, <3>1 DEF Banks!SpNext, UserSpOf
  <2>12. CASE KernelPop
    <3>1. ~regs.curuser /\ regs'.curuser = regs.curuser /\ regs'.usp = regs.usp
      BY <1>2, <2>12, KernelPopFacts DEF KernelPop
    <3> QED BY <2>5, <3>1 DEF Banks!SpNext, UserSpOf
  <2>13. CASE Mtpi
    <3>1. /\ regs.curuser = FALSE /\ regs'.curuser = FALSE
          /\ regs'.r6 = Above(regs.r6, 1)
      BY <1>2, <2>4, <2>13, MtpiFacts DEF Mtpi
    <3>2. KernelSp = regs.r6 /\ KernelSp' = regs'.r6
      BY <3>1 DEF KernelSp
    <3>3. Banks!SetUser
      BY <2>2, <2>3, <3>1, <3>2 DEF Banks!SetUser, Banks!Address, Address, Above
    <3> QED BY <3>3 DEF Banks!SpNext
  <2>14. CASE StorePs
    BY <1>2, <2>5, <2>14, StorePsFacts DEF Banks!SpNext, StorePs
  <2>15. CASE Trap \/ Stopped \/ UNCHANGED vars
    <3>1. regs' = regs
      BY <2>15 DEF Trap, Stopped, vars
    <3> QED BY <3>1 DEF Banks!spvars, KernelSp
  <2> QED BY <1>2, <2>7, <2>8, <2>9, <2>10, <2>11, <2>12, <2>13, <2>14, <2>15 DEF Next
<1>3. Spec => Banks!SpSpec
  BY <1>1, <1>2, Invariance, PTL DEF Spec, Banks!SpSpec
<1> QED BY <1>3 DEF StackPointersBanked
=============================================================================
