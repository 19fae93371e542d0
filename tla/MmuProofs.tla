------------------------------- MODULE MmuProofs -------------------------------
(***************************************************************************)
(* Proofs about Mmu, for every size of page, core and bus and every value  *)
(* the kernel may store.                                                   *)
(***************************************************************************)
EXTENDS Mmu, TLAPS

USE MmuAssumption

\* What is inductive: the invariants of the runs, as they stand.
IInv == TypeOK /\ WrittenMarked /\ AbortExplained

-----------------------------------------------------------------------------
\* An entry that fails a test of decode() refuses for that reason by the reference.
LEMMA AbortRefuses ==
    ASSUME NEW d \in Pdrs, NEW b \in Blocks, NEW w \in BOOLEAN, AbortOf(d, b, w) # "none"
    PROVE  Refuses(d, AbortOf(d, b, w)) /\ AbortOf(d, b, w) \in Aborts
<1>1. CASE AbortOf(d, b, w) = "readonly"
  BY <1>1 DEF AbortOf, Refuses, Aborts
<1>2. CASE AbortOf(d, b, w) = "nonresident"
  BY <1>2 DEF AbortOf, Refuses, Aborts
<1>3. CASE AbortOf(d, b, w) = "length"
  <2>1. Outside(d, b) /\ d.acf \in {1, 3}
    BY <1>3 DEF AbortOf, Pdrs
  <2>2. b \notin Given(d)
    BY <2>1 DEF Outside, Given, Blocks, Pdrs
  <2> QED BY <1>3, <2>2 DEF Refuses, Aborts
<1> QED BY <1>1, <1>2, <1>3 DEF AbortOf

\* A page that passes the tests of decode() is given by the reference.
LEMMA PassedGiven ==
    ASSUME NEW d \in Pdrs, NEW b \in Blocks, NEW w \in BOOLEAN, AbortOf(d, b, w) = "none"
    PROVE  b \in Given(d)
BY DEF AbortOf, Outside, Given, Blocks, Pdrs

\* Whether an entry refuses does not depend on its W bit.
LEMMA RefusesWhateverW ==
    ASSUME NEW d \in Pdrs, NEW why \in Aborts
    PROVE  Refuses([d EXCEPT !.w = TRUE], why) <=> Refuses(d, why)
<1> DEFINE m == [d EXCEPT !.w = TRUE]
<1>1. m.acf = d.acf /\ m.down = d.down /\ m.len = d.len
  BY DEF Pdrs
<1>2. Given(m) = Given(d)
  BY <1>1 DEF Given
<1> QED BY <1>1, <1>2 DEF Refuses, Aborts

\* The mark of decode() keeps the PDRs PDRs and their other fields.
LEMMA MarkedFacts ==
    ASSUME TypeOK, NEW e \in Entries
    PROVE  /\ Marked(e) \in [Entries -> Pdrs]
           /\ Marked(e)[e].w
           /\ \A t \in Entries : Marked(e)[t] = [pdr[t] EXCEPT !.w = Marked(e)[t].w]
           /\ \A t \in Entries : pdr[t].w => Marked(e)[t].w
BY ZenonT(60) DEF TypeOK, Marked, Pdrs

-----------------------------------------------------------------------------
(***************************************************************************)
(* What Access does, for both settings of SR0: the PDRs and the set of     *)
(* written entries after decode() are such that the invariant holds.       *)
(***************************************************************************)
After(m, d) ==
    /\ m \in [Entries -> Pdrs]
    /\ d \subseteq Entries
    /\ \A t \in d : m[t].w
    /\ \A t \in Entries : m[t] = [pdr[t] EXCEPT !.w = m[t].w]

\* The mark of decode(), set or not, leaves such PDRs.
LEMMA DecodeAfter ==
    ASSUME IInv, NEW e \in Entries, NEW w \in BOOLEAN
    PROVE  After(IF w /\ sr0.enabled THEN Marked(e) ELSE pdr,
                 IF w /\ sr0.enabled THEN dirty \cup {e} ELSE dirty)
<1>1. CASE w /\ sr0.enabled
  BY <1>1, MarkedFacts DEF After, IInv, TypeOK, WrittenMarked
<1>2. CASE ~(w /\ sr0.enabled)
  <2>1. \A t \in Entries : pdr[t] = [pdr[t] EXCEPT !.w = pdr[t].w]
    BY DEF IInv, TypeOK, Pdrs
  <2> QED BY <1>2, <2>1 DEF After, IInv, TypeOK, WrittenMarked
<1> QED BY <1>1, <1>2

\* So the entry that refused still refuses.
LEMMA AfterRefuses ==
    ASSUME IInv, NEW m, NEW d, After(m, d), refused # NoEntry, refused' = refused,
           sr0' = sr0
    PROVE  sr0.entry = refused /\ Refuses(m[refused], sr0.abort)
<1>1. refused \in Entries /\ sr0.entry = refused /\ Refuses(pdr[refused], sr0.abort)
  BY DEF IInv, TypeOK, AbortExplained
<1>2. m[refused] = [pdr[refused] EXCEPT !.w = m[refused].w] /\ pdr[refused] \in Pdrs
  BY <1>1 DEF After, IInv, TypeOK
<1>3. /\ m[refused].acf = pdr[refused].acf /\ m[refused].down = pdr[refused].down
      /\ m[refused].len = pdr[refused].len
  BY <1>2 DEF Pdrs
<1>4. Given(m[refused]) = Given(pdr[refused])
  BY <1>3 DEF Given
<1> QED BY <1>1, <1>3, <1>4 DEF Refuses

\* A store into a register keeps the invariant, as far as it is concerned.
LEMMA StoreKeeps ==
    ASSUME IInv, NEW m, NEW d, After(m, d), Store(m, d),
           user' = user, stores' \in 0 .. MaxStores, reached' = IoBlock
    PROVE  IInv'
<1>1. CASE \E t \in Entries, v \in ParsGiven :
               /\ par' = [par EXCEPT ![t] = v] /\ pdr' = m /\ dirty' = d
               /\ UNCHANGED <<sr0, refused>>
  <2>1. TypeOK'
    BY <1>1 DEF IInv, TypeOK, After
  <2>2. WrittenMarked'
    BY <1>1 DEF WrittenMarked, After
  <2>3. AbortExplained'
    BY <1>1, AfterRefuses DEF AbortExplained
  <2> QED BY <2>1, <2>2, <2>3 DEF IInv
<1>2. CASE \E t \in Entries, v \in PdrsGiven :
               /\ pdr' = [m EXCEPT ![t] = v] /\ dirty' = d \ {t}
               /\ refused' = IF refused = t THEN NoEntry ELSE refused
               /\ UNCHANGED <<par, sr0>>
  <2> PICK t \in Entries, v \in PdrsGiven :
               /\ pdr' = [m EXCEPT ![t] = v] /\ dirty' = d \ {t}
               /\ refused' = IF refused = t THEN NoEntry ELSE refused
               /\ UNCHANGED <<par, sr0>>
    BY <1>2
  <2>1. TypeOK'
    BY DEF IInv, TypeOK, After
  <2>2. WrittenMarked'
    BY DEF WrittenMarked, After
  <2>3. AbortExplained'
    <3> SUFFICES ASSUME refused' # NoEntry
                 PROVE  sr0'.entry = refused' /\ Refuses(pdr'[refused'], sr0'.abort)
      BY DEF AbortExplained
    <3>1. refused' = refused /\ refused # t /\ refused # NoEntry
      OBVIOUS
    <3>2. pdr'[refused'] = m[refused]
      BY <3>1 DEF After, IInv, TypeOK
    <3> QED BY <3>1, <3>2, AfterRefuses
  <2> QED BY <2>1, <2>2, <2>3 DEF IInv
<1>3. CASE \E on \in BOOLEAN :
               /\ sr0' = [enabled |-> on, abort |-> "none", entry |-> <<"kernel", 0>>]
               /\ pdr' = m /\ dirty' = d /\ refused' = NoEntry
               /\ UNCHANGED par
  <2>0. <<"kernel", 0>> \in Entries
    BY DEF Entries, Spaces, Pages
  <2>1. TypeOK'
    BY <1>3, <2>0 DEF IInv, TypeOK, After
  <2>2. WrittenMarked'
    BY <1>3 DEF WrittenMarked, After
  <2>3. AbortExplained'
    BY <1>3 DEF AbortExplained
  <2> QED BY <2>1, <2>2, <2>3 DEF IInv
<1> QED BY <1>1, <1>2, <1>3 DEF Store

\* Wherever the address leads, the invariant is kept.
LEMMA ReachKeeps ==
    ASSUME IInv, NEW e \in Entries, NEW a \in Nat, NEW w \in BOOLEAN, Reach(e, a, w)
    PROVE  IInv'
<1> DEFINE m == IF w /\ sr0.enabled THEN Marked(e) ELSE pdr
           d == IF w /\ sr0.enabled THEN dirty \cup {e} ELSE dirty
<1>0. After(m, d)
  BY DecodeAfter
<1>00. \A n \in Entries : n \in dirty => m[n].w
  BY MarkedFacts DEF IInv, WrittenMarked
<1>1. CASE /\ a < CoreBlocks
           /\ reached' = a /\ pdr' = m /\ dirty' = d
           /\ UNCHANGED <<par, sr0, user, refused, stores>>
  <2> HIDE DEF m, d
  <2>1. TypeOK'
    BY <1>0, <1>1 DEF IInv, TypeOK, After
  <2>2. WrittenMarked'
    BY <1>0, <1>1 DEF WrittenMarked, After
  <2>3. AbortExplained'
    BY <1>0, <1>1, AfterRefuses DEF AbortExplained
  <2> QED BY <2>1, <2>2, <2>3 DEF IInv
<1>2. CASE /\ a = IoBlock /\ w /\ stores < MaxStores
           /\ Store(m, d)
           /\ reached' = a /\ stores' = stores + 1
           /\ UNCHANGED user
  <2> HIDE DEF m, d
  <2>1. stores' \in 0 .. MaxStores
    BY <1>2 DEF IInv, TypeOK
  <2> QED BY <1>0, <1>2, <2>1, StoreKeeps
<1>3. CASE /\ a = IoBlock /\ ~w
           /\ reached' = a
           /\ UNCHANGED <<par, pdr, sr0, user, dirty, refused, stores>>
  BY <1>3 DEF IInv, TypeOK, WrittenMarked, AbortExplained
<1>4. CASE /\ a >= CoreBlocks /\ a # IoBlock
           /\ pdr' = m
           /\ user' = FALSE /\ reached' = NoBlock
           /\ UNCHANGED <<par, sr0, dirty, refused, stores>>
  <2> HIDE DEF m, d
  <2>1. TypeOK'
    BY <1>0, <1>4 DEF IInv, TypeOK, After
  <2>2. WrittenMarked'
    BY <1>00, <1>4 DEF WrittenMarked, IInv, TypeOK
  <2>3. AbortExplained'
    BY <1>0, <1>4, AfterRefuses DEF AbortExplained
  <2> QED BY <2>1, <2>2, <2>3 DEF IInv
<1> QED BY <1>1, <1>2, <1>3, <1>4 DEF Reach

\* A refused access keeps the invariant.
LEMMA RefuseKeeps ==
    ASSUME IInv, NEW e \in Entries, NEW b \in Blocks, NEW w \in BOOLEAN,
           AbortOf(pdr[e], b, w) # "none", Refuse(e, AbortOf(pdr[e], b, w))
    PROVE  IInv'
<1> DEFINE why == AbortOf(pdr[e], b, w)
<1>1. Refuses(pdr[e], why) /\ why \in Aborts
  BY AbortRefuses DEF IInv, TypeOK
<1> HIDE DEF why
<1>2. /\ sr0' = [enabled |-> TRUE, abort |-> why, entry |-> e]
      /\ refused' = e /\ reached' = NoBlock /\ user' = FALSE
      /\ UNCHANGED <<par, pdr, dirty, stores>>
  BY DEF Refuse, Abort, why
<1> QED BY <1>1, <1>2 DEF IInv, TypeOK, WrittenMarked, AbortExplained

\* Both ways to an address give one.
LEMMA Addresses ==
    ASSUME TypeOK, NEW e \in Entries, NEW b \in Blocks
    PROVE  Unmapped(e, b) \in Nat /\ Mapped(e, b) \in Nat
<1>1. e[2] \in Pages /\ par[e] \in Nat /\ b \in Nat
  BY DEF TypeOK, Entries, Blocks
<1>2. e[2] * PageBlocks \in Nat
  BY <1>1 DEF Pages
<1> QED BY <1>1, <1>2 DEF Unmapped, Mapped

-----------------------------------------------------------------------------
\* The invariant holds in every reachable state: decode() and the stores into
\* the registers keep it, whatever the map does to the stores themselves.
THEOREM Invariance == Spec => []IInv
<1>1. Init => IInv
  <2> SUFFICES ASSUME Init PROVE IInv
    OBVIOUS
  <2>1. [acf |-> 0, down |-> FALSE, len |-> 0, w |-> FALSE] \in Pdrs
    BY DEF Pdrs, Blocks
  <2>2. <<"kernel", 0>> \in Entries
    BY DEF Entries, Spaces, Pages
  <2>3. par \in [Entries -> Nat] /\ pdr \in [Entries -> Pdrs]
    BY <2>1 DEF Init
  <2>4. sr0 \in [enabled : BOOLEAN, abort : Aborts \cup {"none"}, entry : Entries]
    BY <2>2 DEF Init
  <2>5. stores \in 0 .. MaxStores
    BY DEF Init
  <2>6. TypeOK
    BY <2>3, <2>4, <2>5 DEF Init, TypeOK
  <2> QED BY <2>6 DEF Init, IInv, WrittenMarked, AbortExplained
<1>2. IInv /\ [Next]_vars => IInv'
  <2> SUFFICES ASSUME IInv, [Next]_vars PROVE IInv'
    OBVIOUS
  <2>1. CASE Access
    <3> PICK e \in Entries, b \in Blocks, w \in BOOLEAN :
            IF ~sr0.enabled THEN Reach(e, Unmapped(e, b), w)
            ELSE IF AbortOf(pdr[e], b, w) # "none" THEN Refuse(e, AbortOf(pdr[e], b, w))
            ELSE Reach(e, Mapped(e, b), w)
      BY <2>1 DEF Access
    <3>1. Unmapped(e, b) \in Nat /\ Mapped(e, b) \in Nat
      BY Addresses DEF IInv
    <3> QED BY <3>1, ReachKeeps, RefuseKeeps
  <2>2. CASE ChangeMode
    BY <2>2 DEF ChangeMode, IInv, TypeOK, WrittenMarked, AbortExplained
  <2>3. CASE UNCHANGED vars
    BY <2>3 DEF vars, IInv, TypeOK, WrittenMarked, AbortExplained
  <2> QED BY <2>1, <2>2, <2>3 DEF Next
<1> QED BY <1>1, <1>2, PTL DEF Spec

\* The registers and the record of what was reached keep their types: no
\* address that decode() lets through is other than core or the registers.
THEOREM TypeCorrect == Spec => []TypeOK
<1>1. IInv => TypeOK
  BY DEF IInv
<1> QED BY <1>1, Invariance, PTL

\* Every page written through is marked, from whichever space or mode.
THEOREM WritesAreMarked == Spec => []WrittenMarked
<1>1. IInv => WrittenMarked
  BY DEF IInv
<1> QED BY <1>1, Invariance, PTL

\* SR0 names the entry that refused, and why, until the kernel stores.
THEOREM AbortsAreExplained == Spec => []AbortExplained
<1>1. IInv => AbortExplained
  BY DEF IInv
<1> QED BY <1>1, Invariance, PTL

-----------------------------------------------------------------------------
\* A user program stays within what the kernel has mapped for it, and changes
\* no mapping.
THEOREM UserStaysWithin == Spec => UserConfined
<1> DEFINE Confined ==
        user /\ sr0.enabled /\ IoBlock \notin UserBlocks =>
          /\ reached' \in UserBlocks \cup {NoBlock}
          /\ par' = par /\ sr0'.enabled
          /\ \A e \in Entries : pdr'[e] = [pdr[e] EXCEPT !.w = pdr'[e].w]
<1>1. ASSUME IInv, [Next]_vars PROVE [Confined]_vars
  <2> SUFFICES ASSUME user, sr0.enabled, IoBlock \notin UserBlocks, vars' # vars
               PROVE  Confined
    OBVIOUS
  <2>0. \A e \in Entries : pdr[e] = [pdr[e] EXCEPT !.w = pdr[e].w]
    BY <1>1 DEF IInv, TypeOK, Pdrs
  <2>1. CASE ChangeMode
    BY <1>1, <2>0, <2>1 DEF ChangeMode
  <2>2. CASE Access
    <3> PICK e \in Entries, b \in Blocks, w \in BOOLEAN :
            /\ e[1] = "user"
            /\ IF AbortOf(pdr[e], b, w) # "none" THEN Refuse(e, AbortOf(pdr[e], b, w))
               ELSE Reach(e, Mapped(e, b), w)
      BY <1>1, <2>2 DEF Access
    <3>1. CASE AbortOf(pdr[e], b, w) # "none"
      BY <2>0, <3>1 DEF Refuse, Abort
    <3>2. CASE AbortOf(pdr[e], b, w) = "none" /\ Reach(e, Mapped(e, b), w)
      <4> DEFINE m == IF w /\ sr0.enabled THEN Marked(e) ELSE pdr
      <4>1. b \in Given(pdr[e])
        BY <1>1, <3>2, PassedGiven DEF IInv, TypeOK
      <4>2. e[2] \in Pages /\ e = <<"user", e[2]>>
        BY DEF Entries
      <4>3. Mapped(e, b) \in UserBlocks
        <5> DEFINE p == e[2]
        <5>1. p \in Pages /\ e = <<"user", p>>
          BY <4>2
        <5> HIDE DEF p
        <5>2. Mapped(e, b) = b + par[<<"user", p>>] /\ b \in Given(pdr[<<"user", p>>])
          BY <4>1, <5>1 DEF Mapped
        <5>3. Mapped(e, b) \in { c + par[<<"user", p>>] : c \in Given(pdr[<<"user", p>>]) }
          BY <5>2
        <5>4. { c + par[<<"user", p>>] : c \in Given(pdr[<<"user", p>>]) } \in
                  { { c + par[<<"user", q>>] : c \in Given(pdr[<<"user", q>>]) } : q \in Pages }
          BY <5>1
        <5> QED BY <5>3, <5>4 DEF UserBlocks
      <4>4. Mapped(e, b) # IoBlock
        BY <1>1, <4>3
      <4>5. \A t \in Entries : m[t] = [pdr[t] EXCEPT !.w = m[t].w]
        BY <1>1, DecodeAfter DEF After
      <4>6. /\ pdr' = m /\ UNCHANGED <<par, sr0>>
            /\ reached' = Mapped(e, b) \/ reached' = NoBlock
        BY <3>2, <4>4 DEF Reach
      <4> HIDE DEF m
      <4> QED BY <1>1, <4>3, <4>5, <4>6
    <3> QED BY <3>1, <3>2
  <2> QED BY <1>1, <2>1, <2>2 DEF Next
<1>2. Spec => [][Confined]_vars
  BY <1>1, Invariance, PTL DEF Spec
<1> QED BY <1>2 DEF UserConfined
=============================================================================
