---------------------------------- MODULE Mmu ----------------------------------
(***************************************************************************)
(* The memory management unit: lib/mmu/mmu.cpp decode(), write16() and     *)
(* reset(), the stores into its registers that lib/unibus passes on, and   *)
(* the change to kernel mode when an access is refused.                    *)
(*                                                                         *)
(* Memory is counted in blocks of 64 bytes.  The registers of the MMU      *)
(* answer in IoBlock, the last block of the bus; all other blocks behind   *)
(* the core end in a bus error.  Every access passes decode(), the kernel's*)
(* stores into the registers of the MMU included.                          *)
(***************************************************************************)
EXTENDS Integers

CONSTANTS
    PageCount,      \* pages of a space, 8
    PageBlocks,     \* blocks of a page, 128
    CoreBlocks,     \* blocks of core, 0760000 / 64
    DeviceBlocks,   \* blocks that reach the devices with the MMU off, 64
    Shift,          \* how far they are moved, 0600000 / 64
    ParsGiven,      \* values stored in a PAR, the 12 bits that are used
    PdrsGiven,      \* values stored in a PDR
    MaxStores       \* bound: stores into the registers

Pages == 0 .. PageCount - 1
Blocks == 0 .. PageBlocks - 1
IoBlock == PageCount * PageBlocks + Shift - 1
Pdrs == [acf : 0 .. 3, down : BOOLEAN, len : Blocks, w : BOOLEAN]

ASSUME MmuAssumption ==
    /\ PageCount \in Nat \ {0} /\ PageBlocks \in Nat \ {0}
    /\ CoreBlocks \in Nat /\ Shift \in Nat /\ MaxStores \in Nat
    /\ DeviceBlocks \in 1 .. PageBlocks
    /\ CoreBlocks <= IoBlock
    /\ ParsGiven \subseteq Nat /\ PdrsGiven \subseteq Pdrs

Spaces == {"kernel", "user"}
Entries == Spaces \X Pages
Aborts == {"readonly", "nonresident", "length"}
NoBlock == -1
NoEntry == <<"kernel", -1>>

VARIABLES
    par, pdr,   \* the page registers, pages[]
    sr0,        \* enabled, and the abort bit, the space and the page last set
    user,       \* the processor is in user mode, as is its previous mode
    reached,    \* history: the block the last step accessed
    dirty,      \* history: entries written through since their PDR was stored
    refused,    \* history: the entry that refused an access, until its PDR or
                \* SR0 is stored
    stores      \* bound: stores into the registers

vars == <<par, pdr, sr0, user, reached, dirty, refused, stores>>

TypeOK ==
    /\ par \in [Entries -> Nat]
    /\ pdr \in [Entries -> Pdrs]
    /\ sr0 \in [enabled : BOOLEAN, abort : Aborts \cup {"none"}, entry : Entries]
    /\ user \in BOOLEAN
    /\ reached \in {NoBlock, IoBlock} \cup 0 .. CoreBlocks - 1
    /\ dirty \subseteq Entries
    /\ refused \in Entries \cup {NoEntry}
    /\ stores \in 0 .. MaxStores

\* mmu::reset(); the processor is in kernel mode.
Init ==
    /\ par = [e \in Entries |-> 0]
    /\ pdr = [e \in Entries |-> [acf |-> 0, down |-> FALSE, len |-> 0, w |-> FALSE]]
    /\ sr0 = [enabled |-> FALSE, abort |-> "none", entry |-> <<"kernel", 0>>]
    /\ user = FALSE
    /\ reached = NoBlock /\ dirty = {} /\ refused = NoEntry /\ stores = 0

-----------------------------------------------------------------------------
\* The tests of decode().  In a PDR bit 1 says that the page may be read and
\* bit 2 that it may be written; the first test is of both, acf being the two.
OutsideUpward(d, b) == b > d.len        \* mutant
Outside(d, b) == IF d.down THEN b < d.len ELSE b > d.len

AbortOf(d, b, w) ==
    IF w /\ d.acf = 0 THEN "readonly"
    ELSE IF d.acf \in {0, 2} THEN "nonresident"
    ELSE IF Outside(d, b) THEN "length"
    ELSE "none"

\* Mutant: the blocks of a page that grows downward are mapped downward.
MappedDownward(e, b) ==
    IF pdr[e].down THEN par[e] - (b + 1) ELSE b + par[e]

\* What decode() returns; the sum is not cut to the width of the bus.
Mapped(e, b) == b + par[e]

Unmapped(e, b) ==
    LET a == e[2] * PageBlocks + b
    IN IF a >= PageCount * PageBlocks - DeviceBlocks THEN a + Shift ELSE a

\* Mutants: the entry of the kernel is marked whatever the space; the space
\* recorded is that of the mode and not that of the access.
MarkedKernel(e) == [pdr EXCEPT ![<<"kernel", e[2]>>].w = TRUE]
AbortByMode(why, e) ==
    [enabled |-> TRUE, abort |-> why,
     entry |-> <<IF user THEN "user" ELSE "kernel", e[2]>>]

Marked(e) == [pdr EXCEPT ![e].w = TRUE]
Abort(why, e) == [enabled |-> TRUE, abort |-> why, entry |-> e]

-----------------------------------------------------------------------------
\* decode() refuses the access; the trap is taken in kernel mode.
Refuse(e, why) ==
    /\ sr0' = Abort(why, e)
    /\ refused' = e
    /\ reached' = NoBlock /\ user' = FALSE
    /\ UNCHANGED <<par, pdr, dirty, stores>>

\* write16() into a PAR, a PDR or SR0, `marked` being the PDRs after decode().
\* A PDR stored may have its W bit set, or not.
Store(marked, written) ==
    \/ \E t \in Entries, v \in ParsGiven :
           /\ par' = [par EXCEPT ![t] = v]
           /\ pdr' = marked /\ dirty' = written
           /\ UNCHANGED <<sr0, refused>>
    \/ \E t \in Entries, v \in PdrsGiven :
           /\ pdr' = [marked EXCEPT ![t] = v]
           /\ dirty' = written \ {t}
           /\ refused' = IF refused = t THEN NoEntry ELSE refused
           /\ UNCHANGED <<par, sr0>>
    \/ \E on \in BOOLEAN :
           /\ sr0' = [enabled |-> on, abort |-> "none", entry |-> <<"kernel", 0>>]
           /\ pdr' = marked /\ dirty' = written /\ refused' = NoEntry
           /\ UNCHANGED par

\* The access goes to block a: core, the registers, or nothing.
Reach(e, a, w) ==
    LET marked  == IF w /\ sr0.enabled THEN Marked(e) ELSE pdr
        written == IF w /\ sr0.enabled THEN dirty \cup {e} ELSE dirty
    IN \/ /\ a < CoreBlocks
          /\ reached' = a /\ pdr' = marked /\ dirty' = written
          /\ UNCHANGED <<par, sr0, user, refused, stores>>
       \/ /\ a = IoBlock /\ w /\ stores < MaxStores
          /\ Store(marked, written)
          /\ reached' = a /\ stores' = stores + 1
          /\ UNCHANGED user
       \/ /\ a = IoBlock /\ ~w
          /\ reached' = a
          /\ UNCHANGED <<par, pdr, sr0, user, dirty, refused, stores>>
       \/ /\ a >= CoreBlocks /\ a # IoBlock
          /\ pdr' = marked
          /\ user' = FALSE /\ reached' = NoBlock
          /\ UNCHANGED <<par, sr0, dirty, refused, stores>>

\* An instruction accesses memory: in its own space, or as MFPI and MTPI in
\* that of the previous mode.
Access ==
    \E e \in Entries, b \in Blocks, w \in BOOLEAN :
        /\ user => e[1] = "user"
        /\ IF ~sr0.enabled THEN Reach(e, Unmapped(e, b), w)
           ELSE IF AbortOf(pdr[e], b, w) # "none" THEN Refuse(e, AbortOf(pdr[e], b, w))
           ELSE Reach(e, Mapped(e, b), w)

\* Any other trap or interrupt, or RTI and RTT of the kernel to the user.
ChangeMode ==
    /\ user' = ~user
    /\ reached' = NoBlock
    /\ UNCHANGED <<par, pdr, sr0, dirty, refused, stores>>

Next == Access \/ ChangeMode

Spec == Init /\ [][Next]_vars

-----------------------------------------------------------------------------
(***************************************************************************)
(* Properties.                                                             *)
(***************************************************************************)

\* What a PDR gives: of a page that is present the blocks from 0 up to the length,
\* or from the length up.
Given(d) == IF d.acf \notin {1, 3} THEN {}
            ELSE IF d.down THEN d.len .. PageBlocks - 1 ELSE 0 .. d.len

UserBlocks == UNION { { b + par[<<"user", p>>] : b \in Given(pdr[<<"user", p>>]) } :
                      p \in Pages }

\* As long as the kernel has not mapped the registers of the MMU for the user,
\* a user program reaches the blocks mapped for it and no others, and whatever
\* it does neither moves its own mapping nor the kernel's, nor turns the MMU
\* off: only W bits and the record of an abort change.
UserConfined ==
    [][ user /\ sr0.enabled /\ IoBlock \notin UserBlocks =>
          /\ reached' \in UserBlocks \cup {NoBlock}
          /\ par' = par /\ sr0'.enabled
          /\ \A e \in Entries : pdr'[e] = [pdr[e] EXCEPT !.w = pdr'[e].w] ]_vars

\* Every page written through since its PDR was stored has its W bit set: a
\* kernel that swaps out what is marked loses nothing, whichever space and mode
\* the write came from.
WrittenMarked == \A e \in dirty : pdr[e].w

\* After an abort, until the kernel stores the PDR or SR0, SR0 names the entry
\* that refused and that entry refuses for the reason given: a handler that
\* acts on SR0 repairs the page of the program that was stopped.
Refuses(d, why) ==
    CASE why = "readonly" -> d.acf = 0
      [] why = "nonresident" -> d.acf \in {0, 2}
      [] why = "length" -> Given(d) # Blocks
      [] OTHER -> FALSE

AbortExplained ==
    refused # NoEntry => /\ sr0.entry = refused
                         /\ Refuses(pdr[refused], sr0.abort)
=============================================================================
