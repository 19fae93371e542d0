--------------------------- MODULE MCInstructions ---------------------------
(***************************************************************************)
(* Words of eight bits and bytes of four; the numbers at both ends of the  *)
(* signed and the unsigned range; shifts in both directions, past a word   *)
(* and to the ends of the six bits.                                        *)
(***************************************************************************)
EXTENDS GuestRoutines

Width == 8

MCCells == {A, A + 2, A + 4, B, B + 2, B + 4} \cup {Top - 2 * k : k \in 1 .. 3}

MCInputs == {0, 1, 127, 128, 255}

Shifts == {0, 1, 7, 8, 9, 15, 16, 17, 23, 24, 25, 31}

MCRoutines ==
    {Add2, Sub2, Neg2, Asl2, Lsr2, Sxt2, Mul2, Mul1, Div2, Xor1, Bytes,
     Inc2, Dec2, Half(1), Half(2), Ones, CopyWords, CopyString, Calls, Switch,
     MovePrevious, Save(Top)}
    \cup {Ash1(n) : n \in Shifts} \cup {Ash2(n) : n \in Shifts}
    \cup {Compare(op, l) : op \in Branches, l \in {1, 2}}
    \cup {Overflow(op) : op \in {"ADD", "SUB", "CMP", "NEG", "ASL"}}

\* What the theorems of GuestProofs are about, this is an instance of.
ASSUME HostedAssumption == Hosted
=============================================================================
