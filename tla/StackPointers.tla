---------------------------- MODULE StackPointers ----------------------------
(***************************************************************************)
(* What the banked R6 of lib/cpu/cpu.cpp promises: each mode has a stack   *)
(* pointer of its own, and nobody moves the user's but the user and the    *)
(* kernel's MTPI.                                                          *)
(***************************************************************************)
EXTENDS Integers

CONSTANT Words      \* words of the address space

VARIABLES kernel, user, mode

spvars == <<kernel, user, mode>>

Address == 0 .. Words - 1

SpInit == kernel \in Address /\ user \in Address /\ mode = "kernel"

\* A user instruction.
UserStep == mode = "user" /\ mode' = "user" /\ user' \in Address /\ UNCHANGED kernel

\* A trap, an interrupt, a return, a kernel instruction: from or into the kernel.
KernelStep ==
    /\ "kernel" \in {mode, mode'}
    /\ mode' \in {"kernel", "user"}
    /\ kernel' \in Address
    /\ UNCHANGED user

\* MTPI SP pops one word of the kernel stack into the user's stack pointer.
SetUser ==
    /\ mode = "kernel" /\ UNCHANGED mode
    /\ kernel' = (kernel + 1) % Words
    /\ user' \in Address

SpNext == UserStep \/ KernelStep \/ SetUser

SpSpec == SpInit /\ [][SpNext]_spvars
=============================================================================
