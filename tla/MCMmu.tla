--------------------------------- MODULE MCMmu ---------------------------------
EXTENDS Mmu

\* Absent; read only and read-write, the whole page; read-write, the lower and
\* the upper block only.
MCPdrs == {[acf |-> 0, down |-> FALSE, len |-> 1, w |-> FALSE],
           [acf |-> 1, down |-> FALSE, len |-> 1, w |-> FALSE],
           [acf |-> 3, down |-> FALSE, len |-> 0, w |-> FALSE],
           [acf |-> 3, down |-> TRUE, len |-> 1, w |-> TRUE]}
=============================================================================
