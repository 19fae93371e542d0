--------------------------- MODULE MCProcessorMode ---------------------------
EXTENDS ProcessorMode

CONSTANTS program, handler

MCPcs == {program, handler}
MCFault == [pc |-> handler, pri |-> 7]
MCTraps == {[pc |-> handler, pri |-> 0]}
MCLines == {[pc |-> handler, pri |-> 6, level |-> 6]}

\* What a V6 kernel stores: its own priority, the user as the previous mode,
\* user mode; and a mode that does not exist.
MCStored == {[cm |-> 0, pm |-> 0, pri |-> 7], [cm |-> 0, pm |-> 3, pri |-> 0],
             [cm |-> 3, pm |-> 3, pri |-> 0], [cm |-> 1, pm |-> 3, pri |-> 1]}
=============================================================================
