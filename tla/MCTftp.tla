------------------------------- MODULE MCTftp -------------------------------
EXTENDS Tftp

CONSTANT c1

MCClients == {c1}
MCOps == {"RRQ", "WRQ"}
ReadOnly == {"RRQ"}
=============================================================================
