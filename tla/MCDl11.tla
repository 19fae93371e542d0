------------------------------ MODULE MCDl11 ------------------------------
(***************************************************************************)
(* An instance of Dl11 for TLC: the two requests of the line, the priority *)
(* open and closed.                                                        *)
(***************************************************************************)
EXTENDS Dl11

LineSources == {TtyIn, TtyOut}

TwoLevels == {0, Closed}
=============================================================================
