------------------------ MODULE MCInterruptDelivery ------------------------
(***************************************************************************)
(* Instances of InterruptDelivery for TLC.                                 *)
(***************************************************************************)
EXTENDS InterruptDelivery

\* Every line of the machine.
MCSources == {TtyIn, TtyOut, Clock, Rk, Tm}

\* One level below every source, one between each two priorities, the top.
MCLevels == {0, 5, 6, 7}
=============================================================================
