------------------------- MODULE MCInterruptHistory -------------------------
EXTENDS InterruptHistory

\* The lines a booted system uses all the time: the console line and the clock.
MCSources == {TtyIn, TtyOut, Clock}

MCLevels == {0, 7}
=============================================================================
