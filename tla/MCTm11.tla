-------------------------------- MODULE MCTm11 --------------------------------
EXTENDS Tm11

\* Two words on every tape; behind them, what the file gives at its end.
MCSize(d) == 2
MCTape(d) == [w \in 0 .. TapeWords - 1 |-> IF w < 2 THEN 100 * (d + 1) + w ELSE Blank]
=============================================================================
