-------------------------------- MODULE MCRk11 --------------------------------
EXTENDS Rk11

Words == Cylinders * Surfaces * Sectors * SectorWords

\* Every word of core and of the images differs from the others.
MCImage(d) == [w \in 0 .. Words - 1 |-> 100 * (d + 1) + w]

DA(d, c, f, s) == [drive |-> d, cylinder |-> c, surface |-> f, sector |-> s]

\* Before a change of cylinder, at the end of the disk, outside of it, and before
\* a change of surface on the other drive.
MCDisks == {DA(0, 0, 1, 1), DA(0, 1, 1, 1), DA(0, 0, 0, 2), DA(1, 0, 0, 1)}
=============================================================================
