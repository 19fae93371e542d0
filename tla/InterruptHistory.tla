-------------------------- MODULE InterruptHistory --------------------------
(***************************************************************************)
(* InterruptDelivery with a history variable that counts the requests the  *)
(* table has accepted and not yet given back by popirq().  Only the timer, *)
(* a device command and the line make requests; an unchanged table in a    *)
(* poll means no request, for the line's priority is the lowest and its    *)
(* entry goes to the first empty slot.                                     *)
(***************************************************************************)
EXTENDS InterruptDelivery

VARIABLE outstanding

HInit == Init /\ outstanding = 0

Requesting ==
    \/ Tick \/ StartDevice \/ Rewind \/ Finish \/ DepositCommand
    \/ (PollReceiver \/ PollTransmitter) /\ itab' # itab

HNext ==
    /\ Next
    /\ outstanding' = IF Requesting /\ console' \notin {"full", "isr"}
                      THEN outstanding + 1
                      ELSE IF pc = "pop" /\ pc' = "step" /\ outstanding > 0
                           THEN outstanding - 1
                           ELSE outstanding

HSpec == HInit /\ [][HNext]_<<vars, outstanding>>

\* "interrupt table full" (cpu.cpp:1305) is reported of a table that holds
\* ITABN requests.
FullOnlyWhenFull == console \in {"full", "isr"} => outstanding >= ITABN
=============================================================================
