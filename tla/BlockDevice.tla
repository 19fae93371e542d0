----------------------------- MODULE BlockDevice -----------------------------
(***************************************************************************)
(* What a disk controller promises the program: a transfer is a straight   *)
(* copy between consecutive words of one drive and consecutive words of    *)
(* memory, all of it when it ends well and a first part of it otherwise.   *)
(***************************************************************************)
EXTENDS Integers

CONSTANTS
    Requests,   \* records [write, drive, from, base, count]
    NoRequest

VARIABLES mem, disk, request, done, status

bdvars == <<mem, disk, request, done, status>>

BdInit == request = NoRequest /\ done = 0 /\ status \in {"ok", "failed"}

Start ==
    /\ status # "running"
    /\ request' \in Requests
    /\ done' = 0
    /\ status' = "running"
    /\ UNCHANGED <<mem, disk>>

Copy ==
    /\ status = "running" /\ done < request.count
    /\ done' = done + 1
    /\ UNCHANGED <<request, status>>
    /\ LET a == request.base + done
           b == request.from + done
       IN IF request.write
          THEN disk' = [disk EXCEPT ![request.drive][b] = mem[a]] /\ UNCHANGED mem
          ELSE mem' = [mem EXCEPT ![a] = disk[request.drive][b]] /\ UNCHANGED disk

Complete ==
    /\ status = "running" /\ done = request.count
    /\ status' = "ok" /\ request' = NoRequest /\ done' = 0
    /\ UNCHANGED <<mem, disk>>

Fail ==
    /\ status = "running"
    /\ status' = "failed" /\ request' = NoRequest /\ done' = 0
    /\ UNCHANGED <<mem, disk>>

BdNext == Start \/ Copy \/ Complete \/ Fail

BdSpec == BdInit /\ [][BdNext]_bdvars
=============================================================================
