------------------------------ MODULE Rk11Proofs ------------------------------
(***************************************************************************)
(* Proofs about Rk11, for every geometry of the disk, size of core and of  *)
(* the registers, and everything the program may store.                    *)
(***************************************************************************)
EXTENDS Rk11, TLAPS

USE RkAssumption, GivenAssumption

Transfers == [write : BOOLEAN, drive : Drives, from : Nat, base : Nat, count : 0 .. WcMod - 1]

\* The command registers still say what the transfer was asked to do.
RequestHeld ==
    /\ request \in Transfers
    /\ Idle => request = NoRequest
    /\ ~Idle => /\ ~trapped
                /\ request.drive = rkda.drive
                /\ request.write <=> rkcs.func = Write

\* Where the heads are, for every place in step(): `word' counts within the
\* sector, and after the last sector the heads no longer say anything.
HeadsAgree ==
    /\ at # "word" => word = 0
    /\ at = "again" \/ (at = "sector" /\ rkwc # 0) =>
           Position(rkda) = request.from + Transferred
    /\ at = "word" =>
           /\ rkda.cylinder < Cylinders /\ rkda.sector < Sectors
           /\ Position(rkda) + word = request.from + Transferred

AddressAgrees == ~Idle => rkba = request.base + Transferred

IInv == TypeOK /\ RequestHeld /\ HeadsAgree /\ AddressAgrees

-----------------------------------------------------------------------------
(***************************************************************************)
(* Arithmetic.                                                             *)
(***************************************************************************)

\* RKBA keeps its high bits in units of LowWords.
LEMMA Extended ==
    ASSUME NEW x \in Nat, NEW y \in Nat
    PROVE  y * LowWords + (x % LowWords) \in Nat /\ (x \div LowWords) * LowWords + y \in Nat
<1>1. x % LowWords \in Nat /\ x \div LowWords \in Nat
  OBVIOUS
<1>2. \A a, b \in Nat : a * b \in Nat
  OBVIOUS
<1> QED BY <1>1, <1>2

\* The word count counts up to zero.
LEMMA CountDown ==
    ASSUME NEW n \in 0 .. WcMod - 1
    PROVE  /\ (WcMod - n) % WcMod = IF n = 0 THEN 0 ELSE WcMod - n
           /\ (n + 1) % WcMod = IF n + 1 = WcMod THEN 0 ELSE n + 1
<1>1. CASE n = 0
  BY <1>1
<1>2. CASE n # 0
  <2>1. WcMod - n \in 0 .. WcMod - 1
    BY <1>2
  <2>2. CASE n + 1 = WcMod
    BY <2>1, <2>2
  <2>3. CASE n + 1 # WcMod
    BY <2>1, <2>3
  <2> QED BY <1>2, <2>1, <2>2, <2>3
<1> QED BY <1>1, <1>2

\* Each word transferred counts once, until the count is zero.
LEMMA TransferredCounts ==
    ASSUME TypeOK, RequestHeld
    PROVE  /\ Transferred \in Int
           /\ rkwc = 0 => Transferred = request.count
           /\ rkwc # 0 => Transferred < request.count
           /\ rkwc # 0 /\ rkwc' = Counted /\ request' = request =>
                  Transferred' = Transferred + 1 /\ rkwc' \in 0 .. WcMod - 1
<1>1. rkwc \in 0 .. WcMod - 1 /\ request.count \in 0 .. WcMod - 1
  BY DEF TypeOK, RequestHeld, Transfers
<1>2. Transferred = request.count - (IF rkwc = 0 THEN 0 ELSE WcMod - rkwc)
  BY <1>1, CountDown DEF Transferred
<1>3. ASSUME rkwc # 0, rkwc' = Counted, request' = request
      PROVE  Transferred' = Transferred + 1 /\ rkwc' \in 0 .. WcMod - 1
  <2>1. rkwc' = IF rkwc + 1 = WcMod THEN 0 ELSE rkwc + 1
    BY <1>1, <1>3, CountDown DEF Counted
  <2>2. rkwc' \in 0 .. WcMod - 1
    BY <1>1, <2>1
  <2>3. Transferred' = request.count - (IF rkwc' = 0 THEN 0 ELSE WcMod - rkwc')
    BY <1>3, <2>2, CountDown DEF Transferred
  <2> QED BY <1>1, <1>2, <1>3, <2>1, <2>2, <2>3
<1> QED BY <1>1, <1>2, <1>3

LEMMA PositionType ==
    ASSUME NEW da \in DiskAddresses
    PROVE  Position(da) \in Nat
<1>1. \A a, b \in Nat : a * b \in Nat
  OBVIOUS
<1>2. (da.cylinder * Surfaces + da.surface) * Sectors \in Nat
  BY <1>1 DEF DiskAddresses, Surfaces
<1> QED BY <1>1, <1>2 DEF Position, DiskAddresses

\* The sector after a sector of the disk begins where that one ends: at the
\* changes of surface and of cylinder too.
LEMMA NextSectorFollows ==
    ASSUME NEW da \in DiskAddresses, da.cylinder < Cylinders, da.sector < Sectors
    PROVE  /\ NextSector(da) \in DiskAddresses
           /\ NextSector(da).drive = da.drive
           /\ Position(NextSector(da)) = Position(da) + SectorWords
<1> DEFINE next == NextSector(da)
           track(d) == d.cylinder * Surfaces + d.surface
           place(d) == track(d) * Sectors + d.sector
<1>1. /\ da.cylinder \in 0 .. 255 /\ da.surface \in {0, 1} /\ da.sector \in 0 .. 15
      /\ next \in DiskAddresses /\ next.drive = da.drive
  <2> DEFINE made(c, f, n) == [drive |-> da.drive, cylinder |-> c, surface |-> f, sector |-> n]
  <2>1. da = made(da.cylinder, da.surface, da.sector)
    BY DEF DiskAddresses
  <2>2. \A c \in 0 .. 255, f \in 0 .. 1, n \in 0 .. 15 :
            made(c, f, n) \in DiskAddresses /\ made(c, f, n).drive = da.drive
    BY DEF DiskAddresses
  <2>3. /\ da.cylinder \in 0 .. 255 /\ da.surface \in 0 .. 1 /\ da.sector \in 0 .. 15
        /\ da.surface \in {0, 1}
        /\ da.cylinder + 1 \in 0 .. 255
        /\ da.sector + 1 < Sectors => da.sector + 1 \in 0 .. 15
    BY DEF DiskAddresses
  <2>4. CASE da.sector + 1 < Sectors
    <3>1. PICK n \in 0 .. 15 : n = da.sector + 1
      BY <2>3, <2>4
    <3>2. next = made(da.cylinder, da.surface, n)
      BY <2>1, <2>4, <3>1 DEF NextSector
    <3> HIDE DEF made, next
    <3> QED BY <2>2, <2>3, <3>2
  <2>5. CASE ~(da.sector + 1 < Sectors) /\ da.surface = 0
    <3>1. next = made(da.cylinder, 1, 0)
      BY <2>1, <2>5 DEF NextSector
    <3> HIDE DEF made, next
    <3>2. 0 \in 0 .. 15 /\ 1 \in 0 .. 1
      OBVIOUS
    <3> QED BY <2>2, <2>3, <3>1, <3>2
  <2>6. CASE ~(da.sector + 1 < Sectors) /\ da.surface # 0
    <3>1. next = made(da.cylinder + 1, 0, 0)
      BY <2>1, <2>6 DEF NextSector
    <3> HIDE DEF made, next
    <3>2. 0 \in 0 .. 15 /\ 0 \in 0 .. 1
      OBVIOUS
    <3> QED BY <2>2, <2>3, <3>1, <3>2
  <2> QED BY <2>4, <2>5, <2>6
<1>2. track(da) \in Nat /\ track(next) \in Nat
  BY <1>1 DEF DiskAddresses, Surfaces
<1>3. place(next) = place(da) + 1
  <2>1. CASE da.sector + 1 < Sectors
    <3>1. track(next) = track(da) /\ next.sector = da.sector + 1
      BY <1>1, <2>1 DEF NextSector, DiskAddresses
    <3> HIDE DEF track, next
    <3>2. track(da) * Sectors \in Nat
      BY <1>2
    <3> QED BY <1>1, <3>1, <3>2
  <2>2. CASE ~(da.sector + 1 < Sectors)
    <3>1. track(next) = track(da) + 1 /\ next.sector = 0 /\ da.sector + 1 = Sectors
      BY <1>1, <2>2 DEF NextSector, DiskAddresses, Surfaces
    <3> HIDE DEF track, next
    <3>2. (track(da) + 1) * Sectors = track(da) * Sectors + Sectors
      BY <1>2
    <3>3. track(da) * Sectors \in Nat
      BY <1>2
    <3> QED BY <1>1, <3>1, <3>2, <3>3
  <2> QED BY <2>1, <2>2
<1>4. place(da) \in Nat
  <2>1. \A a, b \in Nat : a * b \in Nat
    OBVIOUS
  <2> HIDE DEF track
  <2> QED BY <1>1, <1>2, <2>1
<1>5. Position(next) = place(next) * SectorWords /\ Position(da) = place(da) * SectorWords
  BY DEF Position
<1>6. (place(da) + 1) * SectorWords = place(da) * SectorWords + SectorWords
  <2> HIDE DEF place
  <2> QED BY <1>4
<1> QED BY <1>1, <1>3, <1>5, <1>6

-----------------------------------------------------------------------------
(***************************************************************************)
(* The invariant.                                                          *)
(***************************************************************************)
LEMMA InitInv == Init => IInv
<1> SUFFICES ASSUME Init PROVE IInv
  OBVIOUS
<1>1. TypeOK
  <2>1. rkda \in DiskAddresses
    BY DEF Init, DiskAddresses
  <2>2. rkcs \in [func : 0 .. 7, ie : BOOLEAN, ready : BOOLEAN, err : BOOLEAN]
    BY DEF Init
  <2>3. DOMAIN mem = 0 .. MemWords - 1 /\ DOMAIN disk = Drives
    BY DEF Init
  <2>4. rkba \in Nat /\ rkwc \in 0 .. WcMod - 1 /\ word \in 0 .. SectorWords
    BY DEF Init
  <2> QED BY <2>1, <2>2, <2>3, <2>4 DEF Init, TypeOK
<1>2. NoRequest \in Transfers
  BY DEF NoRequest, Transfers
<1> QED BY <1>1, <1>2 DEF Init, IInv, RequestHeld, HeadsAgree, AddressAgrees, Idle

\* While no transfer is under way, what the program and the operator store only
\* has to have its type.
LEMMA IdleInv ==
    ASSUME IInv, Idle, TypeOK', UNCHANGED <<at, word, request>>
    PROVE  IInv'
BY DEF IInv, RequestHeld, HeadsAgree, AddressAgrees, Idle

LEMMA StoresType ==
    ASSUME IInv, WriteRkba \/ WriteRkwc \/ WriteRkda \/ Attach \/ Service \/ Reset
    PROVE  TypeOK'
<1>1. CASE WriteRkba
  <2>1. PICK a \in AddressesGiven : rkba' = (rkba \div LowWords) * LowWords + a
    BY <1>1 DEF WriteRkba
  <2>2. a \in Nat /\ rkba \in Nat /\ LowWords \in Nat \ {0}
    BY RkAssumption DEF IInv, TypeOK
  <2>3. rkba' \in Nat
    BY ONLY <2>1, <2>2, Extended
  <2> QED BY <1>1, <2>3 DEF WriteRkba, IInv, TypeOK, drives, contents
<1>2. CASE WriteRkwc
  BY <1>2 DEF WriteRkwc, IInv, TypeOK, drives, contents
<1>3. CASE WriteRkda
  BY <1>3 DEF WriteRkda, IInv, TypeOK, drives, contents
<1>4. CASE Attach
  BY <1>4 DEF Attach, ResetRegisters, IInv, TypeOK, contents
<1>5. CASE Service
  BY <1>5 DEF Service, IInv, TypeOK, registers, drives, contents
<1>6. CASE Reset
  BY <1>6 DEF Reset, ResetRegisters, IInv, TypeOK, drives, contents
<1> QED BY <1>1, <1>2, <1>3, <1>4, <1>5, <1>6

LEMMA StoresInv ==
    ASSUME IInv, WriteRkba \/ WriteRkwc \/ WriteRkda \/ Attach \/ Service \/ Reset
    PROVE  IInv'
<1>1. Idle /\ UNCHANGED <<at, word, request>>
  BY DEF WriteRkba, WriteRkwc, WriteRkda, Attach, Service, Reset
<1> QED BY <1>1, IdleInv, StoresType

\* A transfer begins with nothing transferred and the heads on its first word.
LEMMA WriteRkcsInv ==
    ASSUME IInv, WriteRkcs
    PROVE  IInv'
<1>1. CASE /\ ResetRegisters
           /\ UNCHANGED <<drives, contents, at, word, trapped, posted, request>>
  <2>1. TypeOK'
    BY <1>1 DEF WriteRkcs, ResetRegisters, IInv, TypeOK, drives, contents
  <2> QED BY <1>1, <2>1, IdleInv DEF WriteRkcs
<1>2. ASSUME NEW func \in FunctionsGiven, NEW ie \in BOOLEAN,
             NEW ext \in 0 .. MemWords \div LowWords, NEW go \in BOOLEAN,
             GivenRkcs(func, ie, ext, go)
      PROVE  IInv'
  <2>1. rkba' \in Nat
    <3>1. rkba' = ext * LowWords + (rkba % LowWords)
      BY <1>2 DEF GivenRkcs
    <3>2. ext \in Nat /\ rkba \in Nat
      BY DEF IInv, TypeOK
    <3> QED BY <3>1, <3>2, Extended
  <2>2. /\ UNCHANGED <<rkwc, rkda, rker, attached, contents, word>>
        /\ func \in 0 .. 7 /\ at = "idle" /\ word = 0
    BY <1>2 DEF GivenRkcs, WriteRkcs, Idle, IInv, HeadsAgree
  <2>3. ASSUME /\ rkcs' = [rkcs EXCEPT !.func = func, !.ie = ie, !.ready = FALSE]
               /\ rkds' = FALSE
               /\ at' = "again" /\ trapped' = FALSE
               /\ request' = [write |-> func = Write, drive |-> rkda.drive,
                              from |-> Position(rkda), base |-> rkba',
                              count |-> (WcMod - rkwc) % WcMod]
               /\ UNCHANGED <<locked, posted>>
        PROVE  IInv'
    <3>1. rkwc \in 0 .. WcMod - 1
      BY DEF IInv, TypeOK
    <3>2. TypeOK'
      BY <2>1, <2>2, <2>3 DEF IInv, TypeOK, contents
    <3>3. (WcMod - rkwc) % WcMod \in 0 .. WcMod - 1
      BY <3>1, CountDown
    <3>4. request' \in Transfers
      BY <2>1, <2>3, <3>3, PositionType DEF Transfers, IInv, TypeOK, DiskAddresses
    <3>5. RequestHeld'
      BY <2>2, <2>3, <3>4 DEF RequestHeld, Idle, IInv, TypeOK
    <3>6. Transferred' = 0
      BY <2>2, <2>3, <3>3 DEF Transferred
    <3>7. request'.from = Position(rkda) /\ request'.base = rkba'
      BY <2>3
    <3>8. HeadsAgree' /\ AddressAgrees'
      BY <2>1, <2>2, <2>3, <3>6, <3>7, PositionType
         DEF HeadsAgree, AddressAgrees, Position, IInv, TypeOK
    <3> QED BY <3>2, <3>5, <3>8 DEF IInv
  <2>4. ASSUME /\ rkcs' = [rkcs EXCEPT !.func = func, !.ie = ie, !.ready = TRUE]
               /\ rkds' = TRUE
               /\ locked' = locked \cup {rkda.drive}
               /\ posted' = (posted \/ ie)
               /\ UNCHANGED <<at, trapped, request>>
        PROVE  IInv'
    <3>1. rkda.drive \in Drives
      BY DEF IInv, TypeOK, DiskAddresses
    <3>2. locked' \subseteq Drives
      BY <2>4, <3>1 DEF IInv, TypeOK
    <3>3. {trapped', posted'} \subseteq BOOLEAN
      BY <2>4 DEF IInv, TypeOK
    <3>4. rkcs' \in [func : 0 .. 7, ie : BOOLEAN, ready : BOOLEAN, err : BOOLEAN]
      BY <2>2, <2>4 DEF IInv, TypeOK
    <3>5. TypeOK'
      BY <2>1, <2>2, <2>4, <3>2, <3>3, <3>4 DEF IInv, TypeOK, contents
    <3> QED BY <2>2, <2>4, <3>5, IdleInv DEF Idle
  <2>5. ASSUME /\ rkcs' = [rkcs EXCEPT !.func = func, !.ie = ie]
               /\ UNCHANGED <<rkds, locked, at, trapped, posted, request>>
        PROVE  IInv'
    <3>1. TypeOK'
      BY <2>1, <2>2, <2>5 DEF IInv, TypeOK, contents
    <3> QED BY <2>2, <2>5, <3>1, IdleInv DEF Idle
  <2> QED BY <1>2, <2>3, <2>4, <2>5 DEF GivenRkcs
<1> QED BY <1>1, <1>2 DEF WriteRkcs

-----------------------------------------------------------------------------
(***************************************************************************)
(* The steps of a transfer.                                                *)
(***************************************************************************)

\* Where a transfer ends nothing of it is left to agree.
LEMMA EndInv ==
    ASSUME IInv, TypeOK', Idle', request' = NoRequest, word' = 0
    PROVE  IInv'
<1>1. NoRequest \in Transfers
  BY DEF NoRequest, Transfers
<1> QED BY <1>1 DEF IInv, RequestHeld, HeadsAgree, AddressAgrees, Idle

LEMMA ErrorInv ==
    ASSUME IInv, Error
    PROVE  IInv'
<1>1. ErrorOf(rkda) \subseteq {"RKNXD", "RKNXC", "RKNXS"}
  BY DEF ErrorOf
<1>2. TypeOK'
  BY <1>1 DEF Error, IInv, TypeOK, drives, contents
<1>3. word' = 0
  BY DEF Error, IInv, HeadsAgree
<1> QED BY <1>2, <1>3, EndInv DEF Error, Idle

LEMMA SeekInv ==
    ASSUME IInv, Seek
    PROVE  IInv'
<1>1. UNCHANGED <<registers, drives, contents, word, trapped, posted, request, commands>>
  BY DEF Seek
<1>2. TypeOK'
  BY <1>1 DEF Seek, IInv, TypeOK, registers, drives, contents
<1>3. Transferred' = Transferred /\ Position(rkda)' = Position(rkda)
  BY <1>1 DEF Transferred, Position, registers
<1>4. rkda.cylinder < Cylinders /\ rkda.sector < Sectors
  <2>0. ErrorOf(rkda) = {} /\ rkda \in DiskAddresses
    BY DEF Seek, IInv, TypeOK
  <2>1. ErrorOf(rkda) = {} /\ rkda.cylinder \in Nat /\ rkda.sector \in Nat
    BY <2>0 DEF DiskAddresses
  <2>2. {"RKNXC"} # {} /\ {"RKNXS"} # {} /\ {"RKNXD"} # {}
    OBVIOUS
  <2> QED BY <2>1, <2>2 DEF ErrorOf
<1>5. Position(rkda) \in Nat /\ word = 0 /\ Position(rkda) = request.from + Transferred
  BY PositionType DEF Seek, IInv, TypeOK, HeadsAgree
<1>6. HeadsAgree'
  BY <1>1, <1>3, <1>4, <1>5 DEF Seek, HeadsAgree, registers
<1>7. RequestHeld' /\ AddressAgrees'
  BY <1>1, <1>3 DEF Seek, IInv, RequestHeld, AddressAgrees, Idle, registers
<1> QED BY <1>2, <1>6, <1>7 DEF IInv

LEMMA TransferInv ==
    ASSUME IInv, Transfer
    PROVE  IInv'
<1>1. /\ at = "word" /\ word < SectorWords /\ rkwc # 0
      /\ rkba' = rkba + 1 /\ rkwc' = Counted /\ word' = word + 1
      /\ UNCHANGED <<rkda, rkcs, rkds, rker, drives, at, trapped, posted, request, commands>>
  BY DEF Transfer, MoreWords
<1>2. /\ Transferred \in Int /\ Transferred' = Transferred + 1
      /\ rkwc' \in 0 .. WcMod - 1
  BY <1>1, TransferredCounts DEF IInv
<1>3. DOMAIN mem' = DOMAIN mem /\ DOMAIN disk' = DOMAIN disk
  BY DEF Transfer
<1>4. word' \in 0 .. SectorWords /\ rkba' \in Nat
  BY <1>1 DEF IInv, TypeOK
<1>5. TypeOK'
  BY <1>1, <1>2, <1>3, <1>4 DEF IInv, TypeOK, drives
<1>6. RequestHeld'
  BY <1>1 DEF IInv, RequestHeld, Idle
<1>7. request.base \in Nat /\ request.from \in Nat /\ word \in Nat /\ Position(rkda) \in Nat
  BY PositionType DEF IInv, TypeOK, RequestHeld, Transfers
<1>8. HeadsAgree'
  <2>1. Position(rkda)' = Position(rkda)
    BY <1>1 DEF Position
  <2> QED BY <1>1, <1>2, <1>7, <2>1 DEF IInv, HeadsAgree
<1>9. AddressAgrees'
  BY <1>1, <1>2, <1>7 DEF IInv, AddressAgrees, Idle
<1> QED BY <1>5, <1>6, <1>8, <1>9 DEF IInv

LEMMA BusErrorInv ==
    ASSUME IInv, BusError
    PROVE  IInv'
<1>1. TypeOK'
  BY DEF BusError, IInv, TypeOK, registers, drives, contents
<1> QED BY <1>1, EndInv DEF BusError, Idle

LEMMA SectorDoneInv ==
    ASSUME IInv, SectorDone
    PROVE  IInv'
<1>1. /\ at = "word" /\ at' = "sector" /\ word' = 0
      /\ rkwc # 0 => word = SectorWords
      /\ rkda' = NextSector(rkda)
      /\ rkcs' \in [func : 0 .. 7, ie : BOOLEAN, ready : BOOLEAN, err : BOOLEAN]
      /\ rkcs'.func = rkcs.func /\ rkds' \in BOOLEAN
      /\ UNCHANGED <<rkba, rkwc, rker, drives, contents, trapped, posted, request, commands>>
  <2>1. /\ at = "word" /\ ~MoreWords /\ at' = "sector" /\ word' = 0
        /\ rkda' = NextSector(rkda)
        /\ SetReady(TRUE) \/ UNCHANGED <<rkcs, rkds>>
        /\ UNCHANGED <<rkba, rkwc, rker, drives, contents, trapped, posted, request, commands>>
    BY DEF SectorDone
  <2>2. rkwc # 0 => word = SectorWords
    BY <2>1 DEF MoreWords, IInv, TypeOK
  <2>3. /\ rkcs' \in [func : 0 .. 7, ie : BOOLEAN, ready : BOOLEAN, err : BOOLEAN]
        /\ rkcs'.func = rkcs.func /\ rkds' \in BOOLEAN
    BY <2>1 DEF SetReady, IInv, TypeOK
  <2> QED BY <2>1, <2>2, <2>3
<1>2. rkda.cylinder < Cylinders /\ rkda.sector < Sectors /\ rkda \in DiskAddresses
  BY <1>1 DEF IInv, HeadsAgree, TypeOK
<1>3. /\ rkda' \in DiskAddresses /\ rkda'.drive = rkda.drive
      /\ Position(rkda') = Position(rkda) + SectorWords
  BY <1>1, <1>2, NextSectorFollows
<1>4. TypeOK'
  BY <1>1, <1>3 DEF IInv, TypeOK, drives, contents
<1>5. RequestHeld'
  BY <1>1, <1>3 DEF IInv, RequestHeld, Idle
<1>6. Transferred' = Transferred
  BY <1>1 DEF Transferred
<1>7. HeadsAgree'
  BY <1>1, <1>3, <1>6 DEF IInv, HeadsAgree, Position
<1>8. AddressAgrees'
  BY <1>1, <1>6 DEF IInv, AddressAgrees, Idle
<1> QED BY <1>4, <1>5, <1>7, <1>8 DEF IInv

LEMMA NextOrDoneInv ==
    ASSUME IInv, NextOrDone
    PROVE  IInv'
<1>1. /\ at = "sector" /\ word = 0
      /\ UNCHANGED <<rkba, rkwc, rkda, rker, drives, contents, word, trapped, commands>>
  BY DEF NextOrDone, IInv, HeadsAgree
<1>2. CASE rkwc = 0
  <2>1. at' = "idle" /\ request' = NoRequest /\ Done
    BY <1>2 DEF NextOrDone
  <2>2. /\ rkcs' \in [func : 0 .. 7, ie : BOOLEAN, ready : BOOLEAN, err : BOOLEAN]
        /\ rkds' \in BOOLEAN /\ posted' \in BOOLEAN
    BY <2>1 DEF Done, SetReady, IInv, TypeOK
  <2>3. TypeOK'
    BY <1>1, <2>1, <2>2 DEF IInv, TypeOK, drives, contents
  <2> QED BY <1>1, <2>1, <2>3, EndInv DEF Idle
<1>3. CASE rkwc # 0
  <2>1. at' = "again" /\ UNCHANGED <<rkcs, rkds, posted, request>>
    BY <1>3 DEF NextOrDone
  <2>2. TypeOK'
    BY <1>1, <2>1 DEF IInv, TypeOK, drives, contents
  <2>3. Transferred' = Transferred
    BY <1>1, <2>1 DEF Transferred
  <2>4. HeadsAgree'
    BY <1>1, <1>3, <2>1, <2>3 DEF IInv, HeadsAgree, Position
  <2>5. RequestHeld' /\ AddressAgrees'
    BY <1>1, <2>1, <2>3 DEF IInv, RequestHeld, AddressAgrees, Idle
  <2> QED BY <2>2, <2>4, <2>5 DEF IInv
<1> QED BY <1>2, <1>3

LEMMA NextInv ==
    ASSUME IInv, [Next]_vars
    PROVE  IInv'
<1>1. CASE UNCHANGED vars
  BY <1>1 DEF vars, registers, drives, contents, IInv, TypeOK, RequestHeld, HeadsAgree,
     AddressAgrees, Idle, Transferred, Position
<1> QED BY <1>1, StoresInv, WriteRkcsInv, ErrorInv, SeekInv, TransferInv, BusErrorInv,
       SectorDoneInv, NextOrDoneInv DEF Next, Step

\* The inductive invariant holds in every reachable state of rk11::step().
THEOREM Invariance == Spec => []IInv
<1>1. Init => IInv
  BY InitInv
<1>2. IInv /\ [Next]_vars => IInv'
  BY NextInv
<1> QED BY <1>1, <1>2, PTL DEF Spec

\* step() keeps its registers and its local variables in their ranges.
THEOREM TypeCorrect == Spec => []TypeOK
<1>1. IInv => TypeOK
  BY DEF IInv
<1> QED BY <1>1, Invariance, PTL

\* At every moment of a transfer RKBA, RKWC and the heads tell the same number of
\* words, across sectors, surfaces and cylinders.
THEOREM CountersAlwaysAgree == Spec => []CountersAgree
<1>1. IInv => CountersAgree
  BY DEF IInv, HeadsAgree, AddressAgrees, CountersAgree
<1> QED BY <1>1, Invariance, PTL

-----------------------------------------------------------------------------
(***************************************************************************)
(* How transfers end.                                                      *)
(***************************************************************************)

\* Only these steps begin where a transfer is under way, and a step of the
\* program or of the operator does not.
LEMMA Busy ==
    ASSUME ~Idle, Next
    PROVE  Step
BY DEF Next, WriteRkba, WriteRkwc, WriteRkda, WriteRkcs, Reset, Attach, Service

LEMMA EndAnswered ==
    ASSUME IInv, [Next]_vars, ~Idle, Idle'
    PROVE  \/ ~trapped' /\ rkwc' = 0 /\ rkcs'.ready /\ (rkcs'.ie => posted')
           \/ trapped' /\ ((rker' # {} /\ rkcs'.err) \/ rkba' >= MemWords)
<1>1. Step
  <2>1. ~UNCHANGED vars
    BY DEF vars, Idle
  <2> QED BY <2>1, Busy
<1>2. CASE Error
  <2>1. rker' # {} /\ trapped'
    BY <1>2 DEF Error
  <2>2. rkcs'.err
    BY <1>2 DEF Error, IInv, TypeOK
  <2> QED BY <2>1, <2>2
<1>3. CASE BusError
  BY <1>3 DEF BusError, registers
<1>4. CASE NextOrDone
  <2>1. rkwc = 0 /\ Done /\ UNCHANGED <<rkwc, trapped>>
    BY <1>4 DEF NextOrDone, Idle
  <2>2. ~trapped'
    BY <2>1 DEF IInv, RequestHeld
  <2>3. rkcs'.ready /\ rkcs'.ie = rkcs.ie /\ posted' = (posted \/ rkcs.ie)
    BY <2>1 DEF Done, SetReady, IInv, TypeOK
  <2> QED BY <2>1, <2>2, <2>3
<1> QED BY <1>1, <1>2, <1>3, <1>4 DEF Step, Seek, Transfer, SectorDone, Idle

\* A transfer ends complete, ready and with the interrupt asked for, or with an
\* error in RKER, or on a bus error; never silently.
THEOREM TransfersAnswered == Spec => EndsAnswered
<1>1. IInv /\ [Next]_vars =>
          [~Idle /\ Idle' =>
               \/ ~trapped' /\ rkwc' = 0 /\ rkcs'.ready /\ (rkcs'.ie => posted')
               \/ trapped' /\ ((rker' # {} /\ rkcs'.err) \/ rkba' >= MemWords)]_vars
  BY EndAnswered
<1> QED BY <1>1, Invariance, PTL DEF Spec, EndsAnswered

-----------------------------------------------------------------------------
(***************************************************************************)
(* The refinement of BlockDevice, step by step.                            *)
(***************************************************************************)
LEMMA DeviceInit == Init => Device!BdInit
BY DEF Init, Device!BdInit, Idle

\* Whatever leaves these alone is a step of the block device's environment.
LEMMA DeviceStutters ==
    ASSUME UNCHANGED <<mem, disk, request, trapped, at>>, Idle
    PROVE  UNCHANGED Device!bdvars
BY DEF Device!bdvars, Idle

LEMMA StoresRefined ==
    ASSUME IInv, WriteRkba \/ WriteRkwc \/ WriteRkda \/ Attach \/ Service \/ Reset
    PROVE  UNCHANGED Device!bdvars
BY DeviceStutters DEF WriteRkba, WriteRkwc, WriteRkda, Attach, Service, Reset, contents

LEMMA WriteRkcsRefined ==
    ASSUME IInv, WriteRkcs
    PROVE  [Device!BdNext]_Device!bdvars
<1>1. CASE UNCHANGED <<contents, at, trapped, request>>
  BY <1>1, DeviceStutters DEF WriteRkcs, contents
<1>2. ASSUME /\ at' = "again" /\ ~trapped' /\ Idle
             /\ request' \in Transfers
             /\ request'.count = (WcMod - rkwc) % WcMod
             /\ UNCHANGED <<rkwc, contents>>
      PROVE  Device!BdNext
  <2>1. Transferred' = 0
    <3>1. request'.count \in Int
      BY <1>2 DEF Transfers
    <3> QED BY <1>2, <3>1 DEF Transferred
  <2> QED BY <1>2, <2>1 DEF Device!BdNext, Device!Start, Idle, contents, Transfers
<1>3. ASSUME NEW func \in FunctionsGiven, NEW ie \in BOOLEAN,
             NEW ext \in 0 .. MemWords \div LowWords, NEW go \in BOOLEAN,
             GivenRkcs(func, ie, ext, go), ~UNCHANGED <<contents, at, trapped, request>>
      PROVE  Device!BdNext
  <2>1. /\ at' = "again" /\ trapped' = FALSE
        /\ request' = [write |-> func = Write, drive |-> rkda.drive,
                       from |-> Position(rkda), base |-> rkba',
                       count |-> (WcMod - rkwc) % WcMod]
        /\ UNCHANGED <<rkwc, contents>>
    BY <1>3 DEF GivenRkcs
  <2>2. IInv'
    BY WriteRkcsInv
  <2> QED BY <1>2, <2>1, <2>2 DEF IInv, RequestHeld, WriteRkcs
<1> QED BY <1>1, <1>3 DEF WriteRkcs

LEMMA TransferRefined ==
    ASSUME IInv, Transfer
    PROVE  Device!Copy
<1>1. /\ at = "word" /\ rkwc # 0 /\ rkwc' = Counted /\ rkcs' = rkcs
      /\ UNCHANGED <<request, trapped, at>>
  BY DEF Transfer, MoreWords
<1>2. /\ Transferred < request.count /\ Transferred' = Transferred + 1
  BY <1>1, TransferredCounts DEF IInv
<1>3. /\ rkba = request.base + Transferred
      /\ Position(rkda) + word = request.from + Transferred
      /\ rkda.drive = request.drive /\ (request.write <=> rkcs.func = Write)
  BY <1>1 DEF IInv, AddressAgrees, HeadsAgree, RequestHeld, Idle
<1>4. IF request.write
      THEN disk' = [disk EXCEPT ![request.drive][request.from + Transferred]
                        = mem[request.base + Transferred]] /\ UNCHANGED mem
      ELSE mem' = [mem EXCEPT ![request.base + Transferred]
                        = disk[request.drive][request.from + Transferred]] /\ UNCHANGED disk
  BY <1>3 DEF Transfer
<1> QED BY <1>1, <1>2, <1>4 DEF Device!Copy, Idle

LEMMA FailRefined ==
    ASSUME IInv, Error \/ BusError
    PROVE  Device!Fail
BY DEF Error, BusError, Device!Fail, Idle, contents

LEMMA SeekRefined ==
    ASSUME IInv, Seek \/ SectorDone
    PROVE  UNCHANGED Device!bdvars
<1>1. ~Idle /\ ~Idle' /\ UNCHANGED <<mem, disk, request, trapped, rkwc>>
  BY DEF Seek, SectorDone, Idle, contents, registers
<1>2. Transferred' = Transferred
  BY <1>1 DEF Transferred
<1> QED BY <1>1, <1>2 DEF Device!bdvars

LEMMA NextOrDoneRefined ==
    ASSUME IInv, NextOrDone
    PROVE  [Device!BdNext]_Device!bdvars
<1>1. CASE rkwc = 0
  <2>1. /\ at' = "idle" /\ request' = NoRequest /\ ~Idle
        /\ UNCHANGED <<contents, trapped>>
    BY <1>1 DEF NextOrDone, Idle
  <2>2. ~trapped' /\ Transferred = request.count
    BY <1>1, <2>1, TransferredCounts DEF IInv, RequestHeld
  <2> QED BY <2>1, <2>2 DEF Device!BdNext, Device!Complete, Idle, contents
<1>2. CASE rkwc # 0
  <2>1. ~Idle /\ ~Idle' /\ UNCHANGED <<mem, disk, request, trapped, rkwc>>
    BY <1>2 DEF NextOrDone, Idle, contents
  <2>2. Transferred' = Transferred
    BY <2>1 DEF Transferred
  <2> QED BY <2>1, <2>2 DEF Device!bdvars
<1> QED BY <1>1, <1>2

LEMMA NextRefined ==
    ASSUME IInv, [Next]_vars
    PROVE  [Device!BdNext]_Device!bdvars
<1>1. CASE UNCHANGED vars
  <2>1. Transferred' = Transferred
    BY <1>1 DEF vars, registers, Transferred
  <2> QED BY <1>1, <2>1 DEF vars, contents, Device!bdvars, Idle
<1>2. CASE Transfer
  BY <1>2, TransferRefined DEF Device!BdNext
<1>3. CASE Error \/ BusError
  BY <1>3, FailRefined DEF Device!BdNext
<1> QED BY <1>1, <1>2, <1>3, StoresRefined, WriteRkcsRefined, SeekRefined,
       NextOrDoneRefined DEF Next, Step

\* Of disk and core a transfer is a straight copy of consecutive words, all of
\* them or a first part, whatever it crosses.
THEOREM DeviceImplemented == Spec => CopiesStraight
<1>1. Spec => Device!BdInit /\ [][Device!BdNext]_Device!bdvars
  BY DeviceInit, NextRefined, Invariance, PTL DEF Spec
<1> QED BY <1>1 DEF CopiesStraight, Device!BdSpec
=============================================================================
