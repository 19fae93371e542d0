------------------------------ MODULE Tm11Proofs ------------------------------
(***************************************************************************)
(* Proofs about Tm11, for tapes, cores and registers of every size and     *)
(* everything the program may store.                                       *)
(***************************************************************************)
EXTENDS Tm11, TLAPS

USE TmAssumption

Transfers == [write : BOOLEAN, drive : Drives, from : Nat, base : Nat, count : Nat]

Copied == addr - request.base

\* MTC still says what the transfer was asked to do, and is not ready.
RequestHeld ==
    /\ request \in Transfers
    /\ Idle => request = NoRequest
    /\ ~Idle => /\ ~mtc.ready /\ ~mtc.ce
                /\ request.drive = Drive
                /\ request.write <=> at = "write"
                /\ request.base <= addr

\* A read never believes to be more than one word behind the end of the file, a
\* write begins before the end of the tape: the positions stay bounded.
PositionsBounded ==
    /\ at = "read" => pos[Drive] <= size[Drive] + 1
    /\ at = "write" => pos[Drive] < TapeLen + addr

\* The file stands where the transfer has got to, until a read has passed its end.
FileAgrees == ~Idle /\ ~PastEnd => filePos[Drive] = request.from + Copied

\* MTBRC tells what is left, or never will.
CountAgrees ==
    ~Idle => \/ mtbrc = 0 /\ Copied = request.count
             \/ mtbrc # 0 /\ mtbrc % 2 = 0 /\ 2 * (request.count - Copied) = BcMod - mtbrc
             \/ mtbrc % 2 = 1 /\ request.count > MemWords

IInv == /\ TypeOK /\ RequestHeld /\ PositionsBounded /\ TransfersAtPosition
        /\ FileAgrees /\ CountAgrees

-----------------------------------------------------------------------------
(***************************************************************************)
(* Arithmetic.                                                             *)
(***************************************************************************)

\* MTBRC counts bytes by two, and wraps to zero from an even count only.
LEMMA CountUp ==
    ASSUME NEW n \in 0 .. BcMod - 1, n # 0
    PROVE  /\ (n + 2) % BcMod \in 0 .. BcMod - 1
           /\ n % 2 = 0 => (n + 2) % BcMod = IF n + 2 = BcMod THEN 0 ELSE n + 2
           /\ n % 2 = 0 => ((n + 2) % BcMod) % 2 = 0
           /\ n % 2 = 1 => ((n + 2) % BcMod) % 2 = 1
<1>1. (n + 2) % BcMod \in 0 .. BcMod - 1
  OBVIOUS
<1>2. CASE n + 2 < BcMod
  <2>1. (n + 2) % BcMod = n + 2
    BY <1>2
  <2> QED BY <1>1, <1>2, <2>1
<1>3. CASE n + 2 = BcMod
  <2>1. (n + 2) % BcMod = 0
    BY <1>3
  <2> QED BY <1>1, <1>3, <2>1
<1>4. CASE n + 2 > BcMod
  <2>1. n = BcMod - 1 /\ n % 2 = 1 /\ BcMod > 1
    BY <1>4
  <2>2. (BcMod + 1) % BcMod = 1
    BY <2>1
  <2> QED BY <1>1, <2>1, <2>2
<1> QED BY <1>2, <1>3, <1>4

\* What a count of bytes asks for.
LEMMA WordsAsked ==
    ASSUME mtbrc \in 0 .. BcMod - 1
    PROVE  /\ Words \in Nat
           /\ mtbrc = 0 => Words = 0
           /\ mtbrc # 0 /\ mtbrc % 2 = 0 => 2 * Words = BcMod - mtbrc
           /\ mtbrc % 2 = 1 => Words > MemWords
<1>1. CASE mtbrc = 0
  <2>1. (BcMod - mtbrc) % BcMod = 0
    BY <1>1
  <2> QED BY <1>1, <2>1 DEF Words
<1>2. CASE mtbrc # 0 /\ mtbrc % 2 = 0
  <2>1. (BcMod - mtbrc) % BcMod = BcMod - mtbrc /\ (BcMod - mtbrc) % 2 = 0
    BY <1>2
  <2> QED BY <1>2, <2>1 DEF Words
<1>3. CASE mtbrc % 2 = 1
  BY <1>3 DEF Words
<1> QED BY <1>1, <1>2, <1>3

\* The bits of the address in MTC reach at most four times what MTCMA does.
LEMMA AddressFits ==
    ASSUME NEW ext \in 0 .. MemWords \div LowWords, mtcma \in 0 .. LowWords - 1
    PROVE  ext \in 0 .. 3 /\ ext * LowWords + mtcma \in 0 .. MemWords + 4 * LowWords
<1>1. MemWords \div LowWords <= 3
  OBVIOUS
<1>2. ext \in {0, 1, 2, 3}
  BY <1>1
<1> QED BY <1>2

-----------------------------------------------------------------------------
(***************************************************************************)
(* The invariant between transfers.                                        *)
(***************************************************************************)
Mtcs == [drive : Drives, ext : 0 .. 3, func : 0 .. 7,
         ie : BOOLEAN, ready : BOOLEAN, ce : BOOLEAN]

LEMMA NoRequestType == NoRequest \in Transfers
BY DEF NoRequest, Transfers

LEMMA InitInv == Init => IInv
<1> SUFFICES ASSUME Init PROVE IInv
  OBVIOUS
<1>1. mtc \in Mtcs
  BY DEF Init, Mtcs
<1>2. 0 \in 0 .. TapeWords /\ 0 \in 0 .. TapeWords + 1 /\ TapeLen + MemWords = TapeWords
  BY DEF TapeWords
<1>3. /\ pos \in [Drives -> 0 .. TapeWords + 1] /\ filePos \in [Drives -> 0 .. TapeWords]
      /\ size \in [Drives -> 0 .. TapeWords]
      /\ \A d \in Drives : filePos[d] <= size[d]
  BY <1>2 DEF Init
<1>4. mtbrc \in 0 .. BcMod - 1 /\ mtcma \in 0 .. LowWords - 1
      /\ addr \in 0 .. MemWords + 4 * LowWords /\ posted \in Nat
  BY DEF Init
<1>5. TypeOK
  BY <1>1, <1>3, <1>4 DEF Init, TypeOK, Mtcs
<1> QED BY <1>5, NoRequestType DEF Init, IInv, RequestHeld, PositionsBounded,
       TransfersAtPosition, FileAgrees, CountAgrees, Idle

\* While no transfer is under way, only types are at stake.
LEMMA IdleInv ==
    ASSUME TypeOK', at' = "idle", request' = NoRequest
    PROVE  IInv'
BY NoRequestType DEF IInv, RequestHeld, PositionsBounded, TransfersAtPosition, FileAgrees,
   CountAgrees, Idle

LEMMA StoresInv ==
    ASSUME IInv, WriteMtbrc \/ WriteMtcma \/ ReadMtc \/ Service
    PROVE  IInv'
<1>1. UNCHANGED <<at, request>> /\ at = "idle" /\ request = NoRequest
  BY DEF WriteMtbrc, WriteMtcma, ReadMtc, Service, Idle, IInv, RequestHeld
<1>2. CASE WriteMtbrc
  <2>1. TypeOK'
    BY <1>2 DEF WriteMtbrc, IInv, TypeOK, files
  <2> QED BY <1>1, <2>1, IdleInv
<1>3. CASE WriteMtcma
  <2>1. TypeOK'
    BY <1>3 DEF WriteMtcma, IInv, TypeOK, files
  <2> QED BY <1>1, <2>1, IdleInv
<1>4. CASE ReadMtc
  <2>1. mtc \in Mtcs /\ eot \in BOOLEAN
    BY DEF IInv, TypeOK, Mtcs
  <2>2. mtc' \in Mtcs
    BY <1>4, <2>1 DEF ReadMtc, Mtcs
  <2>3. TypeOK'
    BY <1>4, <2>2 DEF ReadMtc, IInv, TypeOK, files, Mtcs
  <2> QED BY <1>1, <2>3, IdleInv
<1>5. CASE Service
  <2>1. posted' \in Nat
    BY <1>5 DEF Service, IInv, TypeOK
  <2>2. TypeOK'
    BY <1>5, <2>1 DEF Service, IInv, TypeOK, registers, files
  <2> QED BY <1>1, <2>2, IdleInv
<1> QED BY <1>2, <1>3, <1>4, <1>5

LEMMA ResetInv ==
    ASSUME IInv, Reset \/ Attach
    PROVE  IInv'
<1>1. UNCHANGED <<at, request, size, addr, posted, failed>> /\ at = "idle" /\ request = NoRequest
  BY DEF Reset, Attach, Idle, IInv, RequestHeld, files
<1>2. ResetRegisters
  BY DEF Reset, Attach
<1>3. mtc' \in Mtcs
  BY <1>2 DEF ResetRegisters, Mtcs
<1>4. pos' \in [Drives -> 0 .. TapeWords + 1]
  <2>1. 0 \in 0 .. TapeWords + 1
    BY DEF TapeWords
  <2> QED BY <1>2, <2>1 DEF ResetRegisters
<1>5. /\ filePos' \in [Drives -> 0 .. TapeWords]
      /\ \A d \in Drives : filePos'[d] <= size'[d]
      /\ attached' \subseteq Drives
  <2>1. CASE Reset
    BY <2>1 DEF Reset, files, IInv, TypeOK
  <2>2. CASE Attach
    <3>1. PICK d \in Drives :
              /\ attached' = IF d \in attached THEN attached \ {d} ELSE attached \cup {d}
              /\ filePos' = [filePos EXCEPT ![d] = 0]
      BY <2>2 DEF Attach
    <3>2. 0 \in 0 .. TapeWords
      BY DEF TapeWords
    <3>3. \A e \in Drives : filePos'[e] <= size[e]
      BY <3>1 DEF IInv, TypeOK
    <3> QED BY <1>1, <3>1, <3>2, <3>3 DEF IInv, TypeOK
  <2> QED BY <2>1, <2>2
<1>6. /\ {eot', bot'} \subseteq BOOLEAN
      /\ mtbrc' \in 0 .. BcMod - 1 /\ mtcma' \in 0 .. LowWords - 1
  <2>1. eot' = FALSE /\ bot' = FALSE /\ mtbrc' = 0 /\ mtcma' = 0
    BY <1>2 DEF ResetRegisters
  <2>2. 0 \in 0 .. BcMod - 1 /\ 0 \in 0 .. LowWords - 1
    OBVIOUS
  <2>3. {eot', bot'} \subseteq BOOLEAN
    BY <2>1
  <2> QED BY <2>1, <2>2, <2>3
<1>7. TypeOK'
  BY <1>1, <1>3, <1>4, <1>5, <1>6 DEF IInv, TypeOK, Mtcs
<1> QED BY <1>1, <1>7, IdleInv

-----------------------------------------------------------------------------
(***************************************************************************)
(* A store into MTC.                                                       *)
(***************************************************************************)

\* finish() leaves the controller ready and no transfer.
LEMMA FinishInv ==
    ASSUME IInv, NEW m \in Mtcs, NEW n \in {0, 1}, NEW end \in BOOLEAN, Finish(m, n, end),
           {eot', bot', failed'} \subseteq BOOLEAN,
           pos' \in [Drives -> 0 .. TapeWords + 1], filePos' \in [Drives -> 0 .. TapeWords],
           \A d \in Drives : filePos'[d] <= size'[d],
           UNCHANGED <<mtbrc, mtcma, attached, size>>
    PROVE  IInv'
<1>1. mtc' \in Mtcs
  BY DEF Finish, Mtcs
<1>2. posted' \in Nat
  BY DEF Finish, IInv, TypeOK
<1>3. addr' \in 0 .. MemWords + 4 * LowWords
  BY DEF Finish
<1>4. TypeOK'
  BY <1>1, <1>2, <1>3 DEF Finish, IInv, TypeOK, Mtcs
<1> QED BY <1>4, IdleInv DEF Finish

\* A seek stays within the file.
LEMMA SoughtFacts ==
    ASSUME TypeOK, NEW d \in Drives
    PROVE  /\ Sought(d) \in 0 .. TapeWords /\ Sought(d) <= size[d]
           /\ Sought(d) = pos[d] \/ pos[d] > size[d]
BY DEF TypeOK, Sought, TapeWords

LEMMA BeginInv ==
    ASSUME IInv, NEW m \in Mtcs, NEW phase \in {"read", "write"}, Begin(m, phase),
           m.ext \in 0 .. MemWords \div LowWords, ~m.ready, ~m.ce,
           phase = "read" => pos[m.drive] <= size[m.drive],
           phase = "write" => pos[m.drive] < TapeLen,
           UNCHANGED <<mtbrc, mtcma, attached, size>>
    PROVE  IInv'
<1> DEFINE d == m.drive
<1>1. /\ mtc' = m /\ at' = phase /\ d \in Drives
      /\ filePos' = [filePos EXCEPT ![d] = Sought(d)]
      /\ addr' = m.ext * LowWords + mtcma
      /\ request'.write = (phase = "write") /\ request'.drive = d
      /\ request'.from = Sought(d) /\ request'.base = addr' /\ request'.count = Words
      /\ request' = [write |-> phase = "write", drive |-> d,
                     from |-> Sought(d), base |-> addr', count |-> Words]
      /\ UNCHANGED <<eot, bot, pos, posted, failed>>
  BY DEF Begin, Mtcs
<1>2. /\ pos \in [Drives -> 0 .. TapeWords + 1] /\ filePos \in [Drives -> 0 .. TapeWords]
      /\ size \in [Drives -> 0 .. TapeWords] /\ \A e \in Drives : filePos[e] <= size[e]
      /\ mtbrc \in 0 .. BcMod - 1 /\ mtcma \in 0 .. LowWords - 1
  BY DEF IInv, TypeOK
<1>3. /\ Sought(d) \in 0 .. TapeWords /\ Sought(d) <= size[d]
      /\ Sought(d) = pos[d] \/ pos[d] > size[d]
  BY <1>1, SoughtFacts DEF IInv
<1>4. addr' \in 0 .. MemWords + 4 * LowWords
  BY <1>1, <1>2, AddressFits
<1> HIDE DEF d
<1>5. /\ filePos' \in [Drives -> 0 .. TapeWords] /\ filePos'[d] = Sought(d)
      /\ \A e \in Drives : filePos'[e] <= size[e]
  BY <1>1, <1>2, <1>3
<1>6. TypeOK'
  BY <1>1, <1>4, <1>5 DEF IInv, TypeOK, Mtcs
<1>7. Drive' = d
  BY <1>1 DEF Drive, d
<1>8. Words \in Nat
  BY <1>2, WordsAsked
<1>9. request' \in Transfers
  BY <1>1, <1>3, <1>4, <1>8 DEF Transfers
<1>10. RequestHeld'
  <2>1. request'.write <=> at' = "write"
    BY <1>1
  <2>2. request'.base <= addr'
    BY <1>1, <1>4
  <2>3. at' # "idle" /\ mtc' = m /\ request'.drive = Drive'
    BY <1>1, <1>7
  <2> QED BY <1>9, <2>1, <2>2, <2>3 DEF RequestHeld, Idle
<1>11. PositionsBounded'
  BY <1>1, <1>2, <1>4, <1>7 DEF PositionsBounded, d
<1>12. TransfersAtPosition'
  BY <1>1, <1>3, <1>5, <1>7 DEF TransfersAtPosition
<1>13. FileAgrees'
  BY <1>1, <1>3, <1>4, <1>5, <1>7 DEF FileAgrees, Copied
<1>14. CountAgrees'
  <2>1. Copied' = 0
    BY <1>1, <1>4 DEF Copied
  <2> QED BY <1>1, <1>2, <1>8, <2>1, WordsAsked DEF CountAgrees
<1> QED BY <1>6, <1>10, <1>11, <1>12, <1>13, <1>14 DEF IInv

LEMMA GoInv ==
    ASSUME IInv, NEW m \in Mtcs, m.ext \in 0 .. MemWords \div LowWords, ~m.ready, ~m.ce, Go(m),
           UNCHANGED <<mtbrc, mtcma, attached, size>>
    PROVE  IInv'
<1>1. /\ pos \in [Drives -> 0 .. TapeWords + 1] /\ filePos \in [Drives -> 0 .. TapeWords]
      /\ size \in [Drives -> 0 .. TapeWords] /\ \A d \in Drives : filePos[d] <= size[d]
      /\ {eot, bot, failed} \subseteq BOOLEAN
      /\ m.drive \in Drives /\ pos[m.drive] \in Int /\ size[m.drive] \in Int
  BY DEF IInv, TypeOK, Mtcs
<1>2. CASE AtEnd(m)
  <2>1. /\ Finish(m, 0, TRUE) /\ {eot', bot', failed'} \subseteq BOOLEAN
        /\ UNCHANGED <<pos, filePos>>
    BY <1>1, <1>2 DEF AtEnd
  <2> QED BY <1>1, <2>1, FinishInv
<1>3. CASE m.func = Read /\ pos[m.drive] <= size[m.drive] /\ Begin(m, "read")
  BY <1>3, BeginInv
<1>4. CASE m.func = Write /\ pos[m.drive] < TapeLen /\ Begin(m, "write")
  BY <1>4, BeginInv
<1>5. CASE /\ m.func = Rewind
           /\ eot' = FALSE /\ bot' = TRUE
           /\ pos' = [pos EXCEPT ![m.drive] = 0]
           /\ filePos' = [filePos EXCEPT ![m.drive] = 0]
           /\ Finish(m, IF m.ie THEN 1 ELSE 0, FALSE)
           /\ UNCHANGED failed
  <2>1. PICK n \in {0, 1} : Finish(m, n, FALSE)
    BY <1>5
  <2>2. 0 \in 0 .. TapeWords /\ 0 \in 0 .. TapeWords + 1
    BY DEF TapeWords
  <2>3. /\ pos' \in [Drives -> 0 .. TapeWords + 1] /\ filePos' \in [Drives -> 0 .. TapeWords]
        /\ {eot', bot', failed'} \subseteq BOOLEAN
    BY <1>1, <1>5, <2>2
  <2>4. \A d \in Drives : filePos'[d] <= size'[d]
    BY <1>1, <1>5
  <2> QED BY <2>1, <2>3, <2>4, FinishInv
<1>6. CASE Finish(m, 0, eot) /\ UNCHANGED <<eot, bot, pos, filePos, failed>>
  <2>1. \A d \in Drives : filePos'[d] <= size'[d]
    BY <1>1, <1>6
  <2>2. {eot', bot', failed'} \subseteq BOOLEAN /\ eot \in BOOLEAN
    BY <1>1, <1>6
  <2> QED BY <1>1, <1>6, <2>1, <2>2, FinishInv
<1>7. CASE m.func = Read
  <2>1. IF pos[m.drive] > size[m.drive] THEN AtEnd(m) ELSE Begin(m, "read")
    BY <1>7 DEF Go, Read, Write, Rewind
  <2> QED BY <1>1, <1>2, <1>3, <1>7, <2>1
<1>8. CASE m.func = Write
  <2>1. IF pos[m.drive] >= TapeLen THEN AtEnd(m) ELSE Begin(m, "write")
    BY <1>8 DEF Go, Read, Write, Rewind
  <2> QED BY <1>1, <1>2, <1>4, <1>8, <2>1
<1> QED BY <1>5, <1>6, <1>7, <1>8 DEF Go

LEMMA WriteMtcInv ==
    ASSUME IInv, WriteMtc
    PROVE  IInv'
<1>1. PICK d \in Drives, ext \in 0 .. MemWords \div LowWords, func \in FunctionsGiven,
           ie \in BOOLEAN, go \in BOOLEAN :
           LET m == [mtc EXCEPT !.drive = d, !.ext = ext, !.func = func, !.ie = ie] IN
           \/ /\ ~go /\ ~ie
              /\ mtc' = m
              /\ UNCHANGED <<eot, bot, pos, filePos, at, addr, posted, failed, request>>
           \/ /\ go \/ ie
              /\ d \notin attached
              /\ mtc' = [m EXCEPT !.ready = FALSE]
              /\ UNCHANGED <<eot, bot, pos, filePos, at, addr, posted, failed, request>>
           \/ /\ go \/ ie
              /\ d \in attached
              /\ Go([m EXCEPT !.ready = FALSE, !.ce = FALSE])
  BY DEF WriteMtc
<1>2. /\ UNCHANGED <<mtbrc, mtcma, attached, size, tape, mem>>
      /\ at = "idle" /\ request = NoRequest
  BY DEF WriteMtc, Idle, IInv, RequestHeld
<1>3. ext \in 0 .. 3 /\ func \in 0 .. 7
  BY AddressFits DEF IInv, TypeOK
<1> DEFINE m == [mtc EXCEPT !.drive = d, !.ext = ext, !.func = func, !.ie = ie]
           none == [m EXCEPT !.ready = FALSE]
           some == [m EXCEPT !.ready = FALSE, !.ce = FALSE]
<1>4. m \in Mtcs /\ none \in Mtcs /\ some \in Mtcs
      /\ some.ext = ext /\ ~some.ready /\ ~some.ce
  <2>1. mtc \in Mtcs
    BY DEF IInv, TypeOK, Mtcs
  <2> QED BY <1>3, <2>1 DEF Mtcs
<1> HIDE DEF m, none, some
<1>5. CASE /\ mtc' \in {m, none}
           /\ UNCHANGED <<eot, bot, pos, filePos, at, addr, posted, failed, request>>
  <2>1. TypeOK'
    BY <1>2, <1>4, <1>5 DEF IInv, TypeOK, Mtcs
  <2> QED BY <1>2, <1>5, <2>1, IdleInv
<1>6. CASE Go(some)
  BY <1>2, <1>4, <1>6, GoInv
<1> QED BY <1>1, <1>5, <1>6 DEF m, none, some

-----------------------------------------------------------------------------
(***************************************************************************)
(* The steps of a transfer.                                                *)
(***************************************************************************)

\* What moves with every word that is copied.
LEMMA WordFacts ==
    ASSUME IInv, MoreWords, addr < MemWords, Moved, mtbrc' = Counted,
           UNCHANGED <<at, request, mtc>>
    PROVE  /\ addr' \in 0 .. MemWords + 4 * LowWords /\ mtcma' \in 0 .. LowWords - 1
           /\ mtbrc' \in 0 .. BcMod - 1
           /\ Copied' = Copied + 1 /\ Copied \in Nat /\ Copied < request.count
           /\ CountAgrees' /\ RequestHeld'
<1>1. /\ addr \in Nat /\ mtbrc \in 0 .. BcMod - 1 /\ mtbrc # 0
      /\ request.base \in Nat /\ request.count \in Nat /\ request.base <= addr
      /\ at # "idle"
  BY DEF IInv, TypeOK, RequestHeld, Transfers, MoreWords, Idle
<1>2. addr' = addr + 1 /\ mtcma' = (addr + 1) % LowWords /\ mtbrc' = (mtbrc + 2) % BcMod
  BY DEF Moved, Counted
<1>3. addr' \in 0 .. MemWords + 4 * LowWords /\ mtcma' \in 0 .. LowWords - 1
  BY <1>1, <1>2
<1>4. /\ mtbrc' \in 0 .. BcMod - 1
      /\ mtbrc % 2 = 0 => mtbrc' = (IF mtbrc + 2 = BcMod THEN 0 ELSE mtbrc + 2) /\ mtbrc' % 2 = 0
      /\ mtbrc % 2 = 1 => mtbrc' % 2 = 1
  BY <1>1, <1>2, CountUp
<1>5. Copied \in Nat /\ Copied' = Copied + 1
  BY <1>1, <1>2 DEF Copied
<1>6. CASE mtbrc % 2 = 0
  <2>1. 2 * (request.count - Copied) = BcMod - mtbrc
    BY <1>1, <1>6 DEF IInv, CountAgrees, Idle
  <2>2. Copied < request.count
    BY <1>1, <1>5, <2>1
  <2>3. CountAgrees'
    BY <1>1, <1>4, <1>5, <1>6, <2>1 DEF CountAgrees
  <2> QED BY <2>2, <2>3, <1>1, <1>2, <1>3, <1>4, <1>5 DEF IInv, RequestHeld, Idle, Drive
<1>7. CASE mtbrc % 2 = 1
  <2>1. request.count > MemWords
    BY <1>1, <1>7 DEF IInv, CountAgrees, Idle
  <2>2. Copied < request.count
    BY <1>1, <2>1 DEF Copied
  <2>3. CountAgrees'
    BY <1>4, <1>7, <2>1 DEF CountAgrees
  <2> QED BY <2>2, <2>3, <1>1, <1>2, <1>3, <1>4, <1>5 DEF IInv, RequestHeld, Idle, Drive
<1> QED BY <1>1, <1>6, <1>7

LEMMA ReadWordInv ==
    ASSUME IInv, ReadWord
    PROVE  IInv'
<1>1. /\ at = "read" /\ MoreWords /\ addr < MemWords /\ mtbrc' = Counted /\ Moved
      /\ filePos' = [filePos EXCEPT ![Drive] = NextFilePos]
      /\ pos' = [pos EXCEPT ![Drive] = @ + 1] /\ bot' = FALSE
      /\ UNCHANGED <<mtc, eot, attached, size, at, posted, failed, request>>
  BY DEF ReadWord, Moved
<1>2. /\ pos \in [Drives -> 0 .. TapeWords + 1] /\ filePos \in [Drives -> 0 .. TapeWords]
      /\ size \in [Drives -> 0 .. TapeWords] /\ \A d \in Drives : filePos[d] <= size[d]
      /\ Drive \in Drives /\ TapeWords \in Nat
  BY DEF IInv, TypeOK, Drive, TapeWords
<1>3. pos[Drive] <= size[Drive] /\ filePos[Drive] = pos[Drive]
      /\ filePos[Drive] = request.from + Copied
  <2>1. ~Idle /\ ~PastEnd
    BY <1>1 DEF MoreWords
  <2>2. pos[Drive] <= size[Drive]
    BY <1>1, <1>2, <2>1 DEF PastEnd
  <2> QED BY <1>2, <2>1, <2>2 DEF IInv, TransfersAtPosition, FileAgrees
<1>4. /\ addr' \in 0 .. MemWords + 4 * LowWords /\ mtcma' \in 0 .. LowWords - 1
      /\ mtbrc' \in 0 .. BcMod - 1
      /\ Copied' = Copied + 1 /\ Copied \in Nat
      /\ CountAgrees' /\ RequestHeld'
  BY <1>1, WordFacts
<1>5. /\ NextFilePos \in 0 .. TapeWords /\ NextFilePos <= size[Drive]
      /\ pos[Drive] < size[Drive] => NextFilePos = pos[Drive] + 1
  BY <1>2, <1>3 DEF NextFilePos
<1>6. /\ filePos' \in [Drives -> 0 .. TapeWords] /\ filePos'[Drive] = NextFilePos
      /\ \A d \in Drives : filePos'[d] <= size[d]
  BY <1>1, <1>2, <1>5
<1>7. pos' \in [Drives -> 0 .. TapeWords + 1] /\ pos'[Drive] = pos[Drive] + 1
  <2>1. pos[Drive] + 1 \in 0 .. TapeWords + 1
    BY <1>2, <1>3
  <2> QED BY <1>1, <1>2, <2>1
<1>8. TypeOK'
  <2>1. {eot', bot', failed'} \subseteq BOOLEAN
    BY <1>1 DEF IInv, TypeOK
  <2> QED BY <1>1, <1>4, <1>6, <1>7, <2>1 DEF IInv, TypeOK
<1>9. Drive' = Drive
  BY <1>1 DEF Drive
<1>10. PositionsBounded'
  BY <1>1, <1>2, <1>3, <1>7, <1>9 DEF PositionsBounded
<1>11. TransfersAtPosition'
  BY <1>1, <1>2, <1>3, <1>5, <1>6, <1>7, <1>9 DEF TransfersAtPosition
<1>12. FileAgrees'
  <2>1. request.from \in Int
    BY DEF IInv, RequestHeld, Transfers
  <2>2. pos'[Drive] <= size[Drive] => NextFilePos = request.from + (Copied + 1)
    <3>1. pos[Drive] = request.from + Copied /\ pos[Drive] \in Int /\ size[Drive] \in Int
      BY <1>2, <1>3
    <3> QED BY <1>4, <1>5, <1>7, <2>1, <3>1
  <2> QED BY <1>1, <1>2, <1>4, <1>6, <1>7, <1>9, <2>1, <2>2 DEF FileAgrees, PastEnd
<1> QED BY <1>4, <1>8, <1>10, <1>11, <1>12 DEF IInv

LEMMA WriteWordInv ==
    ASSUME IInv, WriteWord
    PROVE  IInv'
<1> DEFINE f == filePos[Drive]
<1>1. /\ at = "write" /\ MoreWords /\ addr < MemWords /\ mtbrc' = Counted /\ Moved
      /\ filePos' = [filePos EXCEPT ![Drive] = f + 1]
      /\ size' = [size EXCEPT ![Drive] = IF size[Drive] = f THEN f + 1 ELSE size[Drive]]
      /\ pos' = [pos EXCEPT ![Drive] = pos[Drive] + 1] /\ bot' = FALSE /\ addr' = addr + 1
      /\ UNCHANGED <<mtc, eot, attached, at, posted, failed, request>>
  BY DEF WriteWord, Moved
<1>2. /\ pos \in [Drives -> 0 .. TapeWords + 1] /\ filePos \in [Drives -> 0 .. TapeWords]
      /\ size \in [Drives -> 0 .. TapeWords] /\ \A d \in Drives : filePos[d] <= size[d]
      /\ Drive \in Drives /\ TapeWords = TapeLen + MemWords /\ addr \in Nat
  BY DEF IInv, TypeOK, Drive, TapeWords
<1>3. /\ pos[Drive] < TapeLen + addr
      /\ f = pos[Drive] \/ pos[Drive] > size[Drive]
      /\ f = request.from + Copied
  <2>1. ~Idle /\ ~PastEnd
    BY <1>1 DEF MoreWords
  <2> QED BY <1>1, <2>1 DEF IInv, TransfersAtPosition, FileAgrees, PositionsBounded
<1> HIDE DEF f
<1>4. /\ f \in Nat /\ f <= size[Drive] /\ f <= pos[Drive] /\ f = filePos[Drive]
      /\ pos[Drive] + 1 \in 0 .. TapeWords /\ f + 1 \in 0 .. TapeWords
      /\ pos[Drive] \in Nat /\ size[Drive] \in 0 .. TapeWords
  BY <1>1, <1>2, <1>3 DEF f
<1>5. /\ addr' \in 0 .. MemWords + 4 * LowWords /\ mtcma' \in 0 .. LowWords - 1
      /\ mtbrc' \in 0 .. BcMod - 1
      /\ Copied' = Copied + 1 /\ Copied \in Nat
      /\ CountAgrees' /\ RequestHeld'
  BY <1>1, WordFacts
<1>6. /\ filePos' \in [Drives -> 0 .. TapeWords] /\ filePos'[Drive] = f + 1
      /\ pos' \in [Drives -> 0 .. TapeWords + 1] /\ pos'[Drive] = pos[Drive] + 1
  BY <1>1, <1>2, <1>4
<1>7. /\ size' \in [Drives -> 0 .. TapeWords]
      /\ size'[Drive] = (IF size[Drive] = f THEN f + 1 ELSE size[Drive])
      /\ \A d \in Drives : d # Drive => size'[d] = size[d] /\ filePos'[d] = filePos[d]
  BY <1>1, <1>2, <1>4
<1>8. \A d \in Drives : filePos'[d] <= size'[d]
  BY <1>2, <1>4, <1>6, <1>7
<1>9. TypeOK'
  <2>1. {eot', bot', failed'} \subseteq BOOLEAN
    BY <1>1 DEF IInv, TypeOK
  <2> QED BY <1>1, <1>5, <1>6, <1>7, <1>8, <2>1 DEF IInv, TypeOK
<1>10. Drive' = Drive
  BY <1>1 DEF Drive
<1>11. PositionsBounded'
  BY <1>1, <1>2, <1>3, <1>4, <1>6, <1>10 DEF PositionsBounded
<1>12. TransfersAtPosition'
  BY <1>3, <1>4, <1>6, <1>7, <1>10 DEF TransfersAtPosition
<1>13. FileAgrees'
  <2>1. request.from \in Int
    BY DEF IInv, RequestHeld, Transfers
  <2> QED BY <1>1, <1>3, <1>5, <1>6, <1>10, <2>1 DEF FileAgrees
<1> QED BY <1>5, <1>9, <1>11, <1>12, <1>13 DEF IInv

LEMMA BusErrorInv ==
    ASSUME IInv, BusError
    PROVE  IInv'
<1>1. /\ at' = "idle" /\ addr' = 0 /\ request' = NoRequest /\ failed' = TRUE /\ bot' = FALSE
      /\ UNCHANGED <<mtc, eot, mtcma, attached, pos, size, posted>>
      /\ \/ mtbrc' = Counted /\ filePos' = [filePos EXCEPT ![Drive] = NextFilePos]
         \/ UNCHANGED <<mtbrc, filePos>>
  BY DEF BusError
<1>2. /\ filePos \in [Drives -> 0 .. TapeWords] /\ size \in [Drives -> 0 .. TapeWords]
      /\ \A d \in Drives : filePos[d] <= size[d]
      /\ Drive \in Drives /\ mtbrc \in 0 .. BcMod - 1 /\ mtbrc # 0 /\ TapeWords \in Nat
  BY DEF IInv, TypeOK, Drive, BusError, MoreWords, TapeWords
<1>3. NextFilePos \in 0 .. TapeWords /\ NextFilePos <= size[Drive]
  BY <1>2 DEF NextFilePos
<1>4. mtbrc' \in 0 .. BcMod - 1
  BY <1>1, <1>2, CountUp DEF Counted
<1>5. filePos' \in [Drives -> 0 .. TapeWords] /\ \A d \in Drives : filePos'[d] <= size[d]
  BY <1>1, <1>2, <1>3
<1>6. TypeOK'
  <2>1. {eot', bot', failed'} \subseteq BOOLEAN
    BY <1>1 DEF IInv, TypeOK
  <2>2. addr' \in 0 .. MemWords + 4 * LowWords
    BY <1>1
  <2> QED BY <1>1, <1>4, <1>5, <2>1, <2>2 DEF IInv, TypeOK
<1> QED BY <1>1, <1>6, IdleInv

LEMMA TransferEndsInv ==
    ASSUME IInv, TransferEnds
    PROVE  IInv'
<1>1. /\ Finish(mtc, 0, eot') /\ eot' \in BOOLEAN /\ failed' \in BOOLEAN
      /\ UNCHANGED <<bot, mtbrc, mtcma, attached, pos, filePos, size>>
  BY DEF TransferEnds, files, PastEnd, IInv, TypeOK
<1>2. mtc \in Mtcs /\ bot \in BOOLEAN
      /\ pos \in [Drives -> 0 .. TapeWords + 1] /\ filePos \in [Drives -> 0 .. TapeWords]
      /\ \A d \in Drives : filePos[d] <= size[d]
  BY DEF IInv, TypeOK, Mtcs
<1> QED BY <1>1, <1>2, FinishInv

-----------------------------------------------------------------------------
(***************************************************************************)
(* The invariant.                                                          *)
(***************************************************************************)
LEMMA NextInv ==
    ASSUME IInv, [Next]_vars
    PROVE  IInv'
<1>1. CASE UNCHANGED vars
  BY <1>1 DEF vars, registers, files, IInv, TypeOK, RequestHeld, PositionsBounded,
     TransfersAtPosition, FileAgrees, CountAgrees, Copied, PastEnd, Idle, Drive
<1> QED BY <1>1, WriteMtcInv, StoresInv, ResetInv, ReadWordInv, WriteWordInv, BusErrorInv,
       TransferEndsInv DEF Next, Step

\* The inductive invariant holds in every reachable state of tm11::go().
THEOREM Invariance == Spec => []IInv
<1>1. Init => IInv
  BY InitInv
<1>2. IInv /\ [Next]_vars => IInv'
  BY NextInv
<1> QED BY <1>1, <1>2, PTL DEF Spec

\* go() keeps the registers, the positions and the files in their ranges.
THEOREM TypeCorrect == Spec => []TypeOK
<1>1. IInv => TypeOK
  BY DEF IInv
<1> QED BY <1>1, Invariance, PTL

\* Whatever resets, attaches and failed seeks came before, a transfer reads and
\* writes where the controller believes the tape to be, or is past its end.
THEOREM TransfersAlwaysAtPosition == Spec => []TransfersAtPosition
<1>1. IInv => TransfersAtPosition
  BY DEF IInv
<1> QED BY <1>1, Invariance, PTL

-----------------------------------------------------------------------------
(***************************************************************************)
(* How transfers end.                                                      *)
(***************************************************************************)

\* Only the loops of go() run while a transfer is under way.
LEMMA Busy ==
    ASSUME ~Idle, Next
    PROVE  Step
BY DEF Next, WriteMtc, WriteMtbrc, WriteMtcma, ReadMtc, Reset, Attach, Service

LEMMA EndAnswered ==
    ASSUME IInv, [Next]_vars, ~Idle, Idle'
    PROVE  \/ /\ mtc'.ready /\ mtc'.ce = eot'
              /\ mtc.ie => posted' > posted
           \/ ~mtc'.ready /\ addr >= MemWords
<1>1. Step
  <2>1. ~UNCHANGED vars
    BY DEF vars, Idle
  <2> QED BY <2>1, Busy
<1>2. CASE BusError
  BY <1>2 DEF BusError, IInv, RequestHeld
<1>3. CASE TransferEnds
  <2>1. /\ mtc' = [mtc EXCEPT !.ready = TRUE, !.ce = @ \/ eot', !.ie = FALSE]
        /\ posted' = posted + 0 + (IF mtc.ie THEN 1 ELSE 0)
        /\ eot' = (eot \/ PastEnd)
    BY <1>3 DEF TransferEnds, Finish
  <2>2. ~mtc.ce /\ mtc \in Mtcs /\ eot' \in BOOLEAN /\ posted \in Nat
    BY <2>1 DEF IInv, RequestHeld, TypeOK, Mtcs, PastEnd
  <2>3. mtc'.ready = TRUE /\ mtc'.ce = (mtc.ce \/ eot')
    BY <2>1, <2>2 DEF Mtcs
  <2>4. mtc.ie => posted' > posted
    BY <2>1, <2>2
  <2> QED BY <2>2, <2>3, <2>4
<1> QED BY <1>1, <1>2, <1>3 DEF Step, ReadWord, WriteWord, Idle

\* A read or a write never ends in silence: the controller is ready, the error
\* bit tells of the tape's end and an interrupt follows if one is enabled, or an
\* address was outside of the core.
THEOREM TransfersAnswered == Spec => EndsAnswered
<1>1. IInv /\ [Next]_vars =>
          [~Idle /\ Idle' =>
               \/ /\ mtc'.ready /\ mtc'.ce = eot'
                  /\ mtc.ie => posted' > posted
               \/ ~mtc'.ready /\ addr >= MemWords]_vars
  BY EndAnswered
<1> QED BY <1>1, Invariance, PTL DEF Spec, EndsAnswered

-----------------------------------------------------------------------------
(***************************************************************************)
(* The refinement of BlockDevice, step by step.                            *)
(***************************************************************************)
LEMMA DeviceInit == Init => Device!BdInit
BY DEF Init, Device!BdInit, Idle

\* Whatever leaves these alone between transfers is a step of the environment.
LEMMA DeviceStutters ==
    ASSUME UNCHANGED <<mem, tape, request, failed, at>>, Idle
    PROVE  UNCHANGED Device!bdvars
BY DEF Device!bdvars, Idle

LEMMA StoresRefined ==
    ASSUME IInv, WriteMtbrc \/ WriteMtcma \/ ReadMtc \/ Attach \/ Service \/ Reset
    PROVE  UNCHANGED Device!bdvars
BY DeviceStutters DEF WriteMtbrc, WriteMtcma, ReadMtc, Attach, Service, Reset, files

LEMMA NothingCopied ==
    ASSUME IInv', request'.base = addr'
    PROVE  Copied' = 0
<1>1. addr' \in 0 .. MemWords + 4 * LowWords /\ request' \in Transfers
  BY DEF IInv, TypeOK, RequestHeld
<1>2. \A a \in Nat : \A b : a = b => a - b = 0
  OBVIOUS
<1>3. addr' \in Nat
  BY <1>1
<1> QED BY <1>2, <1>3, Zenon DEF Copied

\* A command that begins no transfer leaves the transfers of the past alone.
LEMMA WriteMtcRefined ==
    ASSUME IInv, WriteMtc
    PROVE  [Device!BdNext]_Device!bdvars
<1>1. at = "idle" /\ request = NoRequest /\ UNCHANGED <<tape, mem>>
  BY DEF WriteMtc, Idle, IInv, RequestHeld
<1>2. CASE at' = "idle" /\ request' = NoRequest /\ failed' = failed
  BY <1>1, <1>2, DeviceStutters DEF Idle
<1>3. ASSUME NEW m, NEW phase \in {"read", "write"}, Begin(m, phase)
      PROVE  Device!BdNext
  <2>1. at' = phase /\ request'.base = addr' /\ failed' = failed
    BY <1>3 DEF Begin
  <2>2. IInv'
    BY WriteMtcInv
  <2>3. request' \in Transfers
    BY <2>2 DEF IInv, RequestHeld
  <2>4. Copied' = 0
    BY <2>1, <2>2, NothingCopied
  <2> QED BY <1>1, <2>1, <2>3, <2>4 DEF Device!BdNext, Device!Start, Idle, Transfers, Copied
<1>4. ASSUME NEW m, Go(m)
      PROVE  [Device!BdNext]_Device!bdvars
  BY <1>2, <1>3, <1>4 DEF Go, AtEnd, Finish
<1> QED BY <1>1, <1>2, <1>4 DEF WriteMtc

LEMMA ReadWordRefined ==
    ASSUME IInv, ReadWord
    PROVE  Device!Copy
<1>1. /\ at = "read" /\ MoreWords /\ addr < MemWords /\ mtbrc' = Counted /\ Moved
      /\ mem' = [mem EXCEPT ![addr] = tape[Drive][filePos[Drive]]]
      /\ UNCHANGED <<mtc, at, request, failed, tape>>
  BY DEF ReadWord
<1>2. Copied' = Copied + 1 /\ Copied < request.count
  BY <1>1, WordFacts
<1>3. /\ addr = request.base + Copied /\ filePos[Drive] = request.from + Copied
      /\ Drive = request.drive /\ ~request.write
  <2>1. addr \in Int /\ request.base \in Int
    BY DEF IInv, TypeOK, RequestHeld, Transfers
  <2>2. addr = request.base + Copied
    BY <2>1 DEF Copied
  <2> QED BY <1>1, <2>2 DEF IInv, FileAgrees, RequestHeld, MoreWords, Idle
<1> QED BY <1>1, <1>2, <1>3 DEF Device!Copy, Idle, Copied

LEMMA WriteWordRefined ==
    ASSUME IInv, WriteWord
    PROVE  Device!Copy
<1>1. /\ at = "write" /\ MoreWords /\ addr < MemWords /\ mtbrc' = Counted /\ Moved
      /\ tape' = [tape EXCEPT ![Drive][filePos[Drive]] = mem[addr]]
      /\ UNCHANGED <<mtc, at, request, failed, mem>>
  BY DEF WriteWord
<1>2. Copied' = Copied + 1 /\ Copied < request.count
  BY <1>1, WordFacts
<1>3. /\ addr = request.base + Copied /\ filePos[Drive] = request.from + Copied
      /\ Drive = request.drive /\ request.write
  <2>1. addr \in Int /\ request.base \in Int
    BY DEF IInv, TypeOK, RequestHeld, Transfers
  <2>2. addr = request.base + Copied
    BY <2>1 DEF Copied
  <2> QED BY <1>1, <2>2 DEF IInv, FileAgrees, RequestHeld, MoreWords, Idle
<1> QED BY <1>1, <1>2, <1>3 DEF Device!Copy, Idle, Copied

LEMMA BusErrorRefined ==
    ASSUME IInv, BusError
    PROVE  Device!Fail
BY DEF BusError, MoreWords, Device!Fail, Idle

\* All words have been copied, unless the file has ended before.
LEMMA TransferEndsRefined ==
    ASSUME IInv, TransferEnds
    PROVE  Device!BdNext
<1>1. /\ ~Idle /\ at' = "idle" /\ request' = NoRequest /\ failed' = PastEnd
      /\ UNCHANGED <<mem, tape>>
  BY DEF TransferEnds, Finish, files
<1>2. CASE PastEnd
  BY <1>1, <1>2 DEF Device!BdNext, Device!Fail, Idle
<1>3. CASE ~PastEnd
  <2>1. mtbrc = 0
    BY <1>1, <1>3 DEF TransferEnds, MoreWords
  <2>2. Copied = request.count
    BY <1>1, <2>1 DEF IInv, CountAgrees
  <2> QED BY <1>1, <1>3, <2>2 DEF Device!BdNext, Device!Complete, Idle, Copied
<1> QED BY <1>2, <1>3

LEMMA NextRefined ==
    ASSUME IInv, [Next]_vars
    PROVE  [Device!BdNext]_Device!bdvars
<1>1. CASE UNCHANGED vars
  BY <1>1 DEF vars, files, Device!bdvars, Idle
<1> QED BY <1>1, StoresRefined, WriteMtcRefined, ReadWordRefined, WriteWordRefined,
       BusErrorRefined, TransferEndsRefined DEF Next, Step, Device!BdNext

\* Of tape and core a transfer is a straight copy of consecutive words, all of
\* them, or those before the end of the tape or of the core.
THEOREM DeviceImplemented == Spec => CopiesStraight
<1>1. Spec => Device!BdInit /\ [][Device!BdNext]_Device!bdvars
  BY DeviceInit, NextRefined, Invariance, PTL DEF Spec
<1> QED BY <1>1 DEF CopiesStraight, Device!BdSpec
=============================================================================
