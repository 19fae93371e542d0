----------------------------- MODULE TftpProofs -----------------------------
(***************************************************************************)
(* Proofs about Tftp, for any number of clients and of connections, files  *)
(* of every length whose block numbers do not wrap, and whatever the radio *)
(* loses, repeats and delays.                                              *)
(***************************************************************************)
EXTENDS Tftp, SequenceTheorems, TLAPS

USE TftpAssumption

Reading(c) == job[c].op = "RRQ"
Writing(c) == job[c].op = "WRQ"

\* No read for client c at the port of connection i has failed.
Whole(i, c) == <<i, c>> \notin misread

\* A reader that has got to block k of its file holds the blocks up to k, all of
\* them full until it is done.
HoldsBlocks(c) ==
    LET s == client[c] IN
    /\ \A j \in 1 .. s.k : s.got[j] = Block(c, j)
    /\ s.st = "done" => s.k = job[c].full + 1
    /\ s.st # "done" => s.k <= job[c].full

\* What a failed read has spoilt is counted and kept all the same.
ClientOK(c) ==
    LET s == client[c] IN
    /\ s.tid = NoSlot <=> s.k = 0
    /\ Writing(c) => s.k <= job[c].full + 1 /\ (s.st = "done" => s.k = job[c].full + 1)
    /\ Reading(c) => /\ s.k <= LastNumber /\ Len(s.got) = s.k
                     /\ Whole(s.tid, c) => HoldsBlocks(c)

\* A connection serves what its client asked for; a reader's holds the block of
\* its number and never goes behind the last one, a writer's has as many blocks
\* on the card as it has counted.
ConnectionOK(i) ==
    LET c == conn[i].client IN
    conn[i] # None =>
        /\ conn[i].op = job[c].op
        /\ Reading(c) => /\ conn[i].pos \in 1 .. LastNumber
                         /\ Whole(i, c) => /\ conn[i].pos <= job[c].full + 1
                                           /\ conn[i].buf = Block(c, conn[i].pos)
        /\ Writing(c) => conn[i].pos <= MaxFull /\ conn[i].pos <= Len(card[c])

\* Every datagram of a client says what the client has said once, every block
\* to a reader is the block of its number unless a read has failed.
FromClient(m) ==
    /\ m.from \in Clients
    /\ m.to = Service => m.op = job[m.from].op
    /\ m.to # Service => /\ m.op \in {"DATA", "ACK", "ERROR"}
                         /\ m.block <= client[m.from].k
                         /\ m.op = "DATA" => m.block >= 1 /\ m.data = Block(m.from, m.block)

FromServer(m) ==
    /\ m.from \in Slots
    /\ m.op \in {"DATA", "ACK", "ERROR"}
    /\ m.op = "DATA" /\ Reading(m.to) =>
           /\ m.block \in 1 .. LastNumber
           /\ Whole(m.from, m.to) => m.data = Block(m.to, m.block)

DatagramOK(m) == IF m.to \in Clients THEN FromServer(m) ELSE FromClient(m)

IInv ==
    /\ TypeOK
    /\ \A c \in Clients : ClientOK(c)
    /\ \A i \in Slots : ConnectionOK(i)
    /\ \A m \in net : DatagramOK(m)

-----------------------------------------------------------------------------
(***************************************************************************)
(* As long as no connection gets a datagram of another one's client.       *)
(***************************************************************************)

\* A datagram in flight to a connection is from the client it serves: the code
\* does not look at the sender, so that a connection that has been taken over
\* by another client would believe what is left of the old one.
NoStrays ==
    \A m \in net : m.to \in Slots /\ conn[m.to] # None => m.from = conn[m.to].client

\* Of client c's file the first n blocks are on the card.
Stored(c, n) ==
    \A k \in 1 .. n : \/ Block(c, k).len = 0
                      \/ k <= Len(card[c]) /\ card[c][k] = Block(c, k)

ClientKept(c) ==
    LET s == client[c] IN
    Writing(c) => Stored(c, IF s.st = "done" THEN s.k ELSE s.k - 1)

ConnectionKept(i) ==
    LET c == conn[i].client IN
    conn[i] # None =>
        /\ Reading(c) => conn[i].pos <= client[c].k + 1
        /\ Writing(c) => conn[i].pos <= client[c].k /\ Stored(c, conn[i].pos)

DatagramKept(m) ==
    m.to \in Clients /\ Writing(m.to) /\ m.op = "ACK" => Stored(m.to, m.block)

Kept ==
    /\ \A c \in Clients : ClientKept(c)
    /\ \A i \in Slots : ConnectionKept(i)
    /\ \A m \in net : DatagramKept(m)

-----------------------------------------------------------------------------
(***************************************************************************)
(* Blocks and datagrams.                                                   *)
(***************************************************************************)
\* Two or three updates of a connection are one.
LEMMA TwoFields ==
    ASSUME NEW f, NEW i \in DOMAIN f, NEW r
    PROVE  [f EXCEPT ![i].pos = @ + 1, ![i].retries = r]
           = [f EXCEPT ![i] = [f[i] EXCEPT !.pos = f[i].pos + 1, !.retries = r]]
OBVIOUS

LEMMA ThreeFields ==
    ASSUME NEW f, NEW i \in DOMAIN f, NEW r, NEW b
    PROVE  [f EXCEPT ![i].pos = @ + 1, ![i].retries = r, ![i].buf = b]
           = [f EXCEPT ![i] = [f[i] EXCEPT !.pos = f[i].pos + 1, !.retries = r, !.buf = b]]
OBVIOUS

LEMMA JobFacts ==
    ASSUME TypeOK, NEW c \in Clients
    PROVE  /\ job[c].op \in {"RRQ", "WRQ"} /\ job[c].full \in 0 .. MaxFull
           /\ job[c].tail \in 0 .. BlockSize - 1 /\ job[c].old \in Nat
BY DEF TypeOK, Jobs

\* The blocks of a file do not change.
LEMMA BlockStays ==
    ASSUME job' = job
    PROVE  \A c, k : Block(c, k)' = Block(c, k)
BY DEF Block, Piece, Left, Length

\* What is in front of a multiple ends at or in front of it.
LEMMA Multiples ==
    ASSUME NEW a \in Nat, NEW b \in Nat, NEW n \in Nat, a < b
    PROVE  a * n \in Nat /\ b * n \in Nat /\ (a + 1) * n = a * n + n /\ a * n + n <= b * n
<1>1. PICK d \in Nat : b = a + 1 + d
  <2>1. b - (a + 1) \in Nat
    OBVIOUS
  <2> QED BY <2>1
<1>2. a * n \in Nat /\ d * n \in Nat
  OBVIOUS
<1>3. b * n = a * n + n + d * n
  BY <1>1
<1>4. (a + 1) * n = a * n + n
  OBVIOUS
<1> QED BY <1>2, <1>3, <1>4

\* Block k begins at byte (k - 1) * BlockSize; only the blocks up to the length
\* of the file are full.
LEMMA BlockFacts ==
    ASSUME TypeOK, NEW c \in Clients, NEW k \in 1 .. MaxFull + 3
    PROVE  /\ Block(c, k) \in Blocks
           /\ Block(c, k).len = BlockSize <=> k <= job[c].full
           /\ k > job[c].full + 1 => Block(c, k).len = 0
           /\ Block(c, k).len = Left(c, Block(c, k).at)
           /\ Block(c, k).of = c /\ Block(c, k).at \in Nat
           /\ Behind(Block(c, k)) = Block(c, k + 1).at
<1>1. PICK full \in Nat, tail \in 0 .. BlockSize - 1 :
          job[c].full = full /\ job[c].tail = tail /\ full <= MaxFull
  BY JobFacts
<1>2. PICK f \in Nat : f = full * BlockSize
  OBVIOUS
<1>3. Length(c) = f + tail
  BY <1>1, <1>2 DEF Length
<1>4. CASE k <= full
  <2>1. PICK a \in Nat : a = (k - 1) * BlockSize
    <3>1. k - 1 \in Nat
      OBVIOUS
    <3> QED BY <3>1
  <2>2. a + BlockSize <= f /\ k * BlockSize = a + BlockSize
    <3>1. k - 1 \in Nat /\ k - 1 < full /\ (k - 1) + 1 = k
      BY <1>4
    <3> QED BY <1>2, <2>1, <3>1, Multiples
  <2>3. Left(c, a) = BlockSize
    BY <1>3, <2>2 DEF Left
  <2>4. Block(c, k) = [of |-> c, at |-> a, len |-> BlockSize]
    BY <1>1, <1>4, <2>1, <2>3 DEF Block, Piece
  <2>5. Block(c, k + 1).at = k * BlockSize
    BY <1>1, <1>4 DEF Block, Piece
  <2> QED BY <1>1, <1>4, <2>2, <2>3, <2>4, <2>5 DEF Blocks, Behind
<1>5. CASE k = full + 1
  <2>1. Left(c, f) = tail /\ (k - 1) * BlockSize = f
    BY <1>2, <1>3, <1>5 DEF Left
  <2>2. Block(c, k) = [of |-> c, at |-> f, len |-> tail]
    BY <1>1, <1>5, <2>1 DEF Block, Piece
  <2>3. Block(c, k + 1).at = f + tail
    BY <1>1, <1>3, <1>5 DEF Block, Piece
  <2> QED BY <1>1, <1>5, <2>1, <2>2, <2>3 DEF Blocks, Behind
<1>6. CASE k > full + 1
  <2>1. Left(c, f + tail) = 0
    BY <1>3 DEF Left
  <2>2. Block(c, k) = [of |-> c, at |-> f + tail, len |-> 0]
    BY <1>1, <1>3, <1>6, <2>1 DEF Block, Piece
  <2>3. Block(c, k + 1).at = f + tail
    BY <1>1, <1>3, <1>6 DEF Block, Piece
  <2> QED BY <1>1, <1>6, <2>1, <2>2, <2>3 DEF Blocks, Behind
<1> QED BY <1>1, <1>4, <1>5, <1>6

\* The file is read from its first block on.
LEMMA FirstBlock ==
    ASSUME TypeOK, NEW c \in Clients
    PROVE  Block(c, 1).at = 0
<1>1. job[c].full \in Nat
  BY JobFacts
<1> QED BY <1>1 DEF Block, Piece

\* What a read yields: a piece of the file, and the next block unless it fails.
LEMMA ReadFacts ==
    ASSUME TypeOK, NEW c \in Clients, NEW i \in Slots, NEW at \in Nat,
           NEW data \in Reads(c, at), ReadFor(i, c, data)
    PROVE  /\ data \in Blocks
           /\ misread \subseteq misread' /\ misread' \subseteq Slots \X Clients
           /\ faults' \in 0 .. MaxFaults
           /\ \A k \in 1 .. MaxFull + 3 :
                  <<i, c>> \notin misread' /\ at = Block(c, k).at => data = Block(c, k)
<1>1. PICK n \in 0 .. Left(c, at) : data = [of |-> c, at |-> at, len |-> n]
  BY DEF Reads, Piece
<1>2. Left(c, at) \in Int /\ Left(c, at) <= BlockSize
  <2>1. PICK full \in Nat, tail \in Nat : job[c].full = full /\ job[c].tail = tail
    BY JobFacts
  <2>2. Length(c) \in Nat
    BY <2>1 DEF Length
  <2> QED BY <2>2 DEF Left
<1>3. data \in Blocks
  BY <1>1, <1>2 DEF Blocks
<1>4. /\ misread \subseteq misread' /\ misread' \subseteq Slots \X Clients
      /\ faults' \in 0 .. MaxFaults
  BY DEF ReadFor, Fault, TypeOK
<1>5. ASSUME NEW k \in 1 .. MaxFull + 3, <<i, c>> \notin misread', at = Block(c, k).at
      PROVE  data = Block(c, k)
  <2>1. data.len = Left(c, data.at)
    BY <1>5 DEF ReadFor
  <2>2. n = Left(c, at)
    BY <1>1, <2>1
  <2>3. Block(c, k) = [of |-> c, at |-> at, len |-> Left(c, at)]
    BY <1>5 DEF Block, Piece
  <2> QED BY <1>1, <2>2, <2>3
<1> QED BY <1>3, <1>4, <1>5

\* No number of a block wraps in a datagram.
LEMMA BlockNumber == \A k \in 0 .. MaxFull + 3 : k % BlockMod = k
OBVIOUS

LEMMA MsgFacts ==
    ASSUME NEW to \in Clients \cup Slots \cup {Service}, NEW from \in Clients \cup Slots,
           NEW op \in {"RRQ", "WRQ", "DATA", "ACK", "ERROR"},
           NEW block \in 0 .. MaxFull + 3, NEW data \in Blocks
    PROVE  LET m == Msg(to, from, op, block, data) IN
           /\ m \in Datagrams
           /\ m.to = to /\ m.from = from /\ m.op = op /\ m.block = block /\ m.data = data
<1>1. block % BlockMod = block /\ block \in 0 .. BlockMod - 1
  BY BlockNumber
<1> QED BY <1>1 DEF Msg, Datagrams

LEMMA NoDataType == NoData \in Blocks /\ NoData.len = 0
BY DEF NoData, Blocks

LEMMA RequestFacts ==
    ASSUME NEW c \in Clients, job[c].op \in {"RRQ", "WRQ"}
    PROVE  /\ Request(c) \in Datagrams /\ Request(c).to = Service
           /\ Request(c).from = c /\ Request(c).op = job[c].op
<1>1. PICK op : op = job[c].op
  OBVIOUS
<1>2. Request(c) = Msg(Service, c, op, 0, NoData) /\ op \in {"RRQ", "WRQ"}
  BY <1>1 DEF Request
<1> QED BY <1>1, <1>2, MsgFacts, NoDataType

\* Clients, connections and the service have addresses of their own.
LEMMA Addresses ==
    /\ \A c \in Clients : c \notin Slots /\ c # Service /\ c # NoSlot
    /\ \A i \in Slots : i # Service /\ i # NoSlot
BY DEF Slots, Service, NoSlot

-----------------------------------------------------------------------------
(***************************************************************************)
(* What every step preserves of the datagrams, the connections and the     *)
(* clients it has nothing to do with.                                      *)
(***************************************************************************)
LEMMA NetInv ==
    ASSUME IInv, \A m \in net' : m \in net \/ (m \in Datagrams /\ DatagramOK(m)'),
           job' = job, misread \subseteq misread',
           \A c \in Clients : client'[c].k \in Nat /\ client'[c].k >= client[c].k
    PROVE  net' \subseteq Datagrams /\ \A m \in net' : DatagramOK(m)'
<1>1. \A m \in net : m \in Datagrams /\ DatagramOK(m)
  BY DEF IInv, TypeOK
<1>2. ASSUME NEW m \in net PROVE DatagramOK(m)'
  <2>1. m.block \in Nat
    BY <1>1 DEF Datagrams
  <2>2. \A c \in Clients : client[c].k \in Nat
    BY DEF IInv, TypeOK, ClientStates
  <2>3. CASE m.to \in Clients
    BY <1>1, <2>3, BlockStays DEF DatagramOK, FromServer, Reading, Whole
  <2>4. CASE m.to \notin Clients
    BY <1>1, <2>1, <2>2, <2>4, BlockStays DEF DatagramOK, FromClient
  <2> QED BY <2>3, <2>4
<1> QED BY <1>1, <1>2

LEMMA ConnectionsInv ==
    ASSUME IInv, conn' \in [Slots -> Connections \cup {None}],
           NEW i \in Slots, \A j \in Slots : j # i => conn'[j] = conn[j],
           ConnectionOK(i)', job' = job, misread \subseteq misread',
           \A c \in Clients : Len(card'[c]) \in Nat /\ Len(card'[c]) >= Len(card[c])
    PROVE  \A j \in Slots : ConnectionOK(j)'
<1> SUFFICES ASSUME NEW j \in Slots, j # i PROVE ConnectionOK(j)'
  OBVIOUS
<1>1. conn'[j] = conn[j] /\ ConnectionOK(j)
  BY DEF IInv
<1>2. CASE conn[j] # None
  <2>1. conn[j].client \in Clients /\ conn[j].pos \in Nat
    BY <1>2 DEF IInv, TypeOK, Connections
  <2>2. Len(card[conn[j].client]) \in Nat
    BY <2>1 DEF IInv, TypeOK
  <2> QED BY <1>1, <1>2, <2>1, <2>2, BlockStays DEF ConnectionOK, Reading, Writing, Whole
<1> QED BY <1>1, <1>2 DEF ConnectionOK

LEMMA ClientsInv ==
    ASSUME IInv, NEW c \in Clients, client'[c] = client[c], job' = job,
           misread \subseteq misread'
    PROVE  ClientOK(c)'
<1>1. ClientOK(c)
  BY DEF IInv
<1> QED BY <1>1, BlockStays DEF ClientOK, HoldsBlocks, Reading, Writing, Whole

LEMMA InitInv == Init => IInv
<1> SUFFICES ASSUME Init PROVE IInv
  OBVIOUS
<1>1. client \in [Clients -> ClientStates]
  BY DEF Init, ClientStates
<1>2. conn \in [Slots -> Connections \cup {None}]
  BY DEF Init
<1>3. card \in [Clients -> Seq(Blocks)]
  <2>1. OldBlock \in Blocks
    BY DEF OldBlock, Blocks
  <2>2. \A c \in Clients : job[c].old \in Nat
    BY DEF Init, Jobs
  <2>3. \A c \in Clients : [n \in 1 .. job[c].old |-> OldBlock] \in Seq(Blocks)
    BY <2>1, <2>2
  <2> QED BY <2>3 DEF Init
<1>4. \A c \in Clients : /\ Request(c) \in Datagrams /\ Request(c).to = Service
                         /\ Request(c).from = c /\ Request(c).op = job[c].op
  <2> TAKE c \in Clients
  <2>1. job[c].op \in {"RRQ", "WRQ"}
    BY DEF Init, Jobs
  <2> QED BY <2>1, RequestFacts
<1>5. TypeOK
  BY <1>1, <1>2, <1>3, <1>4 DEF Init, TypeOK
<1>6. \A c \in Clients : ClientOK(c)
  <2> TAKE c \in Clients
  <2>1. job[c].full \in Nat
    BY <1>5, JobFacts
  <2>2. client[c] = [st |-> "busy", tid |-> NoSlot, k |-> 0,
                     retries |-> ClientRetries, got |-> << >>]
    BY DEF Init
  <2> QED BY <2>1, <2>2 DEF ClientOK, HoldsBlocks, LastNumber
<1>7. \A i \in Slots : ConnectionOK(i)
  BY DEF Init, ConnectionOK
<1>8. \A m \in net : DatagramOK(m)
  BY <1>4, Addresses DEF Init, DatagramOK, FromClient
<1> QED BY <1>5, <1>6, <1>7, <1>8 DEF IInv

-----------------------------------------------------------------------------
(***************************************************************************)
(* The server.                                                             *)
(***************************************************************************)

\* A step of the server: it takes a datagram or none, answers, and changes one
\* connection and perhaps its file.
LEMMA ServerInv ==
    ASSUME IInv, NEW i \in Slots,
           \A m \in net' : m \in net \/ (m \in Datagrams /\ DatagramOK(m)'),
           conn' \in [Slots -> Connections \cup {None}],
           \A j \in Slots : j # i => conn'[j] = conn[j], ConnectionOK(i)',
           card' \in [Clients -> Seq(Blocks)],
           \A c \in Clients : Len(card'[c]) >= Len(card[c]),
           misread \subseteq misread', misread' \subseteq Slots \X Clients,
           UNCHANGED <<job, client>>, faults' \in 0 .. MaxFaults
    PROVE  IInv'
<1>1. \A c \in Clients : client'[c].k \in Nat /\ client'[c].k >= client[c].k
  BY DEF IInv, TypeOK, ClientStates
<1>2. \A c \in Clients : Len(card'[c]) \in Nat
  OBVIOUS
<1>3. net' \subseteq Datagrams /\ \A m \in net' : DatagramOK(m)'
  BY <1>1, NetInv
<1>4. \A j \in Slots : ConnectionOK(j)'
  BY <1>2, ConnectionsInv
<1>5. \A c \in Clients : ClientOK(c)'
  BY ClientsInv
<1>6. TypeOK'
  BY <1>3 DEF IInv, TypeOK
<1> QED BY <1>3, <1>4, <1>5, <1>6 DEF IInv

LEMMA FaultType == ASSUME IInv, Fault \/ UNCHANGED faults PROVE faults' \in 0 .. MaxFaults
BY DEF IInv, TypeOK, Fault

LEMMA MisreadType ==
    ASSUME IInv, UNCHANGED misread
    PROVE  misread \subseteq misread' /\ misread' \subseteq Slots \X Clients
BY DEF IInv, TypeOK

\* An answer without a block can be any, a block that goes out carries its number
\* unless a read has failed.
LEMMA AnswerOK ==
    ASSUME NEW c \in Clients, NEW i \in Slots, NEW op \in {"ACK", "ERROR"},
           NEW block \in 0 .. MaxFull + 3, NEW m, m = Msg(c, i, op, block, NoData)
    PROVE  m \in Datagrams /\ DatagramOK(m)'
<1>1. m \in Datagrams /\ m.to = c /\ m.from = i /\ m.op = op
  BY MsgFacts, NoDataType
<1> QED BY <1>1 DEF DatagramOK, FromServer

LEMMA DataOK ==
    ASSUME TypeOK, job' = job, NEW c \in Clients, NEW i \in Slots,
           NEW k \in 1 .. MaxFull + 3, NEW data \in Blocks,
           Reading(c) => k <= LastNumber /\ (<<i, c>> \notin misread' => data = Block(c, k)),
           NEW m, m = Msg(c, i, "DATA", k, data)
    PROVE  m \in Datagrams /\ DatagramOK(m)'
<1>1. m \in Datagrams /\ m.to = c /\ m.from = i /\ m.op = "DATA" /\ m.block = k
      /\ m.data = data
  BY MsgFacts
<1>2. Reading(c)' = Reading(c) /\ LastNumber \in Int
  BY DEF Reading, LastNumber
<1> QED BY <1>1, <1>2, BlockStays DEF DatagramOK, FromServer, Whole

LEMMA HandleRequestInv ==
    ASSUME IInv, HandleRequest
    PROVE  IInv'
<1>1. PICK m \in net : /\ m.to = Service
                       /\ \/ \E i \in Slots : AcceptRead(m, i) \/ AcceptWrite(m, i) \/ RefuseFile(m, i)
                          \/ RefuseBusy(m)
  BY DEF HandleRequest
<1>2. UNCHANGED <<job, client, card>> /\ TypeOK
  BY DEF HandleRequest, IInv
<1>3. m.from \in Clients /\ m.op = job[m.from].op
  BY <1>1, Addresses DEF IInv, DatagramOK, FromClient
<1>4. \A c \in Clients : Len(card'[c]) >= Len(card[c])
  BY <1>2 DEF IInv, TypeOK
<1> DEFINE c == m.from
<1>5. job[c].op \in {"RRQ", "WRQ"} /\ job[c].full \in 0 .. MaxFull
  BY <1>2, <1>3, JobFacts
<1>6. ASSUME NEW i \in Slots, AcceptRead(m, i) PROVE IInv'
  <2>1. PICK data \in Reads(c, 0) :
            /\ ReadFor(i, c, data) /\ Opened(m, i, 1, data)
            /\ net' = (net \ {m}) \cup {Msg(c, i, "DATA", 1, data)}
    BY <1>6 DEF AcceptRead
  <2>2. /\ data \in Blocks
        /\ misread \subseteq misread' /\ misread' \subseteq Slots \X Clients
        /\ faults' \in 0 .. MaxFaults
        /\ <<i, c>> \notin misread' => data = Block(c, 1)
    <3>1. 1 \in 1 .. MaxFull + 3 /\ Block(c, 1).at = 0
      BY <1>2, <1>3, FirstBlock
    <3> QED BY <1>2, <1>3, <2>1, <3>1, ReadFacts
  <2>3. PICK r : r = [client |-> c, op |-> m.op, retries |-> Retries, pos |-> 1, buf |-> data]
    OBVIOUS
  <2>4. r \in Connections /\ r.client = c /\ r.op = job[c].op /\ r.pos = 1 /\ r.buf = data
    BY <1>3, <1>5, <2>2, <2>3 DEF Connections
  <2>5. conn' \in [Slots -> Connections \cup {None}] /\ conn'[i] = r
        /\ \A j \in Slots : j # i => conn'[j] = conn[j]
    <3>1. conn' = [conn EXCEPT ![i] = r]
      BY <2>1, <2>3 DEF Opened
    <3> QED BY <2>4, <3>1 DEF IInv, TypeOK
  <2>6. m.op = "RRQ"
    BY <1>6 DEF AcceptRead
  <2>7. ConnectionOK(i)'
    <3>1. /\ job'[c].op = "RRQ" /\ 1 <= job'[c].full + 1 /\ 1 \in 1 .. LastNumber
      BY <1>2, <1>3, <1>5, <2>6 DEF LastNumber
    <3> QED BY <1>2, <2>2, <2>4, <2>5, <3>1, BlockStays DEF ConnectionOK, Reading, Writing, Whole
  <2>8. PICK a : a = Msg(c, i, "DATA", 1, data)
    OBVIOUS
  <2>9. a \in Datagrams /\ DatagramOK(a)'
    <3>1. 1 \in 1 .. MaxFull + 3 /\ 1 <= LastNumber
      BY DEF LastNumber
    <3> QED BY <1>2, <1>3, <2>2, <2>8, <3>1, DataOK
  <2>10. card' \in [Clients -> Seq(Blocks)]
    BY <1>2 DEF TypeOK
  <2>11. \A n \in net' : n \in net \/ (n \in Datagrams /\ DatagramOK(n)')
    BY <2>1, <2>8, <2>9
  <2> QED BY <1>2, <1>4, <2>2, <2>5, <2>7, <2>10, <2>11, ServerInv
<1>10. ASSUME NEW i \in Slots, AcceptWrite(m, i) PROVE IInv'
  <2>1. /\ m.op = "WRQ" /\ Opened(m, i, 0, NoData) /\ UNCHANGED <<misread, faults>>
        /\ net' = (net \ {m}) \cup {Msg(c, i, "ACK", 0, NoData)}
    BY <1>10 DEF AcceptWrite
  <2>2. PICK r : r = [client |-> c, op |-> m.op, retries |-> Retries, pos |-> 0, buf |-> NoData]
    OBVIOUS
  <2>3. r \in Connections /\ r.client = c /\ r.op = job[c].op /\ r.pos = 0
    BY <1>3, <1>5, <2>2, NoDataType DEF Connections
  <2>4. conn' \in [Slots -> Connections \cup {None}] /\ conn'[i] = r
        /\ \A j \in Slots : j # i => conn'[j] = conn[j]
    <3>1. conn' = [conn EXCEPT ![i] = r]
      BY <2>1, <2>2 DEF Opened
    <3> QED BY <2>3, <3>1 DEF IInv, TypeOK
  <2>5. ConnectionOK(i)'
    <3>1. Len(card[c]) \in Nat
      BY <1>3 DEF IInv, TypeOK
    <3>2. job'[c].op = "WRQ"
      BY <1>2, <1>3, <2>1
    <3> QED BY <1>2, <2>3, <2>4, <3>1, <3>2 DEF ConnectionOK, Reading, Writing
  <2>6. PICK a : a = Msg(c, i, "ACK", 0, NoData)
    OBVIOUS
  <2>7. a \in Datagrams /\ DatagramOK(a)'
    BY <1>3, <2>6, AnswerOK
  <2>8. card' \in [Clients -> Seq(Blocks)] /\ faults' \in 0 .. MaxFaults
    BY <1>2, <2>1, FaultType DEF TypeOK
  <2>9. \A n \in net' : n \in net \/ (n \in Datagrams /\ DatagramOK(n)')
    BY <2>1, <2>6, <2>7
  <2> QED BY <1>2, <1>4, <2>1, <2>4, <2>5, <2>8, <2>9, MisreadType, ServerInv
<1>7. ASSUME NEW i \in Slots, UNCHANGED <<conn, misread>>, Fault \/ UNCHANGED faults,
             \A n \in net' : n \in net \/ (n \in Datagrams /\ DatagramOK(n)')
      PROVE  IInv'
  <2>1. ConnectionOK(i)'
    BY <1>2, <1>7, BlockStays DEF IInv, ConnectionOK, Reading, Writing, Whole
  <2>2. card' \in [Clients -> Seq(Blocks)] /\ conn' \in [Slots -> Connections \cup {None}]
    BY <1>2, <1>7 DEF TypeOK
  <2>3. faults' \in 0 .. MaxFaults
    BY <1>7, FaultType
  <2> QED BY <1>2, <1>4, <1>7, <2>1, <2>2, <2>3, MisreadType, ServerInv
<1>8. ASSUME NEW i \in Slots, RefuseFile(m, i) PROVE IInv'
  <2>1. PICK a : a = Msg(c, i, "ERROR", 0, NoData)
    OBVIOUS
  <2>2. net' = (net \ {m}) \cup {a} /\ UNCHANGED <<conn, misread>> /\ Fault
    BY <1>8, <2>1 DEF RefuseFile
  <2>3. a \in Datagrams /\ DatagramOK(a)'
    BY <1>3, <2>1, AnswerOK
  <2> QED BY <1>7, <2>2, <2>3
<1>9. CASE RefuseBusy(m)
  <2>1. 0 \in Slots
    BY DEF Slots
  <2>2. net' \subseteq net /\ UNCHANGED <<conn, misread, faults>>
    BY <1>9 DEF RefuseBusy
  <2> QED BY <1>7, <2>1, <2>2
<1> QED BY <1>1, <1>6, <1>8, <1>9, <1>10

\* Where connection i stands.
LEMMA ConnectionFacts ==
    ASSUME IInv, NEW i \in Slots, conn[i] # None
    PROVE  LET c == conn[i].client IN
           /\ conn[i] \in Connections /\ c \in Clients /\ conn[i].op = job[c].op
           /\ job[c].op \in {"RRQ", "WRQ"} /\ job[c].full \in 0 .. MaxFull
           /\ conn[i].pos \in 0 .. MaxFull + 2 /\ LastBlock(i) = conn[i].pos
           /\ Reading(c) => /\ conn[i].pos \in 1 .. LastNumber
                            /\ Whole(i, c) => /\ conn[i].pos <= job[c].full + 1
                                              /\ conn[i].buf = Block(c, conn[i].pos)
           /\ Writing(c) => conn[i].pos <= MaxFull /\ conn[i].pos <= Len(card[c])
           /\ card[c] \in Seq(Blocks) /\ conn[i].buf \in Blocks
<1> DEFINE c == conn[i].client
<1>1. conn[i] \in Connections
  BY DEF IInv, TypeOK
<1>2. c \in Clients /\ conn[i].pos \in 0 .. MaxFull + 3 /\ conn[i].buf \in Blocks
  BY <1>1 DEF Connections
<1>3. job[c].op \in {"RRQ", "WRQ"} /\ job[c].full \in 0 .. MaxFull
  BY <1>2, JobFacts DEF IInv
<1>4. /\ conn[i].op = job[c].op
      /\ Reading(c) => /\ conn[i].pos \in 1 .. LastNumber
                       /\ Whole(i, c) => /\ conn[i].pos <= job[c].full + 1
                                         /\ conn[i].buf = Block(c, conn[i].pos)
      /\ Writing(c) => conn[i].pos <= MaxFull /\ conn[i].pos <= Len(card[c])
  BY DEF IInv, ConnectionOK
<1>5. conn[i].pos \in 0 .. MaxFull + 2
  BY <1>2, <1>3, <1>4 DEF Reading, Writing, LastNumber
<1>6. LastBlock(i) = conn[i].pos
  BY <1>5 DEF LastBlock
<1>7. card[c] \in Seq(Blocks)
  BY <1>2 DEF IInv, TypeOK
<1> QED BY <1>1, <1>2, <1>3, <1>4, <1>5, <1>6, <1>7

\* A write puts the block at its place, and nothing else.
LEMMA WrittenFacts ==
    ASSUME NEW file \in Seq(Blocks), NEW p \in Nat, p <= Len(file), NEW data \in Blocks
    PROVE  /\ Written(file, p, data) \in Seq(Blocks) /\ Len(Written(file, p, data)) \in Nat
           /\ Len(Written(file, p, data)) >= Len(file)
           /\ data.len # 0 => p + 1 <= Len(Written(file, p, data))
           /\ data.len = 0 => Written(file, p, data) = file
<1>1. Len(file) \in Nat
  OBVIOUS
<1>2. CASE data.len = 0
  BY <1>1, <1>2 DEF Written
<1>3. CASE data.len # 0 /\ p < Len(file)
  <2>1. Written(file, p, data) = [file EXCEPT ![p + 1] = data]
    BY <1>3 DEF Written
  <2>2. p + 1 \in 1 .. Len(file)
    BY <1>1, <1>3
  <2> QED BY <1>1, <1>3, <2>1, <2>2
<1>4. CASE data.len # 0 /\ p = Len(file)
  <2>1. Written(file, p, data) = Append(file, data)
    BY <1>4 DEF Written
  <2> QED BY <1>1, <1>4, <2>1
<1> QED BY <1>1, <1>2, <1>3, <1>4

\* A connection that goes on for its client, or is closed.
LEMMA ConnectionMoves ==
    ASSUME IInv, NEW i \in Slots, conn[i] # None, NEW r \in Connections,
           conn' = [conn EXCEPT ![i] = r] \/ Close(i)
    PROVE  /\ conn' \in [Slots -> Connections \cup {None}]
           /\ \A j \in Slots : j # i => conn'[j] = conn[j]
           /\ conn'[i] = None \/ conn'[i] = r
<1>1. conn \in [Slots -> Connections \cup {None}]
  BY DEF IInv, TypeOK
<1> QED BY <1>1 DEF Close

LEMMA CloseFacts ==
    ASSUME IInv, NEW i \in Slots, Close(i)
    PROVE  /\ conn' \in [Slots -> Connections \cup {None}]
           /\ \A j \in Slots : j # i => conn'[j] = conn[j]
           /\ conn'[i] = None /\ ConnectionOK(i)'
<1>1. conn \in [Slots -> Connections \cup {None}]
  BY DEF IInv, TypeOK
<1> QED BY <1>1 DEF Close, ConnectionOK

\* A datagram that is dropped, or passed over.
LEMMA DropInv ==
    ASSUME IInv, net' \subseteq net, UNCHANGED <<job, client, conn, card, misread, faults>>
    PROVE  IInv'
<1>1. 0 \in Slots
  BY DEF Slots
<1>2. conn \in [Slots -> Connections \cup {None}] /\ card \in [Clients -> Seq(Blocks)]
      /\ \A c \in Clients : Len(card[c]) \in Nat
  BY DEF IInv, TypeOK
<1>3. \A c \in Clients : Len(card'[c]) >= Len(card[c])
  BY <1>2
<1>4. ConnectionOK(0)'
  BY <1>1, BlockStays DEF IInv, ConnectionOK, Reading, Writing, Whole
<1>5. faults' \in 0 .. MaxFaults
  BY FaultType
<1> QED BY <1>1, <1>2, <1>3, <1>4, <1>5, MisreadType, ServerInv

LEMMA HandleDataInv ==
    ASSUME IInv, NEW i \in Slots, conn[i] # None, NEW m \in net, m.to = i, HandleData(i, m),
           UNCHANGED <<job, client>>
    PROVE  IInv'
<1> DEFINE c == conn[i].client
           p == conn[i].pos
<1>1. /\ conn[i] \in Connections /\ c \in Clients /\ conn[i].op = job[c].op
      /\ job[c].op \in {"RRQ", "WRQ"} /\ job[c].full \in 0 .. MaxFull
      /\ p \in 0 .. MaxFull + 2 /\ LastBlock(i) = p
      /\ Writing(c) => p <= MaxFull /\ p <= Len(card[c])
      /\ card[c] \in Seq(Blocks)
  BY ConnectionFacts
<1>2. /\ m.from \in Clients /\ m.block \in Nat /\ m.data \in Blocks
      /\ m.block >= 1 /\ m.data = Block(m.from, m.block)
  <2>1. m \in Datagrams /\ DatagramOK(m) /\ m.op = "DATA"
    BY DEF IInv, TypeOK, HandleData
  <2>2. FromClient(m)
    BY <2>1, Addresses DEF DatagramOK
  <2> QED BY <2>1, <2>2, Addresses DEF FromClient, Datagrams
<1>3. card \in [Clients -> Seq(Blocks)] /\ \A d \in Clients : Len(card[d]) \in Nat
      /\ conn \in [Slots -> Connections \cup {None}]
  BY DEF IInv, TypeOK
<1> UNCHANGED misread
  BY DEF HandleData
<1>4. CASE ~NextBlock(i, m)
  <2>1. net' \subseteq net /\ UNCHANGED <<conn, card, faults>>
    BY <1>4 DEF HandleData
  <2> QED BY <2>1, DropInv
<1>5. CASE /\ NextBlock(i, m) /\ conn[i].op = "WRQ"
           /\ card' = [card EXCEPT ![c] = Written(card[c], p, m.data)]
           /\ net' = (net \ {m}) \cup {Msg(c, i, "ACK", m.block, NoData)}
           /\ IF m.data.len = BlockSize
              THEN conn' = [conn EXCEPT ![i].pos = @ + 1, ![i].retries = Retries]
              ELSE Close(i)
           /\ UNCHANGED faults
  <2> DEFINE f == Written(card[c], p, m.data)
  <2>1. m.block = p + 1 /\ Writing(c) /\ p <= Len(card[c]) /\ p <= MaxFull
    BY <1>1, <1>5 DEF NextBlock, Writing
  <2>2. /\ f \in Seq(Blocks) /\ Len(f) \in Nat /\ Len(f) >= Len(card[c])
        /\ m.data.len # 0 => p + 1 <= Len(f)
    <3>1. p \in Nat /\ p <= Len(card[c])
      BY <1>1, <2>1
    <3> QED BY <1>1, <1>2, <3>1, WrittenFacts
  <2> HIDE DEF f
  <2>3. card' = [card EXCEPT ![c] = f]
    BY <1>5 DEF f
  <2>4. card' \in [Clients -> Seq(Blocks)] /\ card'[c] = f
        /\ \A d \in Clients : Len(card'[d]) >= Len(card[d])
    BY <1>1, <1>3, <2>2, <2>3
  <2>5. m.data.len = BlockSize => p + 1 <= MaxFull
    <3>1. job[m.from].full \in 0 .. MaxFull
      BY <1>2, JobFacts DEF IInv
    <3>2. m.block \in 1 .. MaxFull + 3
      BY <1>1, <2>1
    <3>3. Block(m.from, m.block).len = BlockSize <=> m.block <= job[m.from].full
      BY <1>2, <3>2, BlockFacts DEF IInv
    <3> QED BY <1>1, <1>2, <2>1, <3>1, <3>3
  <2>6. PICK r : r = [conn[i] EXCEPT !.pos = p + 1, !.retries = Retries]
    OBVIOUS
  <2>7. (conn' = [conn EXCEPT ![i] = r] \/ Close(i)) /\ (m.data.len = BlockSize \/ Close(i))
    <3>1. CASE m.data.len # BlockSize
      BY <1>5, <3>1
    <3>2. CASE m.data.len = BlockSize
      <4>1. conn' = [conn EXCEPT ![i].pos = @ + 1, ![i].retries = Retries]
        BY <1>5, <3>2
      <4>2. i \in DOMAIN conn
        BY DEF IInv, TypeOK
      <4> QED BY ONLY <2>6, <3>2, <4>1, <4>2, TwoFields
    <3> QED BY <3>1, <3>2
  <2>8. r \in Connections /\ r.client = c /\ r.op = conn[i].op /\ r.pos = p + 1
    <3>1. p + 1 \in 0 .. MaxFull + 3 /\ Retries \in 1 .. Retries
      BY <1>1
    <3> QED BY <1>1, <2>6, <3>1 DEF Connections
  <2>14. /\ conn' \in [Slots -> Connections \cup {None}]
         /\ \A j \in Slots : j # i => conn'[j] = conn[j]
         /\ conn'[i] = None \/ conn'[i] = r
    BY <2>7, <2>8, ConnectionMoves
  <2>15. conn'[i] = None \/ m.data.len = BlockSize
    BY <2>7, CloseFacts
  <2>9. ConnectionOK(i)'
    <3>1. p + 1 <= Len(f) \/ conn'[i] = None
      BY <2>2, <2>15
    <3> QED BY <1>1, <2>1, <2>4, <2>5, <2>8, <2>14, <2>15, <3>1
            DEF ConnectionOK, Reading, Writing
  <2>10. PICK a : a = Msg(c, i, "ACK", m.block, NoData)
    OBVIOUS
  <2>11. a \in Datagrams /\ DatagramOK(a)'
    BY <1>1, <2>1, <2>10, AnswerOK
  <2>12. \A n \in net' : n \in net \/ (n \in Datagrams /\ DatagramOK(n)')
    BY <1>5, <2>10, <2>11
  <2>13. faults' \in 0 .. MaxFaults
    BY <1>5, FaultType
  <2> QED BY <2>4, <2>9, <2>12, <2>13, <2>14, MisreadType, ServerInv
<1>6. CASE /\ Fault \/ UNCHANGED faults
           /\ net' = (net \ {m}) \cup {Msg(c, i, "ERROR", 0, NoData)}
           /\ Close(i)
           /\ UNCHANGED card
  <2>1. /\ conn' \in [Slots -> Connections \cup {None}] /\ ConnectionOK(i)'
        /\ \A j \in Slots : j # i => conn'[j] = conn[j]
    BY <1>6, CloseFacts
  <2>2. card' \in [Clients -> Seq(Blocks)]
        /\ \A d \in Clients : Len(card'[d]) >= Len(card[d])
    BY <1>3, <1>6
  <2>3. PICK a : a = Msg(c, i, "ERROR", 0, NoData)
    OBVIOUS
  <2>4. a \in Datagrams /\ DatagramOK(a)'
    BY <1>1, <2>3, AnswerOK
  <2>5. \A n \in net' : n \in net \/ (n \in Datagrams /\ DatagramOK(n)')
    BY <1>6, <2>3, <2>4
  <2>6. faults' \in 0 .. MaxFaults
    BY <1>6, FaultType
  <2> QED BY <2>1, <2>2, <2>5, <2>6, MisreadType, ServerInv
<1> QED BY <1>4, <1>5, <1>6 DEF HandleData

\* An answer to an acknowledgement: what has been read, or nothing.
LEMMA AnswerAckInv ==
    ASSUME IInv, NEW i \in Slots, conn[i] # None, NEW m \in net, NEW d \in Blocks,
           AnswerAck(i, m, d), UNCHANGED <<job, client, card>>,
           Reading(conn[i].client) =>
               /\ conn[i].pos < LastNumber
               /\ <<i, conn[i].client>> \notin misread'
                     => d = Block(conn[i].client, conn[i].pos + 1),
           Writing(conn[i].client) => d.len = 0,
           misread \subseteq misread', misread' \subseteq Slots \X Clients,
           faults' \in 0 .. MaxFaults
    PROVE  IInv'
<1> DEFINE c == conn[i].client
           p == conn[i].pos
<1>1. /\ conn[i] \in Connections /\ c \in Clients /\ conn[i].op = job[c].op
      /\ job[c].op \in {"RRQ", "WRQ"} /\ job[c].full \in 0 .. MaxFull
      /\ p \in 0 .. MaxFull + 2 /\ LastNumber = MaxFull + 2
      /\ Reading(c) => p \in 1 .. LastNumber
  BY ConnectionFacts DEF LastNumber
<1>2. card \in [Clients -> Seq(Blocks)] /\ \A e \in Clients : Len(card[e]) \in Nat
  BY DEF IInv, TypeOK
<1>3. PICK a : a = Msg(c, i, "DATA", p + 1, d)
  OBVIOUS
<1>4. PICK r : r = [conn[i] EXCEPT !.pos = p + 1, !.retries = Retries, !.buf = d]
  OBVIOUS
<1>5. net' = (net \ {m}) \cup {a}
  BY <1>3 DEF AnswerAck, AnswerToAck
<1>6. (conn' = [conn EXCEPT ![i] = r] \/ Close(i)) /\ (d.len # 0 \/ Close(i))
  <2>1. CASE d.len = 0
    BY <2>1 DEF AnswerAck
  <2>2. CASE d.len # 0
    <3>1. conn' = [conn EXCEPT ![i].pos = @ + 1, ![i].retries = Retries, ![i].buf = d]
      BY <2>2 DEF AnswerAck
    <3>2. i \in DOMAIN conn
      BY DEF IInv, TypeOK
    <3> QED BY ONLY <1>4, <2>2, <3>1, <3>2, ThreeFields
  <2> QED BY <2>1, <2>2
<1>7. r \in Connections /\ r.client = c /\ r.op = conn[i].op /\ r.pos = p + 1 /\ r.buf = d
  <2>1. p + 1 \in 0 .. MaxFull + 3 /\ Retries \in 1 .. Retries
    BY <1>1
  <2> QED BY <1>1, <1>4, <2>1 DEF Connections
<1>8. /\ conn' \in [Slots -> Connections \cup {None}]
      /\ \A j \in Slots : j # i => conn'[j] = conn[j]
      /\ conn'[i] = None \/ conn'[i] = r
  BY <1>6, <1>7, ConnectionMoves
<1>9. conn'[i] = None \/ d.len # 0
  BY <1>6, CloseFacts
<1>10. a \in Datagrams /\ DatagramOK(a)'
  <2>1. p + 1 \in 1 .. MaxFull + 3 /\ (Reading(c) => p + 1 <= LastNumber)
    BY <1>1
  <2> QED BY <1>1, <1>3, <2>1, DataOK DEF IInv
<1>11. ConnectionOK(i)'
  <2>1. CASE conn'[i] = None
    BY <2>1 DEF ConnectionOK
  <2>2. CASE conn'[i] # None
    <3>1. Reading(c) /\ ~Writing(c) /\ p + 1 \in 1 .. LastNumber
      BY <1>1, <1>9, <2>2 DEF Reading, Writing
    <3>2. <<i, c>> \notin misread' => p + 1 <= job[c].full + 1
      BY <1>1, <1>9, <2>2, <3>1, BlockFacts DEF IInv
    <3> QED BY <1>1, <1>7, <1>8, <2>2, <3>1, <3>2, BlockStays
            DEF ConnectionOK, Reading, Writing, Whole
  <2> QED BY <2>1, <2>2
<1>12. \A n \in net' : n \in net \/ (n \in Datagrams /\ DatagramOK(n)')
  BY <1>5, <1>10
<1>13. card' \in [Clients -> Seq(Blocks)]
       /\ \A e \in Clients : Len(card'[e]) >= Len(card[e])
  BY <1>2
<1> QED BY <1>8, <1>11, <1>12, <1>13, ServerInv

LEMMA HandleAckInv ==
    ASSUME IInv, NEW i \in Slots, conn[i] # None, NEW m \in net, m.to = i, HandleAck(i, m),
           UNCHANGED <<job, client>>
    PROVE  IInv'
<1> DEFINE c == conn[i].client
           p == conn[i].pos
<1>1. /\ c \in Clients /\ conn[i].op = job[c].op /\ p \in 0 .. MaxFull + 2
      /\ Reading(c) => p \in 1 .. LastNumber /\ (Whole(i, c) => conn[i].buf = Block(c, p))
      /\ conn[i].buf \in Blocks
  BY ConnectionFacts
<1>2. UNCHANGED card /\ TypeOK
  BY DEF HandleAck, IInv
<1>3. CASE net' \subseteq net /\ UNCHANGED <<conn, misread, faults>>
  BY <1>2, <1>3, DropInv
<1>4. ASSUME conn[i].op = "RRQ", p < LastNumber, NEW d \in Reads(c, Behind(conn[i].buf)),
             ReadFor(i, c, d), AnswerAck(i, m, d)
      PROVE  IInv'
  <2>1. PICK at : at = Behind(conn[i].buf)
    OBVIOUS
  <2>2. at \in Nat
    BY <1>1, <2>1 DEF Behind, Blocks, NoData, OldBlock
  <2>3. Reading(c) /\ ~Writing(c) /\ p \in 1 .. MaxFull + 3 /\ p + 1 \in 1 .. MaxFull + 3
    BY <1>1, <1>4 DEF Reading, Writing, LastNumber
  <2>4. /\ d \in Blocks
        /\ misread \subseteq misread' /\ misread' \subseteq Slots \X Clients
        /\ faults' \in 0 .. MaxFaults
        /\ <<i, c>> \notin misread' /\ at = Block(c, p + 1).at => d = Block(c, p + 1)
    BY <1>1, <1>2, <1>4, <2>1, <2>2, <2>3, ReadFacts
  <2>5. <<i, c>> \notin misread' => at = Block(c, p + 1).at
    BY <1>1, <1>2, <2>1, <2>3, <2>4, BlockFacts DEF Whole
  <2> QED BY <1>2, <1>4, <2>3, <2>4, <2>5, AnswerAckInv
<1>5. CASE conn[i].op = "WRQ" /\ AnswerAck(i, m, NoData) /\ UNCHANGED <<misread, faults>>
  <2>1. ~Reading(c)
    BY <1>1, <1>5 DEF Reading
  <2> QED BY <1>2, <1>5, <2>1, NoDataType, FaultType, MisreadType, AnswerAckInv
<1> QED BY <1>3, <1>4, <1>5 DEF HandleAck

LEMMA HandleErrorInv ==
    ASSUME IInv, NEW i \in Slots, NEW m \in net, HandleError(i, m), UNCHANGED <<job, client>>
    PROVE  IInv'
<1>1. Close(i) /\ net' \subseteq net /\ UNCHANGED <<card, misread, faults>>
  BY DEF HandleError
<1>2. card' \in [Clients -> Seq(Blocks)] /\ \A c \in Clients : Len(card'[c]) >= Len(card[c])
  <2>1. card \in [Clients -> Seq(Blocks)] /\ \A c \in Clients : Len(card[c]) \in Nat
    BY DEF IInv, TypeOK
  <2> QED BY <1>1, <2>1
<1>3. faults' \in 0 .. MaxFaults
  BY <1>1, FaultType
<1> QED BY <1>1, <1>2, <1>3, CloseFacts, MisreadType, ServerInv

LEMMA HandleTimeoutInv ==
    ASSUME IInv, NEW i \in Slots, HandleTimeout(i)
    PROVE  IInv'
<1> DEFINE c == conn[i].client
           p == conn[i].pos
<1>1. /\ conn[i] # None /\ conn[i] \in Connections /\ c \in Clients /\ conn[i].op = job[c].op
      /\ job[c].op \in {"RRQ", "WRQ"} /\ job[c].full \in 0 .. MaxFull
      /\ p \in 0 .. MaxFull + 2 /\ conn[i].buf \in Blocks
      /\ Reading(c) => p \in 1 .. LastNumber /\ (Whole(i, c) => conn[i].buf = Block(c, p))
  BY ConnectionFacts DEF HandleTimeout
<1>2. card' \in [Clients -> Seq(Blocks)] /\ \A d \in Clients : Len(card'[d]) >= Len(card[d])
  <2>1. card \in [Clients -> Seq(Blocks)] /\ \A d \in Clients : Len(card[d]) \in Nat
    BY DEF IInv, TypeOK
  <2> QED BY <2>1 DEF HandleTimeout
<1>3. UNCHANGED <<job, client, misread>> /\ faults' \in 0 .. MaxFaults
  BY FaultType DEF HandleTimeout
<1>4. CASE GivesUp(i)
  <2>1. Close(i) /\ net' \subseteq net
    BY <1>4 DEF HandleTimeout
  <2> QED BY <1>2, <1>3, <2>1, CloseFacts, MisreadType, ServerInv
<1>5. CASE ~GivesUp(i)
  <2>1. PICK a : a = LastMessage(i)
    OBVIOUS
  <2>2. net' = net \cup {a} /\ conn' = [conn EXCEPT ![i].retries = RetriesLeft(i)]
    BY <1>5, <2>1 DEF HandleTimeout
  <2>3. RetriesLeft(i) \in 1 .. Retries
    <3>1. conn[i].retries \in 1 .. Retries
      BY <1>1 DEF Connections
    <3> QED BY <1>5, <3>1 DEF GivesUp, RetriesLeft
  <2>4. conn' = [conn EXCEPT ![i] = [conn[i] EXCEPT !.retries = RetriesLeft(i)]]
    BY <2>2
  <2>5. [conn[i] EXCEPT !.retries = RetriesLeft(i)] \in Connections
    BY <1>1, <2>3 DEF Connections
  <2>6. /\ conn' \in [Slots -> Connections \cup {None}]
        /\ \A j \in Slots : j # i => conn'[j] = conn[j]
        /\ conn'[i] = [conn[i] EXCEPT !.retries = RetriesLeft(i)]
    BY <2>4, <2>5 DEF IInv, TypeOK
  <2>7. conn'[i].client = c /\ conn'[i].op = conn[i].op /\ conn'[i].pos = p
        /\ conn'[i].buf = conn[i].buf
    BY <1>1, <2>6 DEF Connections
  <2>8. UNCHANGED card /\ ConnectionOK(i)
    BY DEF HandleTimeout, IInv
  <2>9. ConnectionOK(i)'
    BY <1>1, <1>3, <2>7, <2>8, BlockStays DEF ConnectionOK, Reading, Writing, Whole
  <2>10. a \in Datagrams /\ DatagramOK(a)'
    <3>1. CASE conn[i].op = "RRQ"
      <4>1. PICK b \in Blocks : b = conn[i].buf
        BY <1>1
      <4>2. a = Msg(c, i, "DATA", p, b) /\ p \in 1 .. MaxFull + 3 /\ p <= LastNumber
            /\ (<<i, c>> \notin misread' => b = Block(c, p))
        BY <1>1, <1>3, <2>1, <3>1, <4>1 DEF LastMessage, Reading, LastNumber, Whole
      <4> QED BY <1>1, <1>3, <4>2, DataOK DEF IInv
    <3>2. CASE conn[i].op # "RRQ"
      <4>1. a = Msg(c, i, "ACK", p, NoData)
        BY <2>1, <3>2 DEF LastMessage
      <4> QED BY <1>1, <4>1, AnswerOK
    <3> QED BY <3>1, <3>2
  <2>11. \A n \in net' : n \in net \/ (n \in Datagrams /\ DatagramOK(n)')
    BY <2>2, <2>10
  <2> QED BY <1>2, <1>3, <2>6, <2>9, <2>11, MisreadType, ServerInv
<1> QED BY <1>4, <1>5

LEMMA ServerStepInv ==
    ASSUME IInv, Server
    PROVE  IInv'
BY HandleRequestInv, HandleDataInv, HandleAckInv, HandleErrorInv, HandleTimeoutInv
   DEF Server, HandlePacket

-----------------------------------------------------------------------------
(***************************************************************************)
(* The clients.                                                            *)
(***************************************************************************)
LEMMA ClientFacts ==
    ASSUME IInv, NEW c \in Clients
    PROVE  LET s == client[c] IN
           /\ s \in ClientStates /\ s.k \in 0 .. MaxFull + 2
           /\ job[c].op \in {"RRQ", "WRQ"} /\ job[c].full \in 0 .. MaxFull
           /\ s.tid \in Slots \cup {NoSlot} /\ (s.tid = NoSlot <=> s.k = 0)
           /\ s.got \in Seq(Blocks)
           /\ Writing(c) => s.k <= job[c].full + 1
           /\ Reading(c) => /\ s.k <= LastNumber /\ Len(s.got) = s.k
                            /\ Whole(s.tid, c) => HoldsBlocks(c)
<1>1. client[c] \in ClientStates
  BY DEF IInv, TypeOK
<1>2. ClientOK(c)
  BY DEF IInv
<1>3. job[c].op \in {"RRQ", "WRQ"} /\ job[c].full \in 0 .. MaxFull
  BY JobFacts DEF IInv
<1>4. client[c].k \in Nat /\ client[c].tid \in Slots \cup {NoSlot} /\ client[c].got \in Seq(Blocks)
  BY <1>1 DEF ClientStates
<1>5. /\ client[c].tid = NoSlot <=> client[c].k = 0
      /\ Writing(c) => client[c].k <= job[c].full + 1
      /\ Reading(c) => /\ client[c].k <= LastNumber /\ Len(client[c].got) = client[c].k
                       /\ Whole(client[c].tid, c) => HoldsBlocks(c)
  BY <1>2 DEF ClientOK
<1>6. client[c].k \in 0 .. MaxFull + 2
  BY <1>3, <1>4, <1>5 DEF Reading, Writing, LastNumber
<1> QED BY <1>1, <1>3, <1>4, <1>5, <1>6

\* A step of client c.
LEMMA ClientStepInv ==
    ASSUME IInv, NEW c \in Clients, NEW s \in ClientStates,
           client' = [client EXCEPT ![c] = s], s.k >= client[c].k, ClientOK(c)',
           \A m \in net' : m \in net \/ (m \in Datagrams /\ DatagramOK(m)'),
           UNCHANGED <<job, conn, card, misread>>, faults' \in 0 .. MaxFaults
    PROVE  IInv'
<1>1. client \in [Clients -> ClientStates]
  BY DEF IInv, TypeOK
<1>2. client' \in [Clients -> ClientStates] /\ client'[c] = s
      /\ \A d \in Clients : d # c => client'[d] = client[d]
  BY <1>1
<1>3. \A d \in Clients : client[d].k \in Nat /\ client'[d].k \in Nat
  BY <1>1, <1>2 DEF ClientStates
<1>4. \A d \in Clients : client'[d].k \in Nat /\ client'[d].k >= client[d].k
  BY <1>2, <1>3
<1>5. net' \subseteq Datagrams /\ \A m \in net' : DatagramOK(m)'
  BY <1>4, MisreadType, NetInv
<1>6. \A d \in Clients : ClientOK(d)'
  <2> TAKE d \in Clients
  <2>1. CASE d # c
    BY <1>2, <2>1, MisreadType, ClientsInv
  <2> QED BY <2>1
<1>7. \A i \in Slots : ConnectionOK(i)'
  BY BlockStays DEF IInv, ConnectionOK, Reading, Writing, Whole
<1>8. TypeOK'
  BY <1>2, <1>5 DEF IInv, TypeOK
<1> QED BY <1>5, <1>6, <1>7, <1>8 DEF IInv

\* What a client says is what it has got to.
LEMMA SaidOK ==
    ASSUME NEW c \in Clients, NEW i \in Slots, NEW op \in {"ACK", "ERROR"},
           NEW k \in 0 .. MaxFull + 3, k <= client'[c].k,
           NEW m, m = Msg(i, c, op, k, NoData)
    PROVE  m \in Datagrams /\ DatagramOK(m)'
<1>1. m \in Datagrams /\ m.to = i /\ m.from = c /\ m.op = op /\ m.block = k
  BY MsgFacts, NoDataType
<1> QED BY <1>1, Addresses DEF DatagramOK, FromClient

LEMMA SentOK ==
    ASSUME TypeOK, job' = job, NEW c \in Clients, NEW i \in Slots,
           NEW k \in 1 .. MaxFull + 3, k <= client'[c].k,
           NEW data, data = Block(c, k), NEW m, m = Msg(i, c, "DATA", k, data)
    PROVE  m \in Datagrams /\ DatagramOK(m)'
<1>1. data \in Blocks
  BY BlockFacts
<1>2. m \in Datagrams /\ m.to = i /\ m.from = c /\ m.op = "DATA" /\ m.block = k
      /\ m.data = data
  BY <1>1, MsgFacts
<1>3. Block(c, k)' = Block(c, k)
  BY BlockStays
<1> QED BY <1>2, <1>3, Addresses DEF DatagramOK, FromClient

LEMMA LastSentOK ==
    ASSUME IInv, job' = job, NEW c \in Clients, client[c].k <= client'[c].k,
           NEW m, m = LastSent(c)
    PROVE  m \in Datagrams /\ DatagramOK(m)'
<1> DEFINE s == client[c]
<1>1. /\ s.k \in 0 .. MaxFull + 2
      /\ job[c].op \in {"RRQ", "WRQ"} /\ job[c].full \in 0 .. MaxFull
      /\ s.tid \in Slots \cup {NoSlot} /\ (s.tid = NoSlot <=> s.k = 0)
  BY ClientFacts
<1>2. CASE s.tid = NoSlot
  <2>1. m = Request(c)
    BY <1>2 DEF LastSent
  <2>2. m \in Datagrams /\ m.to = Service /\ m.from = c /\ m.op = job[c].op
    BY <1>1, <2>1, RequestFacts
  <2> QED BY <2>2, Addresses DEF DatagramOK, FromClient
<1>3. CASE s.tid # NoSlot /\ job[c].op = "RRQ"
  <2>1. m = Msg(s.tid, c, "ACK", s.k, NoData)
    BY <1>3 DEF LastSent
  <2> QED BY <1>1, <1>3, <2>1, SaidOK
<1>4. CASE s.tid # NoSlot /\ job[c].op = "WRQ"
  <2>1. PICK b : b = Block(c, s.k)
    OBVIOUS
  <2>2. m = Msg(s.tid, c, "DATA", s.k, b) /\ s.k \in 1 .. MaxFull + 3
    BY <1>1, <1>4, <2>1 DEF LastSent
  <2> QED BY <1>1, <1>4, <2>1, <2>2, SentOK DEF IInv
<1> QED BY <1>1, <1>2, <1>3, <1>4

LEMMA ClientAdvanceInv ==
    ASSUME IInv, NEW c \in Clients, client[c].st = "busy", NEW m \in net, m.to = c,
           client[c].tid \in {NoSlot, m.from}, Takes(c, m), ClientAdvance(c, m),
           UNCHANGED <<job, conn, card, misread, faults>>
    PROVE  IInv'
<1> DEFINE s == client[c]
           full == job[c].full
           last == IF job[c].op = "RRQ" THEN m.data.len < BlockSize ELSE s.k = full + 1
<1>1. /\ s \in ClientStates /\ s.k \in 0 .. MaxFull + 2 /\ (Writing(c) => s.k <= full + 1)
      /\ job[c].op \in {"RRQ", "WRQ"} /\ full \in 0 .. MaxFull
      /\ s.got \in Seq(Blocks)
  BY ClientFacts
<1>2. m \in Datagrams /\ FromServer(m)
  BY DEF IInv, TypeOK, DatagramOK
<1>3. m.from \in Slots /\ m.data \in Blocks
  BY <1>2 DEF FromServer, Datagrams
<1>4. client \in [Clients -> ClientStates] /\ faults' \in 0 .. MaxFaults
  BY FaultType DEF IInv, TypeOK
<1>5. Reading(c) => /\ s.k <= LastNumber /\ Len(s.got) = s.k
                    /\ Whole(s.tid, c) => HoldsBlocks(c)
  BY ClientFacts
<1>6. PICK st : st = IF last THEN "done" ELSE "busy"
  OBVIOUS
<1>7. PICK k : k = IF job[c].op = "WRQ" /\ last THEN s.k ELSE s.k + 1
  OBVIOUS
<1>8. PICK got : got = IF job[c].op = "RRQ" THEN Append(s.got, m.data) ELSE s.got
  OBVIOUS
<1>9. PICK n : n = [s EXCEPT !.tid = m.from, !.retries = ClientRetries, !.st = st,
                             !.k = k, !.got = got]
  OBVIOUS
<1>10. client' = [client EXCEPT ![c] = n]
  BY <1>6, <1>7, <1>8, <1>9 DEF ClientAdvance
<1>11. k >= s.k /\ st \in {"busy", "done", "failed"} /\ k \in 0 .. MaxFull + 2
  <2>1. CASE job[c].op = "RRQ"
    <3>1. m.op = "DATA" /\ m.block = (s.k + 1) % BlockMod
      BY <2>1 DEF Takes
    <3>2. m.block \in 1 .. LastNumber /\ s.k + 1 \in 0 .. MaxFull + 3
      BY <1>1, <1>2, <2>1, <3>1 DEF FromServer, Reading
    <3> QED BY <1>1, <1>6, <1>7, <2>1, <3>1, <3>2, BlockNumber DEF LastNumber
  <2>2. CASE job[c].op = "WRQ"
    BY <1>1, <1>6, <1>7, <2>2 DEF Writing
  <2> QED BY <1>1, <2>1, <2>2
<1>12. got \in Seq(Blocks)
  BY <1>1, <1>3, <1>8
<1>13. n \in ClientStates /\ n.tid = m.from /\ n.st = st /\ n.k = k /\ n.got = got
  <2>1. m.from \in Slots \cup {NoSlot} /\ ClientRetries \in 0 .. ClientRetries
    BY <1>3
  <2> QED BY <1>1, <1>9, <1>11, <1>12, <2>1 DEF ClientStates
<1>14. client'[c] = n /\ n.k >= client[c].k
  BY <1>4, <1>10, <1>11, <1>13
<1>15. CASE job[c].op = "RRQ"
  <2>1. Len(s.got) = s.k /\ Reading(c) /\ ~Writing(c)
    BY <1>5, <1>15 DEF Reading, Writing
  <2>2. s.k + 1 \in 1 .. MaxFull + 3 /\ s.k \in Nat
    BY <1>1
  <2>3. m.op = "DATA" /\ m.block = s.k + 1
    BY <1>15, <2>2, BlockNumber DEF Takes
  <2>4. s.k + 1 <= LastNumber /\ (Whole(m.from, c) => m.data = Block(c, s.k + 1))
    BY <1>2, <2>1, <2>3 DEF FromServer
  <2>5. k = s.k + 1 /\ got = Append(s.got, m.data)
    BY <1>7, <1>8, <1>15
  <2>6. Len(got) = k
    BY <1>1, <1>3, <2>1, <2>5
  <2>7. ASSUME Whole(m.from, c)
        PROVE  /\ \A j \in 1 .. k : got[j] = Block(c, j)
               /\ st = "done" => k = full + 1
               /\ st # "done" => k <= full
    <3>1. Whole(s.tid, c)
      <4>1. Whole(NoSlot, c)
        BY Addresses DEF IInv, TypeOK, Whole
      <4> QED BY <2>7, <4>1
    <3>2. s.k <= full /\ \A j \in 1 .. s.k : s.got[j] = Block(c, j)
      BY <1>5, <2>1, <3>1 DEF HoldsBlocks
    <3>3. m.data = Block(c, s.k + 1)
      BY <2>4, <2>7
    <3>4. m.data.len < BlockSize <=> ~(s.k + 1 <= full)
      <4>1. m.data.len \in 0 .. BlockSize
        BY <1>3 DEF Blocks, NoData, OldBlock
      <4>2. m.data.len = BlockSize <=> s.k + 1 <= full
        BY <2>2, <3>3, BlockFacts DEF IInv
      <4> QED BY <4>1, <4>2
    <3>5. (st = "done" => k = full + 1) /\ (st # "done" => k <= full)
      <4>1. st = "done" <=> m.data.len < BlockSize
        BY <1>6, <1>15
      <4>2. PICK x \in Nat, y \in Nat : x = s.k /\ y = full
        BY <1>1, <2>2
      <4>3. x <= y /\ (st = "done" <=> ~(x + 1 <= y))
        BY <3>2, <3>4, <4>1, <4>2
      <4> QED BY <2>5, <4>2, <4>3
    <3>6. ASSUME NEW j \in 1 .. k PROVE got[j] = Block(c, j)
      <4>1. CASE j = s.k + 1
        BY <1>1, <1>3, <2>1, <2>5, <3>3, <4>1
      <4>2. CASE j \in 1 .. s.k
        BY <1>1, <1>3, <2>1, <2>5, <3>2, <4>2
      <4>3. \A x \in Nat : \A y \in 1 .. x + 1 : y = x + 1 \/ y \in 1 .. x
        OBVIOUS
      <4> QED BY <2>2, <2>5, <4>1, <4>2, <4>3
    <3> QED BY <3>5, <3>6
  <2>10. ClientOK(c)'
    <3>1. n.tid # NoSlot /\ n.k # 0 /\ k <= LastNumber
      BY <1>3, <1>13, <2>2, <2>4, <2>5, Addresses
    <3>2. Reading(c)' /\ ~Writing(c)' /\ job'[c].full = full /\ LastNumber' = LastNumber
      BY <2>1 DEF Reading, Writing, LastNumber
    <3>3. Whole(m.from, c)' => HoldsBlocks(c)'
      <4>1. SUFFICES ASSUME Whole(m.from, c) PROVE HoldsBlocks(c)'
        BY DEF Whole
      <4>2. \A j \in 1 .. k : got[j] = Block(c, j)'
        BY <2>7, <4>1, BlockStays
      <4> QED BY <1>13, <1>14, <2>7, <3>2, <4>1, <4>2 DEF HoldsBlocks
    <3> QED BY <1>13, <1>14, <2>6, <3>1, <3>2, <3>3 DEF ClientOK
  <2>11. PICK a : a = Msg(m.from, c, "ACK", s.k + 1, NoData)
    OBVIOUS
  <2>12. net' = (net \ {m}) \cup {a}
    BY <1>15, <2>11 DEF ClientAdvance
  <2>13. a \in Datagrams /\ DatagramOK(a)'
    <3>1. s.k + 1 <= client'[c].k
      BY <1>13, <1>14, <2>2, <2>5
    <3> QED BY <1>3, <2>2, <2>11, <3>1, SaidOK
  <2>14. \A b \in net' : b \in net \/ (b \in Datagrams /\ DatagramOK(b)')
    BY <2>12, <2>13
  <2> QED BY <1>4, <1>10, <1>13, <1>14, <2>10, <2>14, ClientStepInv
<1>16. CASE job[c].op = "WRQ"
  <2>1. \/ st = "done" /\ k = s.k /\ s.k = full + 1
        \/ st = "busy" /\ k = s.k + 1 /\ s.k # full + 1
    BY <1>6, <1>7, <1>16
  <2>2. k >= 1 /\ k <= full + 1
    BY <1>1, <1>16, <2>1 DEF Writing
  <2>3. ClientOK(c)'
    <3>1. n.tid # NoSlot /\ n.k # 0
      BY <1>3, <1>11, <1>13, <2>2, Addresses
    <3>2. Writing(c)' /\ ~Reading(c)' /\ job'[c].full = full
      BY <1>16 DEF Reading, Writing
    <3>3. st = "done" => k = full + 1
      BY <2>1
    <3> QED BY <1>13, <1>14, <2>2, <3>1, <3>2, <3>3 DEF ClientOK
  <2>4. \A b \in net' : b \in net \/ (b \in Datagrams /\ DatagramOK(b)')
    <3>1. CASE last
      BY <1>16, <3>1 DEF ClientAdvance
    <3>2. CASE ~last
      <4>1. PICK d : d = Block(c, s.k + 1)
        OBVIOUS
      <4>2. PICK a : a = Msg(m.from, c, "DATA", s.k + 1, d)
        OBVIOUS
      <4>3. net' = (net \ {m}) \cup {a}
        BY <1>16, <3>2, <4>1, <4>2 DEF ClientAdvance
      <4>4. s.k + 1 \in 1 .. MaxFull + 3 /\ s.k + 1 <= client'[c].k
        <5>1. k = s.k + 1
          BY <1>7, <3>2
        <5> QED BY <1>1, <1>11, <1>13, <1>14, <5>1
      <4>5. a \in Datagrams /\ DatagramOK(a)'
        BY <1>3, <4>1, <4>2, <4>4, SentOK DEF IInv
      <4> QED BY <4>3, <4>5
    <3> QED BY <3>1, <3>2
  <2> QED BY <1>4, <1>10, <1>13, <1>14, <2>3, <2>4, ClientStepInv
<1> QED BY <1>1, <1>15, <1>16

\* Messages that leave the client where it is.
LEMMA ClientAnswersInv ==
    ASSUME IInv, UNCHANGED <<job, client, conn, card, misread>>, faults' \in 0 .. MaxFaults,
           \A m \in net' : m \in net \/ (m \in Datagrams /\ DatagramOK(m)')
    PROVE  IInv'
<1>1. 0 \in Slots
  BY DEF Slots
<1>2. conn \in [Slots -> Connections \cup {None}] /\ card \in [Clients -> Seq(Blocks)]
      /\ \A c \in Clients : Len(card[c]) \in Nat
  BY DEF IInv, TypeOK
<1>3. \A c \in Clients : Len(card'[c]) >= Len(card[c])
  BY <1>2
<1>4. ConnectionOK(0)'
  BY <1>1, BlockStays DEF IInv, ConnectionOK, Reading, Writing, Whole
<1> QED BY <1>1, <1>2, <1>3, <1>4, MisreadType, ServerInv

\* A client that gives up, or counts a repetition.
LEMMA ClientStaysInv ==
    ASSUME IInv, NEW c \in Clients, client[c].st = "busy",
           NEW st \in {"busy", "failed"}, NEW retries \in 0 .. ClientRetries,
           client' = [client EXCEPT ![c] = [client[c] EXCEPT !.st = st, !.retries = retries]],
           \A m \in net' : \/ m \in net
                           \/ m = LastSent(c),
           UNCHANGED <<job, conn, card, misread>>, faults' \in 0 .. MaxFaults
    PROVE  IInv'
<1> DEFINE s == client[c]
<1>1. client \in [Clients -> ClientStates] /\ faults' \in 0 .. MaxFaults
  BY DEF IInv, TypeOK
<1>2. s \in ClientStates /\ s.k \in Nat
  BY ClientFacts DEF ClientStates
<1>3. PICK n : n = [s EXCEPT !.st = st, !.retries = retries]
  OBVIOUS
<1>4. n \in ClientStates /\ n.st = st /\ n.k = s.k /\ n.tid = s.tid /\ n.got = s.got
  BY <1>2, <1>3 DEF ClientStates
<1>5. client' = [client EXCEPT ![c] = n] /\ client'[c] = n /\ n.k >= client[c].k
  BY <1>1, <1>2, <1>3, <1>4
<1>6. ClientOK(c)'
  <2>1. ClientOK(c)
    BY DEF IInv
  <2> QED BY <1>4, <1>5, <2>1, BlockStays DEF ClientOK, HoldsBlocks, Reading, Writing, Whole
<1>7. \A m \in net' : m \in net \/ (m \in Datagrams /\ DatagramOK(m)')
  <2>1. client[c].k <= client'[c].k
    BY <1>2, <1>4, <1>5
  <2> QED BY <2>1, LastSentOK
<1> QED BY <1>1, <1>4, <1>5, <1>6, <1>7, ClientStepInv

LEMMA ClientReceiveInv ==
    ASSUME IInv, NEW c \in Clients, ClientReceive(c)
    PROVE  IInv'
<1>1. PICK m \in net :
          /\ m.to = c
          /\ IF client[c].tid \notin {NoSlot, m.from}
             THEN /\ net' = (net \ {m}) \cup
                            (IF m.op = "ERROR" THEN {} ELSE {Msg(m.from, c, "ERROR", 0, NoData)})
                  /\ UNCHANGED client
             ELSE IF m.op = "ERROR"
             THEN client' = [client EXCEPT ![c].st = "failed"] /\ net' = net \ {m}
             ELSE IF Takes(c, m)
             THEN ClientAdvance(c, m)
             ELSE /\ net' = (net \ {m}) \cup (IF Repeats(c, m) THEN {LastSent(c)} ELSE {})
                  /\ UNCHANGED client
  BY DEF ClientReceive
<1>2. client[c].st = "busy" /\ UNCHANGED <<job, conn, card, misread, faults>>
      /\ faults' \in 0 .. MaxFaults
  BY FaultType DEF ClientReceive
<1>3. m.from \in Slots
  BY <1>1 DEF IInv, DatagramOK, FromServer
<1>4. client[c] \in ClientStates /\ client[c].k \in 0 .. MaxFull + 2
  BY ClientFacts
<1>5. CASE net' \subseteq net /\ UNCHANGED client
  BY <1>2, <1>5, DropInv
<1>6. CASE UNCHANGED client /\ net' = (net \ {m}) \cup {Msg(m.from, c, "ERROR", 0, NoData)}
  <2>1. PICK a : a = Msg(m.from, c, "ERROR", 0, NoData)
    OBVIOUS
  <2>2. a \in Datagrams /\ DatagramOK(a)'
    BY <1>3, <1>4, <1>6, <2>1, SaidOK
  <2>3. \A b \in net' : b \in net \/ (b \in Datagrams /\ DatagramOK(b)')
    BY <1>6, <2>1, <2>2
  <2> QED BY <1>2, <1>6, <2>3, ClientAnswersInv
<1>7. CASE client' = [client EXCEPT ![c].st = "failed"] /\ net' = net \ {m}
  <2>1. client[c].retries \in 0 .. ClientRetries
    BY <1>4 DEF ClientStates
  <2>2. client' = [client EXCEPT ![c] = [client[c] EXCEPT !.st = "failed"]]
    BY <1>7
  <2>3. [client[c] EXCEPT !.st = "failed"]
        = [client[c] EXCEPT !.st = "failed", !.retries = client[c].retries]
    BY <1>4 DEF ClientStates
  <2>4. \A b \in net' : b \in net
    BY <1>7
  <2> QED BY <1>2, <2>1, <2>2, <2>3, <2>4, ClientStaysInv
<1>8. CASE client[c].tid \in {NoSlot, m.from} /\ Takes(c, m) /\ ClientAdvance(c, m)
  BY <1>1, <1>2, <1>8, ClientAdvanceInv
<1>9. CASE UNCHANGED client /\ net' = (net \ {m}) \cup {LastSent(c)}
  <2>1. PICK a : a = LastSent(c)
    OBVIOUS
  <2>2. a \in Datagrams /\ DatagramOK(a)'
    BY <1>2, <1>4, <1>9, <2>1, LastSentOK
  <2>3. \A b \in net' : b \in net \/ (b \in Datagrams /\ DatagramOK(b)')
    BY <1>9, <2>1, <2>2
  <2> QED BY <1>2, <1>9, <2>3, ClientAnswersInv
<1> QED BY <1>1, <1>5, <1>6, <1>7, <1>8, <1>9

LEMMA ClientTimeoutInv ==
    ASSUME IInv, NEW c \in Clients, ClientTimeout(c)
    PROVE  IInv'
<1>1. client[c].st = "busy" /\ UNCHANGED <<job, conn, card, misread>> /\ faults' \in 0 .. MaxFaults
  BY FaultType DEF ClientTimeout
<1>2. client[c] \in ClientStates /\ client[c].retries \in 0 .. ClientRetries
  BY ClientFacts DEF ClientStates
<1>3. CASE client[c].retries > 0
  <2>1. client' = [client EXCEPT ![c] = [client[c] EXCEPT !.retries = client[c].retries - 1]]
        /\ net' = net \cup {LastSent(c)}
    BY <1>3 DEF ClientTimeout
  <2>2. [client[c] EXCEPT !.retries = client[c].retries - 1]
        = [client[c] EXCEPT !.st = "busy", !.retries = client[c].retries - 1]
    BY <1>1, <1>2 DEF ClientStates
  <2>3. client[c].retries - 1 \in 0 .. ClientRetries
    BY <1>2, <1>3
  <2> QED BY <1>1, <2>1, <2>2, <2>3, ClientStaysInv
<1>4. CASE ~(client[c].retries > 0)
  <2>1. client' = [client EXCEPT ![c] = [client[c] EXCEPT !.st = "failed"]] /\ net' = net
    BY <1>4 DEF ClientTimeout
  <2>2. [client[c] EXCEPT !.st = "failed"]
        = [client[c] EXCEPT !.st = "failed", !.retries = client[c].retries]
    BY <1>2 DEF ClientStates
  <2> QED BY <1>1, <1>2, <2>1, <2>2, ClientStaysInv
<1> QED BY <1>3, <1>4

-----------------------------------------------------------------------------
(***************************************************************************)
(* The radio, and the invariant.                                           *)
(***************************************************************************)
LEMMA DuplicateInv ==
    ASSUME IInv, Duplicate
    PROVE  IInv'
<1>1. PICK m \in net : net' = net \cup {[m EXCEPT !.copy = TRUE]}
  BY DEF Duplicate
<1>2. UNCHANGED <<job, client, conn, card, misread>> /\ faults' \in 0 .. MaxFaults
  BY FaultType DEF Duplicate
<1>3. m \in Datagrams /\ DatagramOK(m)
  BY DEF IInv, TypeOK
<1>4. PICK a : a = [m EXCEPT !.copy = TRUE]
  OBVIOUS
<1>5. a \in Datagrams /\ a.to = m.to /\ a.from = m.from /\ a.op = m.op
      /\ a.block = m.block /\ a.data = m.data
  BY <1>3, <1>4 DEF Datagrams
<1>6. DatagramOK(a)'
  BY <1>2, <1>3, <1>5, BlockStays DEF DatagramOK, FromClient, FromServer, Reading, Whole
<1>7. \A b \in net' : b \in net \/ (b \in Datagrams /\ DatagramOK(b)')
  BY <1>1, <1>4, <1>5, <1>6
<1> QED BY <1>2, <1>7, ClientAnswersInv

LEMMA LoseInv ==
    ASSUME IInv, Lose \/ Unheard
    PROVE  IInv'
<1>1. net' \subseteq net /\ UNCHANGED <<job, client, conn, card, misread>>
  BY DEF Lose, Unheard
<1>2. faults' \in 0 .. MaxFaults
  BY FaultType DEF Lose, Unheard
<1>3. \A m \in net' : m \in net
  BY <1>1
<1> QED BY <1>1, <1>2, <1>3, ClientAnswersInv

LEMMA NextInv ==
    ASSUME IInv, [Next]_vars
    PROVE  IInv'
<1>1. CASE UNCHANGED vars
  BY <1>1, DropInv DEF vars
<1>2. CASE Finished
  BY <1>1, <1>2 DEF Finished
<1> QED BY <1>1, <1>2, ServerStepInv, ClientReceiveInv, ClientTimeoutInv, DuplicateInv, LoseInv
       DEF Next, Outside

\* The inductive invariant holds in every reachable state of the server and its
\* clients.
THEOREM Invariance == Spec => []IInv
<1>1. Init => IInv
  BY InitInv
<1>2. IInv /\ [Next]_vars => IInv'
  BY NextInv
<1> QED BY <1>1, <1>2, PTL DEF Spec

\* The server, its clients and the datagrams between them keep their types.
THEOREM TypeCorrect == Spec => []TypeOK
<1>1. IInv => TypeOK
  BY DEF IInv
<1> QED BY <1>1, Invariance, PTL

\* Every reader gets the blocks of its file in order, none twice and none
\* missing, and the whole file if it believes to be done: whatever is lost,
\* repeated or late, however many read at once, and whatever fails for others.
\* Only a read that has failed for it at the port it is bound to is excepted.
THEOREM ReadersGetWhatIsStored == Spec => []ReadsWhatIsStored
<1>1. ASSUME IInv, NEW c \in Clients, Reading(c), Whole(client[c].tid, c)
      PROVE  /\ \A k \in 1 .. Len(client[c].got) : client[c].got[k] = Block(c, k)
             /\ client[c].st = "done" => Len(client[c].got) = job[c].full + 1
  <2>1. Len(client[c].got) = client[c].k /\ HoldsBlocks(c)
    BY <1>1, ClientFacts
  <2> QED BY <2>1 DEF HoldsBlocks
<1>2. IInv => ReadsWhatIsStored
  BY <1>1 DEF ReadsWhatIsStored, Reading, Whole
<1> QED BY <1>2, Invariance, PTL

-----------------------------------------------------------------------------
(***************************************************************************)
(* What is kept as long as there are no strays.                            *)
(***************************************************************************)

\* A step changes no block of a file but into the block that belongs there.
CardsGrow ==
    \A c \in Clients :
        /\ Len(card'[c]) >= Len(card[c])
        /\ \A j \in 1 .. Len(card[c]) : card'[c][j] \in {card[c][j], Block(c, j)}

LEMMA CardsStay == ASSUME IInv, UNCHANGED card PROVE CardsGrow
<1>1. \A c \in Clients : Len(card[c]) \in Nat
  BY DEF IInv, TypeOK
<1> QED BY <1>1 DEF CardsGrow

LEMMA StoredStays ==
    ASSUME IInv, CardsGrow, card' \in [Clients -> Seq(Blocks)], job' = job,
           NEW c \in Clients, NEW n \in Int, Stored(c, n)
    PROVE  Stored(c, n)'
<1>1. Len(card[c]) \in Nat /\ Len(card'[c]) \in Nat /\ Len(card'[c]) >= Len(card[c])
      /\ \A j \in 1 .. Len(card[c]) : card'[c][j] \in {card[c][j], Block(c, j)}
  <2>1. card[c] \in Seq(Blocks) /\ card'[c] \in Seq(Blocks)
    BY DEF IInv, TypeOK
  <2> QED BY <2>1 DEF CardsGrow
<1>2. ASSUME NEW k \in 1 .. n
      PROVE  \/ Block(c, k).len = 0
             \/ k <= Len(card'[c]) /\ card'[c][k] = Block(c, k)
  BY <1>1, <1>2 DEF Stored
<1>3. \A k \in 1 .. n : Block(c, k)' = Block(c, k)
  BY BlockStays
<1> QED BY <1>2, <1>3 DEF Stored

LEMMA KeptNet ==
    ASSUME IInv, Kept, CardsGrow, card' \in [Clients -> Seq(Blocks)], job' = job,
           \A m \in net' : m \in net \/ DatagramKept(m)'
    PROVE  \A m \in net' : DatagramKept(m)'
<1> SUFFICES ASSUME NEW m \in net, m.to \in Clients, Writing(m.to), m.op = "ACK"
             PROVE  Stored(m.to, m.block)'
  BY DEF DatagramKept, Writing
<1>1. Stored(m.to, m.block) /\ m.block \in Int
  BY DEF Kept, DatagramKept, IInv, TypeOK, Datagrams
<1> QED BY <1>1, StoredStays

LEMMA KeptConnections ==
    ASSUME IInv, Kept, CardsGrow, card' \in [Clients -> Seq(Blocks)], job' = job,
           \A c \in Clients : client'[c].k \in Nat /\ client'[c].k >= client[c].k,
           NEW i \in Slots, conn'[i] = conn[i]
    PROVE  ConnectionKept(i)'
<1> SUFFICES ASSUME conn[i] # None PROVE ConnectionKept(i)'
  BY DEF ConnectionKept
<1> DEFINE c == conn[i].client
<1>1. c \in Clients /\ conn[i].pos \in Nat
  BY ConnectionFacts
<1>2. client[c].k \in Nat
  BY <1>1 DEF IInv, TypeOK, ClientStates
<1>3. Writing(c) => Stored(c, conn[i].pos)'
  BY <1>1, StoredStays DEF Kept, ConnectionKept
<1>4. PICK e \in Clients, q \in Nat : e = c /\ q = conn[i].pos
  BY <1>1
<1>5. e = conn'[i].client /\ q = conn'[i].pos
  BY <1>4
<1>6. /\ Reading(e) => q <= client[e].k + 1
      /\ Writing(e) => q <= client[e].k
  BY <1>4 DEF Kept, ConnectionKept
<1>7. /\ client[e].k \in Nat /\ client'[e].k \in Nat
      /\ client'[e].k >= client[e].k
  BY <1>2, <1>4
<1>8. /\ Reading(e)' => q <= client'[e].k + 1
      /\ Writing(e)' => q <= client'[e].k /\ Stored(e, q)'
  <2>1. Reading(e)' = Reading(e) /\ Writing(e)' = Writing(e)
    BY DEF Reading, Writing
  <2>2. Writing(e) => Stored(e, q)'
    BY <1>3, <1>4
  <2> QED BY <1>6, <1>7, <2>1, <2>2
<1> QED BY <1>5, <1>8 DEF ConnectionKept

LEMMA KeptClients ==
    ASSUME IInv, Kept, CardsGrow, card' \in [Clients -> Seq(Blocks)], job' = job,
           NEW c \in Clients, client'[c] = client[c]
    PROVE  ClientKept(c)'
<1>1. client[c].k \in Nat
  BY DEF IInv, TypeOK, ClientStates
<1>2. PICK n \in Int : n = (IF client[c].st = "done" THEN client[c].k ELSE client[c].k - 1)
  BY <1>1
<1>3. Writing(c) => Stored(c, n)
  BY <1>2 DEF Kept, ClientKept
<1>4. Writing(c) => Stored(c, n)'
  BY <1>3, StoredStays
<1> QED BY <1>2, <1>4 DEF ClientKept, Writing

\* A step of the server, or one that touches neither a client nor a connection.
LEMMA ServerKept ==
    ASSUME IInv, IInv', Kept, NEW i \in Slots, CardsGrow,
           \A m \in net' : m \in net \/ DatagramKept(m)',
           \A j \in Slots : j # i => conn'[j] = conn[j], ConnectionKept(i)',
           UNCHANGED <<job, client>>
    PROVE  Kept'
<1>1. card' \in [Clients -> Seq(Blocks)]
  BY DEF IInv, TypeOK
<1>2. \A c \in Clients : client'[c].k \in Nat /\ client'[c].k >= client[c].k
  BY DEF IInv, TypeOK, ClientStates
<1>3. \A c \in Clients : ClientKept(c)'
  BY <1>1, KeptClients
<1>4. \A j \in Slots : ConnectionKept(j)'
  BY <1>1, <1>2, KeptConnections
<1>5. \A m \in net' : DatagramKept(m)'
  BY <1>1, KeptNet
<1> QED BY <1>3, <1>4, <1>5 DEF Kept

LEMMA QuietKept ==
    ASSUME IInv, IInv', Kept, \A m \in net' : m \in net \/ DatagramKept(m)',
           UNCHANGED <<job, client, conn, card>>
    PROVE  Kept'
<1>1. 0 \in Slots
  BY DEF Slots
<1>2. CardsGrow
  BY CardsStay
<1>3. card' \in [Clients -> Seq(Blocks)]
      /\ \A c \in Clients : client'[c].k \in Nat /\ client'[c].k >= client[c].k
  BY DEF IInv, TypeOK, ClientStates
<1>4. ConnectionKept(0)'
  BY <1>1, <1>2, <1>3, KeptConnections
<1> QED BY <1>1, <1>2, <1>4, ServerKept

LEMMA HandleRequestKept ==
    ASSUME IInv, IInv', Kept, HandleRequest
    PROVE  Kept'
<1>1. PICK m \in net : /\ m.to = Service
                       /\ \/ \E i \in Slots : AcceptRead(m, i) \/ AcceptWrite(m, i) \/ RefuseFile(m, i)
                          \/ RefuseBusy(m)
  BY DEF HandleRequest
<1>2. UNCHANGED <<job, client, card>> /\ CardsGrow
  BY CardsStay DEF HandleRequest
<1>3. m.from \in Clients /\ m.op = job[m.from].op
  BY <1>1, Addresses DEF IInv, DatagramOK, FromClient
<1> DEFINE c == m.from
<1>4. client[c].k \in Nat
  BY <1>3 DEF IInv, TypeOK, ClientStates
<1>5. Stored(c, 0)'
  BY DEF Stored
<1>6. ASSUME NEW i \in Slots, NEW r, r.client = c, conn' = [conn EXCEPT ![i] = r],
             r.pos = (IF m.op = "RRQ" THEN 1 ELSE 0),
             NEW a, DatagramKept(a)', net' = (net \ {m}) \cup {a}
      PROVE  Kept'
  <2>1. conn'[i] = r /\ \A j \in Slots : j # i => conn'[j] = conn[j]
    BY <1>6 DEF IInv, TypeOK
  <2>2. ConnectionKept(i)'
    BY <1>2, <1>3, <1>4, <1>5, <1>6, <2>1 DEF ConnectionKept, Reading, Writing
  <2>3. \A n \in net' : n \in net \/ DatagramKept(n)'
    BY <1>6
  <2> QED BY <1>2, <2>1, <2>2, <2>3, ServerKept
<1>9. ASSUME NEW i \in Slots, AcceptRead(m, i) PROVE Kept'
  <2>1. PICK data : /\ m.op = "RRQ" /\ Opened(m, i, 1, data)
                    /\ net' = (net \ {m}) \cup {Msg(c, i, "DATA", 1, data)}
    BY <1>9 DEF AcceptRead
  <2>2. PICK a : a = Msg(c, i, "DATA", 1, data)
    OBVIOUS
  <2>3. DatagramKept(a)'
    BY <2>2 DEF Msg, DatagramKept
  <2>4. PICK r : r = [client |-> c, op |-> m.op, retries |-> Retries, pos |-> 1, buf |-> data]
    OBVIOUS
  <2>5. r.client = c /\ r.pos = 1 /\ conn' = [conn EXCEPT ![i] = r]
    BY <2>1, <2>4 DEF Opened
  <2> QED BY <1>6, <2>1, <2>2, <2>3, <2>5
<1>10. ASSUME NEW i \in Slots, AcceptWrite(m, i) PROVE Kept'
  <2>1. /\ m.op = "WRQ" /\ Opened(m, i, 0, NoData)
        /\ net' = (net \ {m}) \cup {Msg(c, i, "ACK", 0, NoData)}
    BY <1>10 DEF AcceptWrite
  <2>2. PICK a : a = Msg(c, i, "ACK", 0, NoData)
    OBVIOUS
  <2>3. a.to = c /\ a.block = 0
    BY <2>2, BlockNumber DEF Msg
  <2>4. DatagramKept(a)'
    BY <1>5, <2>3 DEF DatagramKept
  <2>5. PICK r : r = [client |-> c, op |-> m.op, retries |-> Retries, pos |-> 0, buf |-> NoData]
    OBVIOUS
  <2>6. r.client = c /\ r.pos = 0 /\ conn' = [conn EXCEPT ![i] = r]
    BY <2>1, <2>5 DEF Opened
  <2> QED BY <1>6, <2>1, <2>2, <2>4, <2>6
<1>7. ASSUME NEW i \in Slots, RefuseFile(m, i) PROVE Kept'
  <2>1. PICK a : a = Msg(c, i, "ERROR", 0, NoData)
    OBVIOUS
  <2>2. net' = (net \ {m}) \cup {a} /\ UNCHANGED conn
    BY <1>7, <2>1 DEF RefuseFile
  <2>3. DatagramKept(a)'
    BY <2>1 DEF Msg, DatagramKept
  <2>4. \A n \in net' : n \in net \/ DatagramKept(n)'
    BY <2>2, <2>3
  <2> QED BY <1>2, <2>2, <2>4, QuietKept
<1>8. CASE RefuseBusy(m)
  <2>1. net' \subseteq net /\ UNCHANGED conn
    BY <1>8 DEF RefuseBusy
  <2> QED BY <1>2, <2>1, QuietKept
<1> QED BY <1>1, <1>7, <1>8, <1>9, <1>10

LEMMA CloseKept ==
    ASSUME IInv, IInv', Kept, NEW i \in Slots, Close(i), CardsGrow, UNCHANGED <<job, client>>,
           \A m \in net' : m \in net \/ DatagramKept(m)'
    PROVE  Kept'
<1>1. conn'[i] = None /\ \A j \in Slots : j # i => conn'[j] = conn[j]
  BY CloseFacts
<1>2. ConnectionKept(i)'
  BY <1>1 DEF ConnectionKept
<1> QED BY <1>1, <1>2, ServerKept

\* The block comes from the client itself, so that it is the next one of its file.
LEMMA HandleDataKept ==
    ASSUME IInv, IInv', Kept, NoStrays, NEW i \in Slots, conn[i] # None, NEW m \in net,
           m.to = i, HandleData(i, m), UNCHANGED <<job, client>>
    PROVE  Kept'
<1> DEFINE c == conn[i].client
           p == conn[i].pos
<1>1. /\ c \in Clients /\ conn[i].op = job[c].op
      /\ job[c].op \in {"RRQ", "WRQ"}
      /\ p \in 0 .. MaxFull + 2 /\ LastBlock(i) = p
      /\ Writing(c) => p <= MaxFull /\ p <= Len(card[c])
      /\ card[c] \in Seq(Blocks)
  BY ConnectionFacts
<1>2. /\ m.from = c /\ m.block \in Nat /\ m.data \in Blocks
      /\ m.block <= client[c].k /\ m.data = Block(c, m.block)
  <2>1. m \in Datagrams /\ DatagramOK(m) /\ m.op = "DATA"
    BY DEF IInv, TypeOK, HandleData
  <2>2. m.from = c
    BY DEF NoStrays
  <2>3. FromClient(m)
    BY <2>1, Addresses DEF DatagramOK
  <2> QED BY <2>1, <2>2, <2>3, Addresses DEF FromClient, Datagrams
<1>3. card \in [Clients -> Seq(Blocks)] /\ \A d \in Clients : Len(card[d]) \in Nat
      /\ client[c].k \in Nat
  BY <1>1 DEF IInv, TypeOK, ClientStates
<1>4. CASE UNCHANGED <<conn, card>> /\ net' \subseteq net
  BY <1>4, QuietKept
<1>5. CASE /\ NextBlock(i, m) /\ conn[i].op = "WRQ"
           /\ card' = [card EXCEPT ![c] = Written(card[c], p, m.data)]
           /\ net' = (net \ {m}) \cup {Msg(c, i, "ACK", m.block, NoData)}
           /\ IF m.data.len = BlockSize
              THEN conn' = [conn EXCEPT ![i].pos = @ + 1, ![i].retries = Retries]
              ELSE Close(i)
  <2> DEFINE f == Written(card[c], p, m.data)
  <2>1. m.block = p + 1 /\ Writing(c) /\ p \in 0 .. Len(card[c]) /\ p + 1 \in 0 .. MaxFull + 3
    BY <1>1, <1>3, <1>5 DEF NextBlock, Writing
  <2>2. /\ f \in Seq(Blocks) /\ Len(f) \in Nat /\ Len(f) >= Len(card[c])
        /\ \A j \in 1 .. Len(card[c]) : j # p + 1 => f[j] = card[c][j]
        /\ m.data.len # 0 => p + 1 <= Len(f)
        /\ m.data.len # 0 => f[p + 1] = m.data
        /\ m.data.len = 0 => f = card[c]
    <3>1. PICK file \in Seq(Blocks) : file = card[c]
      BY <1>1
    <3>2. PICK q \in Nat : q = p /\ q <= Len(file)
      BY <1>1, <2>1, <3>1
    <3>3. PICK d \in Blocks : d = m.data
      BY <1>2
    <3>4. PICK g : g = Written(file, q, d)
      OBVIOUS
    <3>5. f = g
      BY <3>1, <3>2, <3>3, <3>4
    <3> HIDE DEF f
    <3>6. g \in Seq(Blocks) /\ Len(g) \in Nat /\ Len(g) >= Len(file)
      BY <3>2, <3>4, WrittenFacts
    <3>7. \A j \in 1 .. Len(file) : j # q + 1 => g[j] = file[j]
      <4>1. CASE d.len = 0
        BY <3>4, <4>1 DEF Written
      <4>2. CASE d.len # 0 /\ q < Len(file)
        BY <3>4, <4>2 DEF Written
      <4>3. CASE d.len # 0 /\ q = Len(file)
        BY <3>4, <4>3 DEF Written
      <4> QED BY <3>2, <4>1, <4>2, <4>3
    <3>8. d.len # 0 => q + 1 <= Len(g) /\ g[q + 1] = d
      <4>1. CASE d.len # 0 /\ q < Len(file)
        BY <3>4, <4>1 DEF Written
      <4>2. CASE d.len # 0 /\ q = Len(file)
        BY <3>4, <4>2 DEF Written
      <4> QED BY <3>2, <4>1, <4>2
    <3>9. d.len = 0 => g = file
      BY <3>2, <3>4, WrittenFacts
    <3> QED BY <3>1, <3>2, <3>3, <3>5, <3>6, <3>7, <3>8, <3>9
  <2> HIDE DEF f
  <2>3. card' = [card EXCEPT ![c] = f] /\ card'[c] = f
    BY <1>1, <1>3, <1>5 DEF f
  <2>4. m.data = Block(c, p + 1)
    BY <1>2, <2>1
  <2>5. CardsGrow
    <3> SUFFICES ASSUME NEW d \in Clients
                 PROVE  /\ Len(card'[d]) >= Len(card[d])
                        /\ \A j \in 1 .. Len(card[d]) : card'[d][j] \in {card[d][j], Block(d, j)}
      BY DEF CardsGrow
    <3>1. CASE d # c
      BY <1>1, <1>3, <2>3, <3>1
    <3>2. CASE d = c
      <4> SUFFICES ASSUME NEW j \in 1 .. Len(card[c]) PROVE f[j] \in {card[c][j], Block(c, j)}
        BY <2>2, <2>3, <3>2
      <4>1. CASE j # p + 1
        BY <2>2, <4>1
      <4>2. CASE j = p + 1
        BY <2>2, <2>4, <4>2
      <4> QED BY <4>1, <4>2
    <3> QED BY <3>1, <3>2
  <2>6. PICK e \in Clients, q \in 0 .. MaxFull + 2 : e = c /\ q = p
    BY <1>1
  <2>7. Stored(e, q + 1)'
    <3>1. Stored(e, q)'
      <4>1. Stored(e, q)
        BY <2>1, <2>6 DEF Kept, ConnectionKept
      <4>2. card' \in [Clients -> Seq(Blocks)]
        BY DEF IInv, TypeOK
      <4> QED BY <2>5, <4>1, <4>2, StoredStays
    <3>2. \/ Block(e, q + 1).len = 0
          \/ q + 1 <= Len(card'[e]) /\ card'[e][q + 1] = Block(e, q + 1)
      BY <2>2, <2>3, <2>4, <2>6
    <3>3. Block(e, q + 1)' = Block(e, q + 1)
      BY BlockStays
    <3>4. \A k \in 1 .. q + 1 : k \in 1 .. q \/ k = q + 1
      OBVIOUS
    <3> QED BY <3>1, <3>2, <3>3, <3>4 DEF Stored
  <2>8. PICK a : a = Msg(e, i, "ACK", m.block, NoData)
    OBVIOUS
  <2>9. a.to = e /\ a.block = q + 1
    BY <2>1, <2>6, <2>8, BlockNumber DEF Msg
  <2>10. DatagramKept(a)'
    BY <2>7, <2>9 DEF DatagramKept
  <2>11. \A n \in net' : n \in net \/ DatagramKept(n)'
    BY <1>5, <2>6, <2>8, <2>10
  <2>12. CASE Close(i)
    BY <2>5, <2>11, <2>12, CloseKept
  <2>13. CASE conn' = [conn EXCEPT ![i] = [conn[i] EXCEPT !.pos = p + 1, !.retries = Retries]]
    <3>1. p + 1 \in 0 .. MaxFull + 3 /\ Retries \in 1 .. Retries
      BY <1>1
    <3>2. /\ \A j \in Slots : j # i => conn'[j] = conn[j]
          /\ \/ conn'[i] = None
             \/ /\ conn'[i].client = c /\ conn'[i].op = conn[i].op
                /\ conn'[i].pos = p + 1
      <4>1. conn \in [Slots -> Connections \cup {None}] /\ conn[i] \in Connections
        BY ConnectionFacts DEF IInv, TypeOK
      <4>2. PICK r : r = [conn[i] EXCEPT !.pos = p + 1, !.retries = Retries]
        OBVIOUS
      <4>3. r.client = c /\ r.op = conn[i].op /\ r.pos = p + 1
        BY <4>1, <4>2 DEF Connections
      <4>4. conn' = [conn EXCEPT ![i] = r]
        BY <2>13, <4>2
      <4> QED BY <4>1, <4>3, <4>4
    <3>3. client'[e].k = client[c].k /\ job'[e].op = "WRQ"
      BY <1>1, <1>5, <2>6
    <3>4. ConnectionKept(i)'
      BY <1>1, <1>2, <2>1, <2>6, <2>7, <3>2, <3>3 DEF ConnectionKept, Reading, Writing
    <3> QED BY <2>5, <2>11, <3>2, <3>4, ServerKept
  <2>14. \/ conn' = [conn EXCEPT ![i] = [conn[i] EXCEPT !.pos = p + 1, !.retries = Retries]]
         \/ Close(i)
    <3>1. CASE m.data.len # BlockSize
      BY <1>5, <3>1
    <3>2. CASE m.data.len = BlockSize
      <4>1. conn' = [conn EXCEPT ![i].pos = @ + 1, ![i].retries = Retries]
        BY <1>5, <3>2
      <4>2. i \in DOMAIN conn
        BY DEF IInv, TypeOK
      <4> QED BY ONLY <4>1, <4>2, TwoFields
    <3> QED BY <3>1, <3>2
  <2> QED BY <2>12, <2>13, <2>14
<1>6. CASE /\ net' = (net \ {m}) \cup {Msg(c, i, "ERROR", 0, NoData)}
           /\ Close(i)
           /\ UNCHANGED card
  <2>1. PICK a : a = Msg(c, i, "ERROR", 0, NoData)
    OBVIOUS
  <2>2. DatagramKept(a)'
    BY <2>1 DEF Msg, DatagramKept
  <2>3. \A n \in net' : n \in net \/ DatagramKept(n)'
    BY <1>6, <2>1, <2>2
  <2> QED BY <1>6, <2>3, CardsStay, CloseKept
<1> QED BY <1>4, <1>5, <1>6 DEF HandleData

\* Only what the client has got to is acknowledged, so that the next block is at
\* most one ahead of it.
LEMMA HandleAckKept ==
    ASSUME IInv, IInv', Kept, NoStrays, NEW i \in Slots, conn[i] # None, NEW m \in net,
           m.to = i, HandleAck(i, m), UNCHANGED <<job, client>>
    PROVE  Kept'
<1> DEFINE c == conn[i].client
           p == conn[i].pos
<1>1. /\ c \in Clients /\ conn[i].op = job[c].op /\ job[c].op \in {"RRQ", "WRQ"}
      /\ p \in 0 .. MaxFull + 2 /\ LastBlock(i) = p
  BY ConnectionFacts
<1>2. m.block \in Nat /\ m.block <= client[c].k
  <2>1. m \in Datagrams /\ DatagramOK(m)
    BY DEF IInv, TypeOK
  <2>2. m.from = c
    BY DEF NoStrays
  <2>3. FromClient(m)
    BY <2>1, Addresses DEF DatagramOK
  <2> QED BY <2>1, <2>2, <2>3, Addresses DEF FromClient, Datagrams
<1>3. CardsGrow /\ UNCHANGED card /\ client[c].k \in Nat
  <2>1. UNCHANGED card
    BY DEF HandleAck
  <2>2. client[c].k \in Nat
    BY <1>1 DEF IInv, TypeOK, ClientStates
  <2> QED BY <2>1, <2>2, CardsStay
<1>4. CASE net' = net \ {m} /\ UNCHANGED conn
  <2>1. net' \subseteq net
    BY <1>4
  <2> QED BY <1>3, <1>4, <2>1, QuietKept
<1>5. ASSUME AcksLastBlock(i, m), NEW d, AnswerAck(i, m, d), Writing(c) => d.len = 0
      PROVE  Kept'
  <2>1. PICK a : a = Msg(c, i, "DATA", p + 1, d)
    OBVIOUS
  <2>2. net' = (net \ {m}) \cup {a}
    BY <1>5, <2>1 DEF AnswerAck, AnswerToAck
  <2>3. DatagramKept(a)'
    BY <2>1 DEF Msg, DatagramKept
  <2>4. \A n \in net' : n \in net \/ DatagramKept(n)'
    BY <2>2, <2>3
  <2>5. CASE d.len = 0
    <3>1. Close(i)
      BY <1>5, <2>5 DEF AnswerAck
    <3> QED BY <1>3, <2>4, <3>1, CloseKept
  <2>6. CASE d.len # 0
    <3>1. conn \in [Slots -> Connections \cup {None}] /\ conn[i] \in Connections
      BY ConnectionFacts DEF IInv, TypeOK
    <3>2. PICK r : r = [conn[i] EXCEPT !.pos = p + 1, !.retries = Retries, !.buf = d]
      OBVIOUS
    <3>3. r.client = c /\ r.pos = p + 1
      BY <3>1, <3>2 DEF Connections
    <3>4. conn' = [conn EXCEPT ![i] = r]
      <4>1. conn' = [conn EXCEPT ![i].pos = @ + 1, ![i].retries = Retries, ![i].buf = d]
        BY <1>5, <2>6 DEF AnswerAck
      <4>2. i \in DOMAIN conn
        BY <3>1
      <4> QED BY ONLY <3>2, <4>1, <4>2, ThreeFields
    <3>5. conn'[i] = r /\ \A j \in Slots : j # i => conn'[j] = conn[j]
      BY <3>1, <3>4
    <3>6. p <= client[c].k
      BY <1>1, <1>2, <1>5 DEF AcksLastBlock
    <3>7. job[c].op = "RRQ"
      BY <1>1, <1>5, <2>6 DEF Writing
    <3>8. ConnectionKept(i)'
      BY <1>1, <1>3, <3>3, <3>5, <3>6, <3>7 DEF ConnectionKept, Reading, Writing
    <3> QED BY <1>3, <2>4, <3>5, <3>8, ServerKept
  <2> QED BY <2>5, <2>6
<1>6. ASSUME AcksLastBlock(i, m), conn[i].op = "RRQ", NEW d, AnswerAck(i, m, d)
      PROVE  Kept'
  BY <1>1, <1>5, <1>6 DEF Writing
<1>7. CASE AcksLastBlock(i, m) /\ AnswerAck(i, m, NoData)
  BY <1>5, <1>7, NoDataType
<1> QED BY <1>4, <1>6, <1>7 DEF HandleAck

LEMMA HandleErrorKept ==
    ASSUME IInv, IInv', Kept, NEW i \in Slots, NEW m \in net, HandleError(i, m),
           UNCHANGED <<job, client>>
    PROVE  Kept'
<1>1. Close(i) /\ UNCHANGED card /\ \A n \in net' : n \in net
  BY DEF HandleError
<1> QED BY <1>1, CardsStay, CloseKept

LEMMA HandleTimeoutKept ==
    ASSUME IInv, IInv', Kept, NEW i \in Slots, HandleTimeout(i)
    PROVE  Kept'
<1> DEFINE c == conn[i].client
           p == conn[i].pos
<1>1. /\ conn[i] # None /\ conn[i] \in Connections /\ c \in Clients /\ conn[i].op = job[c].op
      /\ job[c].op \in {"RRQ", "WRQ"} /\ p \in 0 .. MaxFull + 2
  BY ConnectionFacts DEF HandleTimeout
<1>2. CardsGrow /\ UNCHANGED <<job, client, card>>
  BY CardsStay DEF HandleTimeout
<1>3. CASE GivesUp(i)
  <2>1. Close(i) /\ \A n \in net' : n \in net
    BY <1>3 DEF HandleTimeout
  <2> QED BY <1>2, <2>1, CloseKept
<1>4. CASE ~GivesUp(i)
  <2>1. PICK a : a = LastMessage(i)
    OBVIOUS
  <2>2. PICK r : r = [conn[i] EXCEPT !.retries = RetriesLeft(i)]
    OBVIOUS
  <2>3. net' = net \cup {a} /\ conn' = [conn EXCEPT ![i] = r]
    BY <1>4, <2>1, <2>2 DEF HandleTimeout
  <2>4. r.client = c /\ r.op = conn[i].op /\ r.pos = p
    BY <1>1, <2>2 DEF Connections
  <2>5. conn'[i] = r /\ \A j \in Slots : j # i => conn'[j] = conn[j]
    BY <2>3 DEF IInv, TypeOK
  <2>6. ConnectionKept(i)
    BY DEF Kept
  <2>7. PICK e \in Clients, q \in 0 .. MaxFull + 3 : e = c /\ q = p
    BY <1>1
  <2>8. Writing(e) => Stored(e, q)'
    <3>1. Writing(e) => Stored(e, q)
      BY <1>1, <2>6, <2>7 DEF ConnectionKept
    <3>2. card' \in [Clients -> Seq(Blocks)]
      BY DEF IInv, TypeOK
    <3> QED BY <1>2, <3>1, <3>2, StoredStays
  <2>9. ConnectionKept(i)'
    BY <1>1, <1>2, <2>4, <2>5, <2>6, <2>7, <2>8 DEF ConnectionKept, Reading, Writing
  <2>10. DatagramKept(a)'
    <3>1. CASE conn[i].op = "RRQ"
      <4>1. a.op = "DATA"
        BY <2>1, <3>1 DEF LastMessage, Msg
      <4> QED BY <4>1 DEF DatagramKept
    <3>2. CASE conn[i].op # "RRQ"
      <4>1. a.to = e /\ a.block = q
        BY <2>1, <2>7, <3>2, BlockNumber DEF LastMessage, Msg
      <4> QED BY <1>1, <2>7, <2>8, <3>2, <4>1 DEF DatagramKept, Writing
    <3> QED BY <3>1, <3>2
  <2>11. \A n \in net' : n \in net \/ DatagramKept(n)'
    BY <2>3, <2>10
  <2> QED BY <1>2, <2>5, <2>9, <2>11, ServerKept
<1> QED BY <1>3, <1>4

\* A step of client c: it goes on, or says something.
LEMMA ClientStepKept ==
    ASSUME IInv, IInv', Kept, NEW c \in Clients,
           \A d \in Clients : d # c => client'[d] = client[d],
           client'[c].k >= client[c].k, ClientKept(c)',
           \A m \in net' : m \in net \/ m.to \notin Clients,
           UNCHANGED <<job, conn, card>>
    PROVE  Kept'
<1>1. card' \in [Clients -> Seq(Blocks)] /\ CardsGrow
  BY CardsStay DEF IInv, TypeOK
<1>2. \A d \in Clients : client[d].k \in Nat /\ client'[d].k \in Nat
  BY DEF IInv, TypeOK, ClientStates
<1>3. \A d \in Clients : client'[d].k \in Nat /\ client'[d].k >= client[d].k
  BY <1>2
<1>4. \A d \in Clients : ClientKept(d)'
  BY <1>1, KeptClients
<1>5. \A i \in Slots : ConnectionKept(i)'
  BY <1>1, <1>3, KeptConnections
<1>6. \A m \in net' : m \in net \/ DatagramKept(m)'
  BY DEF DatagramKept
<1>7. \A m \in net' : DatagramKept(m)'
  BY <1>1, <1>6, KeptNet
<1> QED BY <1>4, <1>5, <1>7 DEF Kept

\* What a client says goes to a connection or to the service.
LEMMA LastSentTo ==
    ASSUME IInv, NEW c \in Clients
    PROVE  LastSent(c).to \notin Clients
<1>1. client[c].tid \in Slots \cup {NoSlot}
  BY ClientFacts
<1> QED BY <1>1, Addresses DEF LastSent, Request, Msg

LEMMA ClientAdvanceKept ==
    ASSUME IInv, IInv', Kept, NEW c \in Clients, NEW m \in net, m.to = c,
           Takes(c, m), ClientAdvance(c, m), UNCHANGED <<job, conn, card>>
    PROVE  Kept'
<1> DEFINE s == client[c]
           last == IF job[c].op = "RRQ" THEN m.data.len < BlockSize ELSE s.k = job[c].full + 1
<1>1. s \in ClientStates /\ s.k \in 0 .. MaxFull + 2 /\ job[c].op \in {"RRQ", "WRQ"}
  BY ClientFacts
<1>2. m.from \in Slots /\ m.block \in Nat
  BY DEF IInv, TypeOK, Datagrams, DatagramOK, FromServer
<1>3. PICK st : st = IF last THEN "done" ELSE "busy"
  OBVIOUS
<1>4. PICK k : k = IF job[c].op = "WRQ" /\ last THEN s.k ELSE s.k + 1
  OBVIOUS
<1>5. PICK got : got = IF job[c].op = "RRQ" THEN Append(s.got, m.data) ELSE s.got
  OBVIOUS
<1>6. PICK n : n = [s EXCEPT !.tid = m.from, !.retries = ClientRetries, !.st = st,
                             !.k = k, !.got = got]
  OBVIOUS
<1>7. client' = [client EXCEPT ![c] = n]
  BY <1>3, <1>4, <1>5, <1>6 DEF ClientAdvance
<1>8. n.st = st /\ n.k = k
  BY <1>1, <1>6 DEF ClientStates
<1>9. client'[c] = n /\ \A d \in Clients : d # c => client'[d] = client[d]
  BY <1>7 DEF IInv, TypeOK
<1>10. client'[c].k >= client[c].k
  BY <1>1, <1>4, <1>8, <1>9
<1>11. ASSUME NEW b \in net' PROVE b \in net \/ b.to \notin Clients
  BY <1>2, Addresses DEF ClientAdvance, Msg
<1>12. ClientKept(c)'
  <2>1. CASE job[c].op = "RRQ"
    BY <2>1 DEF ClientKept, Writing
  <2>2. CASE job[c].op = "WRQ"
    <3>1. m.op = "ACK" /\ m.block = s.k
      BY <1>1, <2>2, BlockNumber DEF Takes
    <3>2. PICK j \in Int : j = s.k
      BY <1>1
    <3>3. Stored(c, j)
      BY <2>2, <3>1, <3>2 DEF Kept, DatagramKept, Writing
    <3>4. Stored(c, j)'
      <4>1. card' \in [Clients -> Seq(Blocks)]
        BY DEF IInv, TypeOK
      <4> QED BY <3>3, <4>1, CardsStay, StoredStays
    <3>5. j = (IF n.st = "done" THEN n.k ELSE n.k - 1)
      BY <1>1, <1>3, <1>4, <1>8, <2>2, <3>2
    <3> QED BY <1>9, <3>4, <3>5 DEF ClientKept
  <2> QED BY <1>1, <2>1, <2>2
<1> QED BY <1>9, <1>10, <1>11, <1>12, ClientStepKept

\* A client that gives up, repeats itself or answers stays where it is.
LEMMA ClientStaysKept ==
    ASSUME IInv, IInv', Kept, NEW c \in Clients, client[c].st = "busy",
           NEW n, client' = [client EXCEPT ![c] = n], n.k = client[c].k,
           n.st \in {"busy", "failed"},
           \A m \in net' : m \in net \/ m.to \notin Clients,
           UNCHANGED <<job, conn, card>>
    PROVE  Kept'
<1>1. client'[c] = n /\ \A d \in Clients : d # c => client'[d] = client[d]
  BY DEF IInv, TypeOK
<1>2. client[c].k \in Nat
  BY DEF IInv, TypeOK, ClientStates
<1>3. PICK j \in Int : j = client[c].k - 1
  BY <1>2
<1>4. Writing(c) => Stored(c, j)
  BY <1>3 DEF Kept, ClientKept
<1>5. Writing(c) => Stored(c, j)'
  <2>1. card' \in [Clients -> Seq(Blocks)]
    BY DEF IInv, TypeOK
  <2> QED BY <1>4, <2>1, CardsStay, StoredStays
<1>6. ClientKept(c)'
  BY <1>1, <1>3, <1>5 DEF ClientKept, Writing
<1>7. client'[c].k >= client[c].k
  BY <1>1, <1>2
<1> QED BY <1>1, <1>6, <1>7, ClientStepKept

LEMMA ClientReceiveKept ==
    ASSUME IInv, IInv', Kept, NEW c \in Clients, ClientReceive(c)
    PROVE  Kept'
<1>1. PICK m \in net :
          /\ m.to = c
          /\ IF client[c].tid \notin {NoSlot, m.from}
             THEN /\ net' = (net \ {m}) \cup
                            (IF m.op = "ERROR" THEN {} ELSE {Msg(m.from, c, "ERROR", 0, NoData)})
                  /\ UNCHANGED client
             ELSE IF m.op = "ERROR"
             THEN client' = [client EXCEPT ![c].st = "failed"] /\ net' = net \ {m}
             ELSE IF Takes(c, m)
             THEN ClientAdvance(c, m)
             ELSE /\ net' = (net \ {m}) \cup (IF Repeats(c, m) THEN {LastSent(c)} ELSE {})
                  /\ UNCHANGED client
  BY DEF ClientReceive
<1>2. client[c].st = "busy" /\ UNCHANGED <<job, conn, card>>
  BY DEF ClientReceive
<1>3. m.from \in Slots /\ LastSent(c).to \notin Clients
  BY <1>1, LastSentTo DEF IInv, DatagramOK, FromServer
<1>4. ASSUME UNCHANGED client, \A b \in net' : b \in net \/ b.to \notin Clients PROVE Kept'
  <2>1. \A b \in net' : b \in net \/ DatagramKept(b)'
    BY <1>4 DEF DatagramKept
  <2> QED BY <1>2, <1>4, <2>1, QuietKept
<1>5. CASE UNCHANGED client /\ net' \subseteq (net \ {m}) \cup {Msg(m.from, c, "ERROR", 0, NoData)}
  <2>1. \A b \in net' : b \in net \/ b.to \notin Clients
    BY <1>3, <1>5, Addresses DEF Msg
  <2> QED BY <1>4, <1>5, <2>1
<1>6. CASE UNCHANGED client /\ net' \subseteq (net \ {m}) \cup {LastSent(c)}
  <2>1. \A b \in net' : b \in net \/ b.to \notin Clients
    BY <1>3, <1>6
  <2> QED BY <1>4, <1>6, <2>1
<1>7. CASE client' = [client EXCEPT ![c].st = "failed"] /\ net' = net \ {m}
  <2>1. PICK n : n = [client[c] EXCEPT !.st = "failed"]
    OBVIOUS
  <2>2. client[c] \in ClientStates
    BY ClientFacts
  <2>3. n.k = client[c].k /\ n.st = "failed"
    BY <2>1, <2>2 DEF ClientStates
  <2>4. client' = [client EXCEPT ![c] = n] /\ \A b \in net' : b \in net
    BY <1>7, <2>1
  <2> QED BY <1>2, <2>3, <2>4, ClientStaysKept
<1>8. CASE Takes(c, m) /\ ClientAdvance(c, m)
  BY <1>1, <1>2, <1>8, ClientAdvanceKept
<1> QED BY <1>1, <1>5, <1>6, <1>7, <1>8

LEMMA ClientTimeoutKept ==
    ASSUME IInv, IInv', Kept, NEW c \in Clients, ClientTimeout(c)
    PROVE  Kept'
<1>1. client[c].st = "busy" /\ UNCHANGED <<job, conn, card>> /\ client[c] \in ClientStates
  BY ClientFacts DEF ClientTimeout
<1>2. \A b \in net' : b \in net \/ b.to \notin Clients
  BY LastSentTo DEF ClientTimeout
<1>3. PICK n : n = IF client[c].retries > 0
                   THEN [client[c] EXCEPT !.retries = client[c].retries - 1]
                   ELSE [client[c] EXCEPT !.st = "failed"]
  OBVIOUS
<1>4. client' = [client EXCEPT ![c] = n]
  BY <1>3 DEF ClientTimeout
<1>5. n.k = client[c].k /\ n.st \in {"busy", "failed"}
  BY <1>1, <1>3 DEF ClientStates
<1> QED BY <1>1, <1>2, <1>4, <1>5, ClientStaysKept

LEMMA DuplicateKept ==
    ASSUME IInv, IInv', Kept, Duplicate
    PROVE  Kept'
<1>1. PICK m \in net : net' = net \cup {[m EXCEPT !.copy = TRUE]}
  BY DEF Duplicate
<1>2. UNCHANGED <<job, client, conn, card>>
  BY DEF Duplicate
<1>3. m \in Datagrams /\ DatagramKept(m)
  BY DEF IInv, TypeOK, Kept
<1>4. PICK a : a = [m EXCEPT !.copy = TRUE]
  OBVIOUS
<1>5. a.to = m.to /\ a.op = m.op /\ a.block = m.block
  BY <1>3, <1>4 DEF Datagrams
<1>6. DatagramKept(a)'
  BY <1>2, <1>3, <1>5, BlockStays DEF DatagramKept, Stored, Writing
<1> QED BY <1>1, <1>2, <1>4, <1>6, QuietKept

LEMMA LoseKept ==
    ASSUME IInv, IInv', Kept, Lose \/ Unheard
    PROVE  Kept'
<1>1. (\A b \in net' : b \in net) /\ UNCHANGED <<job, client, conn, card>>
  BY DEF Lose, Unheard
<1> QED BY <1>1, QuietKept

LEMMA NextKept ==
    ASSUME IInv, IInv', Kept, NoStrays, [Next]_vars
    PROVE  Kept'
<1>1. CASE UNCHANGED vars
  BY <1>1, QuietKept DEF vars
<1>2. CASE Finished
  BY <1>1, <1>2 DEF Finished
<1>3. CASE Server
  BY <1>3, HandleRequestKept, HandleDataKept, HandleAckKept, HandleErrorKept,
     HandleTimeoutKept DEF Server, HandlePacket
<1>4. CASE Outside
  BY <1>4, ClientReceiveKept, ClientTimeoutKept, DuplicateKept, LoseKept DEF Outside
<1> QED BY <1>1, <1>2, <1>3, <1>4 DEF Next

LEMMA InitKept == Init => Kept
<1> SUFFICES ASSUME Init PROVE Kept
  OBVIOUS
<1>1. \A c \in Clients : ClientKept(c)
  <2> TAKE c \in Clients
  <2>1. client[c] = [st |-> "busy", tid |-> NoSlot, k |-> 0,
                     retries |-> ClientRetries, got |-> << >>]
    BY DEF Init
  <2> QED BY <2>1 DEF ClientKept, Stored
<1>2. \A i \in Slots : ConnectionKept(i)
  BY DEF Init, ConnectionKept
<1>3. \A m \in net : DatagramKept(m)
  BY Addresses DEF Init, Request, Msg, DatagramKept
<1> QED BY <1>1, <1>2, <1>3 DEF Kept

-----------------------------------------------------------------------------
(***************************************************************************)
(* Writers.                                                                *)
(***************************************************************************)
LEMMA KeptIsStored ==
    ASSUME IInv, Kept
    PROVE  WritesWhatIsSent
<1> SUFFICES ASSUME NEW c \in Clients, Writing(c)
             PROVE  LET n == IF client[c].st = "done" THEN job[c].full + 1 ELSE client[c].k - 1
                    IN  \A k \in 1 .. n : Block(c, k).len = 0 \/ card[c][k] = Block(c, k)
  BY DEF WritesWhatIsSent, Writing
<1>1. ClientKept(c) /\ (client[c].st = "done" => client[c].k = job[c].full + 1)
  BY DEF IInv, ClientOK, Kept
<1> QED BY <1>1 DEF ClientKept, Stored

LEMMA KeptIsNeverAhead ==
    ASSUME IInv, Kept
    PROVE  NeverAhead
<1> SUFFICES ASSUME NEW c \in Clients, NEW i \in Slots, conn[i].client = c,
                    client[c].tid = i, client[c].st = "busy"
             PROVE  conn[i].pos <= client[c].k + (IF job[c].op = "RRQ" THEN 1 ELSE 0)
  BY DEF NeverAhead
<1>1. conn[i] # None
  <2>1. None.client = "none" /\ c # "none"
    BY DEF None
  <2> QED BY <2>1
<1>2. ConnectionKept(i) /\ job[c].op \in {"RRQ", "WRQ"} /\ client[c].k \in Nat
  <2>1. client[c].k \in Nat
    BY DEF IInv, TypeOK, ClientStates
  <2> QED BY <2>1, ClientFacts DEF Kept
<1> QED BY <1>1, <1>2 DEF ConnectionKept, Reading, Writing

LEMMA KeptWithoutStrays == Spec /\ []NoStrays => []Kept
<1>1. Init => Kept
  BY InitKept
<1>2. IInv /\ IInv' /\ Kept /\ NoStrays /\ [Next]_vars => Kept'
  BY NextKept
<1> QED BY <1>1, <1>2, Invariance, PTL DEF Spec

\* With one client there is nobody to take a datagram from.
LEMMA OneClientNoStrays ==
    ASSUME IInv, \A c, d \in Clients : c = d
    PROVE  NoStrays
<1> SUFFICES ASSUME NEW m \in net, m.to \in Slots, conn[m.to] # None
             PROVE  m.from = conn[m.to].client
  BY DEF NoStrays
<1>1. m.from \in Clients
  BY Addresses DEF IInv, DatagramOK, FromClient
<1>2. conn[m.to].client \in Clients
  BY ConnectionFacts
<1> QED BY <1>1, <1>2

\* Every block a writer has an acknowledgement for is on the card, in order,
\* and its whole file is when it believes to be done: as long as no connection
\* gets what another one's client has sent.
THEOREM WritersAreStored == Spec /\ []NoStrays => []WritesWhatIsSent
<1>1. IInv /\ Kept => WritesWhatIsSent
  BY KeptIsStored
<1> QED BY <1>1, Invariance, KeptWithoutStrays, PTL

\* Under the same condition no connection is more than a block ahead of the
\* client it serves.
THEOREM ConnectionsNeverAhead == Spec /\ []NoStrays => []NeverAhead
<1>1. IInv /\ Kept => NeverAhead
  BY KeptIsNeverAhead
<1> QED BY <1>1, Invariance, KeptWithoutStrays, PTL

\* A client that is alone is stored, with no condition on the datagrams.
THEOREM LoneWriterIsStored ==
    ASSUME \A c, d \in Clients : c = d
    PROVE  Spec => []WritesWhatIsSent
<1>1. IInv => NoStrays
  BY OneClientNoStrays
<1> QED BY <1>1, Invariance, WritersAreStored, PTL

\* Nor is a connection ever ahead of it.
THEOREM LoneClientNeverBehind ==
    ASSUME \A c, d \in Clients : c = d
    PROVE  Spec => []NeverAhead
<1>1. IInv => NoStrays
  BY OneClientNoStrays
<1> QED BY <1>1, Invariance, ConnectionsNeverAhead, PTL
=============================================================================
