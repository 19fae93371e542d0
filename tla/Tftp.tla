-------------------------------- MODULE Tftp --------------------------------
(***************************************************************************)
(* The TFTP server of lib/TFTPService: the service on port 69, up to       *)
(* MAX_CONNECTIONS connections, each on a port of its own, the SD card and *)
(* the radio.  The server is translated from the source; the client is not *)
(* part of the repository and is the one RFC 1350 describes: lock step,    *)
(* bound to the first port that answers it, repeating its last message     *)
(* when nothing comes.                                                     *)
(*                                                                         *)
(* Datagrams are in flight as a set.  Loss, duplication, a timeout that is *)
(* too early for a datagram under way, and an SD card that fails when a    *)
(* file is opened, read or written are faults; MaxFaults bounds them.  A   *)
(* datagram may stay in flight as long as others pass it.                  *)
(***************************************************************************)
EXTENDS Naturals, Sequences, FiniteSets

CONSTANTS
    Clients,
    MaxConnections,     \* MAX_CONNECTIONS, TFTPService.h:10
    Retries,            \* RECV_RETRIES, TFTPConnection.h:12
    BlockMod,           \* 2^16: block numbers are uint16_t
    BlockSize,          \* 512: sizeof(buf), TFTPConnection.h:26
    ClientRetries,      \* how often a client repeats itself
    MaxFull,            \* longest file, in full blocks
    OldBlocks,          \* lengths of a file that a write may find on the card
    Ops,                \* the requests clients make, of "RRQ" and "WRQ"
    MaxFaults

ASSUME TftpAssumption ==
    /\ MaxConnections \in Nat \ {0} /\ Retries \in Nat \ {0}
    /\ BlockMod \in Nat \ {0} /\ BlockSize \in Nat \ {0} /\ ClientRetries \in Nat
    /\ MaxFull \in Nat /\ MaxFaults \in Nat
    /\ OldBlocks \subseteq Nat /\ Ops \subseteq {"RRQ", "WRQ"}
    /\ MaxFull + 3 < BlockMod               \* no transfer wraps its block numbers
    /\ Clients \cap (0 .. MaxConnections + 1) = {}
    /\ Clients \cap {"none", "old"} = {}    \* `client` of None, `of` of other blocks

VARIABLES
    job,        \* what each client transfers; chosen at the start
    client,     \* the clients
    conn,       \* tftpConnection[]
    card,       \* the file each client names, as the blocks on the SD card
    net,        \* datagrams in flight
    misread,    \* history: ports, with their clients, a read has failed for
    faults      \* faults that have happened

vars == <<job, client, conn, card, net, misread, faults>>

Slots == 0 .. MaxConnections - 1

\* Connection i listens on port 6900 + i, the service on port 69.
Service == MaxConnections
None == [client |-> "none"]
NoSlot == MaxConnections + 1

(***************************************************************************)
(* Bytes of client c's file, from byte `at` on.  A block is as many as the *)
(* buffer takes, or those left: full blocks, what is behind them, nothing. *)
(***************************************************************************)
Length(c) == job[c].full * BlockSize + job[c].tail

Left(c, at) == IF Length(c) - at < BlockSize THEN Length(c) - at ELSE BlockSize

Piece(c, at, n) == [of |-> c, at |-> at, len |-> n]

Behind(data) == data.at + data.len

\* Block k, from 1, as reading or sending the whole file yields it.
Block(c, k) ==
    LET at == IF k <= job[c].full + 1 THEN (k - 1) * BlockSize ELSE Length(c)
    IN  Piece(c, at, Left(c, at))

NoData == [of |-> "none", at |-> 0, len |-> 0]

\* A block of the file that was on the card before a write.
OldBlock == [of |-> "old", at |-> 0, len |-> BlockSize]

Blocks == [of : Clients, at : Nat, len : 0 .. BlockSize] \cup {NoData, OldBlock}

Msg(to, from, op, block, data) ==
    [to |-> to, from |-> from, op |-> op, block |-> block % BlockMod, data |-> data,
     copy |-> FALSE]

\* The client's datagrams carry a client as `from`, the server's as `to`.
Request(c) == Msg(Service, c, job[c].op, 0, NoData)

Jobs == [op : Ops, full : 0 .. MaxFull, tail : 0 .. BlockSize - 1, old : OldBlocks]

\* `buf` is what buf and lastSize hold; the file is read on behind it.
Connections == [client : Clients, op : {"RRQ", "WRQ"}, pos : 0 .. MaxFull + 3,
                retries : 1 .. Retries, buf : Blocks]

ClientStates == [st : {"busy", "done", "failed"}, tid : Slots \cup {NoSlot},
                 k : 0 .. MaxFull + 2, retries : 0 .. ClientRetries, got : Seq(Blocks)]

Datagrams == [to : Clients \cup Slots \cup {Service}, from : Clients \cup Slots,
              op : {"RRQ", "WRQ", "DATA", "ACK", "ERROR"},
              block : 0 .. BlockMod - 1, data : Blocks, copy : BOOLEAN]

TypeOK ==
    /\ job \in [Clients -> Jobs]
    /\ client \in [Clients -> ClientStates]
    /\ conn \in [Slots -> Connections \cup {None}]
    /\ card \in [Clients -> Seq(Blocks)]
    /\ net \subseteq Datagrams
    /\ misread \subseteq Slots \X Clients
    /\ faults \in 0 .. MaxFaults

Init ==
    /\ job \in [Clients -> Jobs]
    /\ client = [c \in Clients |-> [st |-> "busy", tid |-> NoSlot, k |-> 0,
                                    retries |-> ClientRetries, got |-> << >>]]
    /\ conn = [i \in Slots |-> None]
    /\ card = [c \in Clients |-> [n \in 1 .. job[c].old |-> OldBlock]]
    /\ net = {Request(c) : c \in Clients}
    /\ misread = {}
    /\ faults = 0

Fault == faults < MaxFaults /\ faults' = faults + 1

(***************************************************************************)
(* file.readBytes(): a card that fails yields a part of what it should, or *)
(* nothing.  The code sends what it got, as if the file ended there.       *)
(***************************************************************************)
Reads(c, at) == {Piece(c, at, n) : n \in 0 .. Left(c, at)}

ReadFor(i, c, data) ==
    IF data.len = Left(c, data.at)
    THEN UNCHANGED <<misread, faults>>
    ELSE Fault /\ misread' = misread \cup {<<i, c>>}

-----------------------------------------------------------------------------
(***************************************************************************)
(* The service (TFTPService::handle, after the connections' turn).         *)
(***************************************************************************)

\* The lowest free connection.
FreeSlot(i) == conn[i] = None /\ \A j \in Slots : j < i => conn[j] # None

\* A request makes a connection, which answers from its own port.
Opened(m, i, pos, data) ==
    conn' = [conn EXCEPT ![i] = [client |-> m.from, op |-> m.op, retries |-> Retries,
                                 pos |-> pos, buf |-> data]]

\* It reads the first block; of an empty file as well, and goes on.
AcceptRead(m, i) ==
    /\ m.op = "RRQ"
    /\ FreeSlot(i)
    /\ \E data \in Reads(m.from, 0) :
           /\ ReadFor(i, m.from, data)
           /\ Opened(m, i, 1, data)
           /\ net' = (net \ {m}) \cup {Msg(m.from, i, "DATA", 1, data)}

\* It creates the file, or opens it without truncation.
AcceptWrite(m, i) ==
    /\ m.op = "WRQ"
    /\ FreeSlot(i)
    /\ Opened(m, i, 0, NoData)
    /\ net' = (net \ {m}) \cup {Msg(m.from, i, "ACK", 0, NoData)}
    /\ UNCHANGED <<misread, faults>>

\* The file cannot be opened: an error, and the connection is gone again.
RefuseFile(m, i) ==
    /\ FreeSlot(i)
    /\ net' = (net \ {m}) \cup {Msg(m.from, i, "ERROR", 0, NoData)}
    /\ Fault
    /\ UNCHANGED <<conn, misread>>

\* Every connection taken.  TFTPService::sendError() writes the packet as a C
\* string whose first byte is 0: the client gets an empty datagram.
RefuseBusy(m) ==
    /\ \A i \in Slots : conn[i] # None
    /\ net' = net \ {m}
    /\ UNCHANGED <<conn, misread, faults>>

HandleRequest ==
    /\ \E m \in net :
           /\ m.to = Service
           /\ \/ \E i \in Slots : AcceptRead(m, i) \/ AcceptWrite(m, i) \/ RefuseFile(m, i)
              \/ RefuseBusy(m)
    /\ UNCHANGED <<job, client, card>>

-----------------------------------------------------------------------------
(***************************************************************************)
(* A connection (TFTPConnection::handle).                                  *)
(***************************************************************************)

Close(i) == conn' = [conn EXCEPT ![i] = None]

LastBlock(i) == conn[i].pos % BlockMod

\* The block at the write position replaces the one there or extends the file.
Written(file, pos, data) ==
    IF data.len = 0 THEN file
    ELSE IF pos < Len(file) THEN [file EXCEPT ![pos + 1] = data]
    ELSE Append(file, data)

\* DATA carries the next number.  lastBlock + 1 is an int, compared unreduced.
UncheckedBlock(i, m) == TRUE       \* mutant
NextBlock(i, m) == m.block = LastBlock(i) + 1

\* DATA with the next number is written and acknowledged, and a short one ends
\* the transfer.
HandleData(i, m) ==
    /\ m.op = "DATA"
    /\ UNCHANGED misread
    /\ LET c == conn[i].client IN
       IF ~NextBlock(i, m)
       THEN net' = net \ {m} /\ UNCHANGED <<conn, card, faults>>
       ELSE \/ /\ conn[i].op = "WRQ"
               /\ card' = [card EXCEPT ![c] = Written(card[c], conn[i].pos, m.data)]
               /\ net' = (net \ {m}) \cup {Msg(c, i, "ACK", m.block, NoData)}
               /\ IF m.data.len = BlockSize
                  THEN conn' = [conn EXCEPT ![i].pos = @ + 1, ![i].retries = Retries]
                  ELSE Close(i)
               /\ UNCHANGED faults
            \/ \* the card is full, or the file was opened for reading
               /\ IF conn[i].op = "RRQ" THEN UNCHANGED faults ELSE Fault
               /\ net' = (net \ {m}) \cup {Msg(c, i, "ERROR", 0, NoData)}
               /\ Close(i)
               /\ UNCHANGED card

UncheckedAck(i, m) == TRUE         \* mutant
AcksLastBlock(i, m) == m.block = LastBlock(i)

\* What an acknowledgement makes the server send.
SilentAtEnd(i, data) ==            \* mutant
    IF data.len = 0 THEN {} ELSE {Msg(conn[i].client, i, "DATA", conn[i].pos + 1, data)}
AnswerToAck(i, data) == {Msg(conn[i].client, i, "DATA", conn[i].pos + 1, data)}

\* An empty block goes out ONCE and the connection closes.
AnswerAck(i, m, data) ==
    /\ net' = (net \ {m}) \cup AnswerToAck(i, data)
    /\ IF data.len = 0
       THEN Close(i)
       ELSE conn' = [conn EXCEPT ![i].pos = @ + 1, ![i].retries = Retries, ![i].buf = data]

\* Bound: only behind a failed read does a connection come to a higher number.
LastNumber == MaxFull + 2

\* ACK of the last block sends what is read next.  A file opened for writing
\* yields nothing.
HandleAck(i, m) ==
    /\ m.op = "ACK"
    /\ UNCHANGED card
    /\ \/ /\ ~AcksLastBlock(i, m)
          /\ net' = net \ {m}
          /\ UNCHANGED <<conn, misread, faults>>
       \/ /\ AcksLastBlock(i, m)
          /\ conn[i].op = "RRQ" /\ conn[i].pos < LastNumber
          /\ \E data \in Reads(conn[i].client, Behind(conn[i].buf)) :
                ReadFor(i, conn[i].client, data) /\ AnswerAck(i, m, data)
       \/ /\ AcksLastBlock(i, m)
          /\ conn[i].op = "WRQ"
          /\ AnswerAck(i, m, NoData)
          /\ UNCHANGED <<misread, faults>>

HandleError(i, m) ==
    /\ m.op = "ERROR"
    /\ Close(i)
    /\ net' = net \ {m}
    /\ UNCHANGED <<card, misread, faults>>

\* Whoever sent it: the handler never looks at the sender's address.
HandlePacket(i) ==
    /\ conn[i] # None
    /\ \E m \in net : m.to = i /\ (HandleData(i, m) \/ HandleAck(i, m) \/ HandleError(i, m))
    /\ UNCHANGED <<job, client>>

\* No datagram of this client's under way.
Quiet(c) == \A m \in net : m.to # c /\ m.from # c

\* Mutant: the next block is read from the file instead of sending the last again.
NextMessage(i) ==
    LET c == conn[i].client
        at == Behind(conn[i].buf)
    IN IF conn[i].op = "RRQ" THEN Msg(c, i, "DATA", conn[i].pos, Piece(c, at, Left(c, at)))
                             ELSE Msg(c, i, "ACK", conn[i].pos, NoData)

\* What is sent again: the buffer and its number, or the number.
LastMessage(i) ==
    LET c == conn[i].client IN
    IF conn[i].op = "RRQ" THEN Msg(c, i, "DATA", conn[i].pos, conn[i].buf)
                          ELSE Msg(c, i, "ACK", conn[i].pos, NoData)

\* --retries
RetriesKept(i) == conn[i].retries  \* mutant
RetriesLeft(i) == conn[i].retries - 1

GivesUpLate(i) == RetriesLeft(i) < 0       \* mutant
GivesUp(i) == RetriesLeft(i) = 0

\* A second without a packet: the last message again, Retries - 1 times.
HandleTimeout(i) ==
    /\ conn[i] # None
    /\ IF Quiet(conn[i].client) THEN UNCHANGED faults ELSE Fault
    /\ IF GivesUp(i)
       THEN Close(i) /\ UNCHANGED net
       ELSE /\ conn' = [conn EXCEPT ![i].retries = RetriesLeft(i)]
            /\ net' = net \cup {LastMessage(i)}
    /\ UNCHANGED <<job, client, card, misread>>

-----------------------------------------------------------------------------
(***************************************************************************)
(* The client (external).                                                  *)
(***************************************************************************)

\* The message the client repeats.
LastSent(c) ==
    LET s == client[c] IN
    IF s.tid = NoSlot THEN Request(c)
    ELSE IF job[c].op = "RRQ" THEN Msg(s.tid, c, "ACK", s.k, NoData)
    ELSE Msg(s.tid, c, "DATA", s.k, Block(c, s.k))

Takes(c, m) ==
    IF job[c].op = "RRQ"
    THEN m.op = "DATA" /\ m.block = (client[c].k + 1) % BlockMod
    ELSE m.op = "ACK" /\ m.block = client[c].k % BlockMod

\* The expected block, or the acknowledgement of the last one: go on, or finish.
ClientAdvance(c, m) ==
    LET s == client[c]
        last == IF job[c].op = "RRQ" THEN m.data.len < BlockSize ELSE s.k = job[c].full + 1
        next == [s EXCEPT !.tid = m.from, !.retries = ClientRetries,
                          !.st = IF last THEN "done" ELSE "busy",
                          !.k = IF job[c].op = "WRQ" /\ last THEN @ ELSE @ + 1,
                          !.got = IF job[c].op = "RRQ" THEN Append(@, m.data) ELSE @]
    IN /\ client' = [client EXCEPT ![c] = next]
       /\ net' = (net \ {m}) \cup
                 (IF job[c].op = "WRQ"
                  THEN IF last THEN {}
                       ELSE {Msg(m.from, c, "DATA", s.k + 1, Block(c, s.k + 1))}
                  ELSE {Msg(m.from, c, "ACK", s.k + 1, NoData)})

\* The previous block again: it is acknowledged again.
Repeats(c, m) == job[c].op = "RRQ" /\ m.op = "DATA" /\ m.block = client[c].k % BlockMod

ClientReceive(c) ==
    /\ client[c].st = "busy"
    /\ \E m \in net :
          /\ m.to = c
          /\ IF client[c].tid \notin {NoSlot, m.from}
             THEN \* an answer from another port is refused there
                  /\ net' = (net \ {m}) \cup
                            (IF m.op = "ERROR" THEN {} ELSE {Msg(m.from, c, "ERROR", 0, NoData)})
                  /\ UNCHANGED client
             ELSE IF m.op = "ERROR"
             THEN client' = [client EXCEPT ![c].st = "failed"] /\ net' = net \ {m}
             ELSE IF Takes(c, m)
             THEN ClientAdvance(c, m)
             ELSE /\ net' = (net \ {m}) \cup (IF Repeats(c, m) THEN {LastSent(c)} ELSE {})
                  /\ UNCHANGED client
    /\ UNCHANGED <<job, conn, card, misread, faults>>

ClientTimeout(c) ==
    /\ client[c].st = "busy"
    /\ IF Quiet(c) THEN UNCHANGED faults ELSE Fault
    /\ IF client[c].retries > 0
       THEN /\ client' = [client EXCEPT ![c].retries = @ - 1]
            /\ net' = net \cup {LastSent(c)}
       ELSE client' = [client EXCEPT ![c].st = "failed"] /\ UNCHANGED net
    /\ UNCHANGED <<job, conn, card, misread>>

-----------------------------------------------------------------------------
(***************************************************************************)
(* The radio (external).                                                   *)
(***************************************************************************)

Lose ==
    /\ \E m \in net : net' = net \ {m}
    /\ Fault
    /\ UNCHANGED <<job, client, conn, card, misread>>

Duplicate ==
    /\ \E m \in net : ~m.copy /\ net' = net \cup {[m EXCEPT !.copy = TRUE]}
    /\ Fault
    /\ UNCHANGED <<job, client, conn, card, misread>>

\* To a closed port, or to a client that has finished: nobody listens.
Unheard ==
    /\ \E m \in net :
           /\ \/ m.to \in Slots /\ conn[m.to] = None
              \/ m.to \in Clients /\ client[m.to].st # "busy"
           /\ net' = net \ {m}
    /\ UNCHANGED <<job, client, conn, card, misread, faults>>

-----------------------------------------------------------------------------
Server == HandleRequest \/ \E i \in Slots : HandlePacket(i) \/ HandleTimeout(i)

Outside == Lose \/ Duplicate \/ Unheard
           \/ \E c \in Clients : ClientReceive(c) \/ ClientTimeout(c)

\* Everybody has finished and nothing is under way.
Finished ==
    /\ net = {}
    /\ \A i \in Slots : conn[i] = None
    /\ \A c \in Clients : client[c].st # "busy"
    /\ UNCHANGED vars

Next == Server \/ Outside \/ Finished

Spec == Init /\ [][Next]_vars

(***************************************************************************)
(* console::loop() calls TFTPService::handle() as long as the console is   *)
(* open, and every call gives every connection a turn.  The radio delivers *)
(* what it does not lose, and clients act.                                 *)
(***************************************************************************)
Fairness ==
    /\ WF_vars(HandleRequest)
    /\ \A i \in Slots : WF_vars(HandlePacket(i)) /\ WF_vars(HandleTimeout(i))
    /\ \A c \in Clients : WF_vars(ClientReceive(c)) /\ WF_vars(ClientTimeout(c))
    /\ WF_vars(Unheard)

FairSpec == Spec /\ Fairness

-----------------------------------------------------------------------------
(***************************************************************************)
(* Properties.                                                             *)
(***************************************************************************)

\* Unless a read has failed for it at the port it is bound to, a reading client
\* holds the blocks of its file in order, none twice, none missing, and all of
\* them if it believes to be done: whatever was lost, late or repeated, and
\* whatever failed for other clients or, its request doubled, at another port.
ReadsWhatIsStored ==
    \A c \in Clients :
        LET s == client[c] IN
        job[c].op = "RRQ" /\ <<s.tid, c>> \notin misread =>
            /\ \A k \in 1 .. Len(s.got) : s.got[k] = Block(c, k)
            /\ s.st = "done" => Len(s.got) = job[c].full + 1

\* Claimed by the text for a read that fails, "Could not read from file.": a
\* client is told, so that one that believes to be done has its whole file.
\* The code never sends the text; it sends what it got as the last block.
DoneIsWhole ==
    \A c \in Clients :
        job[c].op = "RRQ" /\ client[c].st = "done" =>
            /\ Len(client[c].got) = job[c].full + 1
            /\ \A k \in 1 .. Len(client[c].got) : client[c].got[k] = Block(c, k)

\* A writing client's acknowledged blocks are on the card, in order, and its
\* whole file is when it believes to be done, whatever was lost or repeated.
WritesWhatIsSent ==
    \A c \in Clients :
        LET n == IF client[c].st = "done" THEN job[c].full + 1 ELSE client[c].k - 1 IN
        job[c].op = "WRQ" /\ client[c].tid # NoSlot =>
            \A k \in 1 .. n : Block(c, k).len = 0 \/ card[c][k] = Block(c, k)

\* The connection a client is bound to is never more than one block ahead of
\* it: the buffer of a read holds the block the client may still miss, and a
\* write has taken no block the client has not got to.
NeverAhead ==
    \A c \in Clients, i \in Slots :
        conn[i].client = c /\ client[c].tid = i /\ client[c].st = "busy" =>
            conn[i].pos <= client[c].k + (IF job[c].op = "RRQ" THEN 1 ELSE 0)

\* Every connection ends, whatever is lost and whoever gives up.
ConnectionsEnd == \A i \in Slots : conn[i] # None ~> conn[i] = None

\* Without a fault every transfer completes.
CompletesWithoutFaults ==
    [](faults = 0) => <>(\A c \in Clients : client[c].st = "done")
=============================================================================
