----------------------------- MODULE TftpUpload ------------------------------
(***************************************************************************)
(* The upload of a firmware: the TFTP daemon (lib-network, net/apps/tftp), *)
(* its file server and the switch that installs what was received          *)
(* (lib-remoteconfig, tftp/), the table of UDP ports (net/core/udp.cpp),   *)
(* and the clients and their network.                                      *)
(*                                                                         *)
(* A packet is handled to the end in the call-back of udp_input.  A client *)
(* is known by its port, which the daemon takes over as its own port of    *)
(* the transfer.  Packets of one client keep their order; each of them may *)
(* be lost, and the client sends its last one again when no answer comes.  *)
(* Nothing checks who sends to a port of the node: strangers do, too.      *)
(***************************************************************************)
EXTENDS Integers, Sequences

CONSTANTS
    Clients,        \* ports of clients
    Strangers,      \* ports of others
    Strays,         \* the packets that strangers may send
    None,           \* no client: blocks that no client has written
    Size,           \* the bytes that each client sends
    Valid,          \* clients whose first block has a valid header
    Refused,        \* clients that also ask for another file, mode or operation
    BLOCK,          \* tftp::max::DATA_LEN: 512
    Blocks,         \* m_nSize / 512, the blocks of s_TFTPBuffer
    FLASH,          \* the bytes of the flash behind OFFSET_UIMAGE
    MaxUp, MaxDown, \* bounds: packets of a client on the way to the node and back
    MaxEntries,     \* bound: entries of the table with the same port
    MaxStrays,      \* bound: packets of strangers
    MaxSessions     \* bound: how often TFTP is switched on

TFTP == 69          \* net::iana::IANA_PORT_TFTP
Locals == Clients \cup {TFTP}

(* Any packet that is no request: data from block 1 on, or OTHER, which is *)
(* of another operation or too long for data.                              *)
StrayPackets == [from : Strangers, op : {"DATA", "OTHER"}, block : Nat \ {0}, length : 0 .. BLOCK]

ASSUME UploadAssumption ==
    /\ None \notin Clients \cup Strangers /\ {TFTP, 0} \cap (Clients \cup Strangers) = {}
    /\ Clients \cap Strangers = {}
    /\ Size \in [Clients -> Nat]
    /\ Valid \subseteq Clients \cup Strangers /\ Refused \subseteq Clients
    /\ BLOCK \in Nat \ {0} /\ Blocks \in Nat \ {0} /\ FLASH \in Nat
    /\ Strays \subseteq StrayPackets
    /\ MaxUp \in Nat \ {0} /\ MaxDown \in Nat \ {0} /\ MaxEntries \in Nat \ {0} /\ MaxStrays \in Nat
    /\ MaxSessions \in Nat

VARIABLES
    bound,      \* s_Ports: how many entries with the daemon's call-back each port has
    left,       \* history: ports that were given up while the last packet was another's
    enabled,    \* m_pTFTPFileServer exists
    daemon,     \* the members of TFTPDaemon; port is the local port of m_nIdx
    server,     \* m_nFileSize and m_bDone of TFTPFileServer
    buffer,     \* s_TFTPBuffer: who wrote each block
    flash,      \* what WriteFirmware has written: how much, and the blocks
    client,     \* what each client is doing
    up, down,   \* packets on the way to and from the node
    sessions,   \* how often TFTP was switched on
    strays      \* how many packets strangers have sent

node == <<bound, left, enabled, daemon, server, buffer, flash>>
vars == <<node, client, up, down, sessions, strays>>

LastBlock(c) == Size[c] \div BLOCK + 1
Length(c, n) == IF n < LastBlock(c) THEN BLOCK ELSE Size[c] % BLOCK

NoDaemon == [state |-> "INIT", port |-> 0, from |-> 0, block |-> 0, last |-> FALSE]

(* What Init sets. *)
Fresh == [state |-> "WAITING_RQ", port |-> TFTP, from |-> TFTP, block |-> 0, last |-> FALSE]

NewServer == [size |-> 0, done |-> FALSE]

Init ==
    /\ bound = [p \in Locals |-> 0] /\ left = {} /\ enabled = FALSE
    /\ daemon = NoDaemon /\ server = NewServer
    /\ buffer = [n \in 1 .. Blocks |-> None]
    /\ flash = [size |-> 0, blocks |-> buffer]
    /\ client = [c \in Clients |-> [phase |-> "idle", block |-> 0]]
    /\ up = [c \in Clients |-> << >>] /\ down = [c \in Clients |-> << >>]
    /\ sessions = 0 /\ strays = 0

(* One packet too many is lost. *)
OnTheWay(packets, max) == IF Len(packets) <= max THEN packets ELSE Tail(packets)

-----------------------------------------------------------------------------
(* The table of ports.  Begin takes the first entry that has the port or   *)
(* is free: with a hole before it, a port gets a second entry.  Which      *)
(* entries are free depends on the other services too.                     *)

Begin(table, p, hole) ==
    IF table[p] = 0 \/ (hole /\ table[p] < MaxEntries)
    THEN [table EXCEPT ![p] = @ + 1] ELSE table

End(table, p) ==
    IF p \in Locals /\ table[p] > 0 THEN [table EXCEPT ![p] = @ - 1] ELSE table

(* The port that daemon d ends is the one of the last packet. *)
Left(given, d) == IF d.from = d.port THEN given ELSE given \cup {d.port}

-----------------------------------------------------------------------------
(* The daemon.  What Input changes is a record; sent are the answers.      *)

Node(hole) ==
    [bound |-> bound, left |-> left, daemon |-> daemon, server |-> server,
     buffer |-> buffer, hole |-> hole, sent |-> << >>]

Answer(s, op) == [s EXCEPT !.sent = <<[op |-> op, block |-> s.daemon.block]>>]

(* Mutant: the port of the transfer stays in the table. *)
Restart_NoEnd(s) ==
    [s EXCEPT !.bound = Begin(@, TFTP, s.hole), !.left = Left(@, s.daemon), !.daemon = Fresh]

(* Mutant: the state is not set again. *)
Restart_NoState(s) ==
    [s EXCEPT !.bound = Begin(End(@, s.daemon.from), TFTP, s.hole), !.left = Left(@, s.daemon),
              !.daemon = [Fresh EXCEPT !.state = "INIT"]]

(* Init: End of the port of the last packet, Begin of port 69. *)
Restart(s) ==
    [s EXCEPT !.bound = Begin(End(@, s.daemon.from), TFTP, s.hole), !.left = Left(@, s.daemon),
              !.daemon = Fresh]

DoWriteAck(s) ==
    LET a == Answer(s, "ACK")
    IN  IF a.daemon.last THEN Restart(a)
        ELSE [a EXCEPT !.daemon.state = "WRQ_RECV_PACKET"]

(* HandleRequest.  A request to read, another file, a wrong mode and an    *)
(* unknown operation are answered with an error.                           *)
HandleRequest(s, m) ==
    IF m.op # "WRQ" THEN Answer(s, "ERROR")
    ELSE DoWriteAck([s EXCEPT !.server.size = 0,
                              !.daemon.port = s.daemon.from,
                              !.bound = Begin(End(@, TFTP), s.daemon.from, s.hole)])

(* FileWrite writes the block at its own place. *)
CanWrite(c, n) == n <= Blocks /\ (n = 1 => c \in Valid)

(* m_nFileSize grows with repeated blocks too; values behind the flash are *)
(* all the same.                                                           *)
Grown(size, length) == IF size + length <= FLASH THEN size + length ELSE FLASH + 1

Written(s, m) ==
    [s EXCEPT !.daemon.block = m.block,
              !.server.size = Grown(@, m.length),
              !.buffer[m.block] = IF m.length = 0 THEN @ ELSE s.daemon.from]

(* FileWrite returns 0: the block is behind the memory, or has no header. *)
Refuse(s, m) ==
    [s EXCEPT !.daemon.block = m.block, !.server.size = IF m.block > Blocks THEN 0 ELSE @]

(* Mutant: a full block ends the file too. *)
Closed_Early(s, m) ==
    IF m.length <= BLOCK THEN [s EXCEPT !.daemon.last = TRUE, !.server.done = TRUE] ELSE s

(* A short block ends the file: FileClose. *)
Closed(s, m) ==
    IF m.length < BLOCK THEN [s EXCEPT !.daemon.last = TRUE, !.server.done = TRUE] ELSE s

(* Mutant: a block that was received before is not acknowledged again. *)
HandleRecvData_Once(s, m) ==
    LET fits == CanWrite(s.daemon.from, m.block)
        w == IF fits THEN Written(s, m) ELSE Refuse(s, m)
    IN  IF m.op # "DATA" \/ m.block <= s.daemon.block THEN s
        ELSE IF fits \/ m.length = 0 THEN DoWriteAck(Closed(w, m))
        ELSE Restart(Answer(w, "ERROR"))

(* What was written is compared with what came: an empty block that was    *)
(* refused is as good as one that was written.                             *)
HandleRecvData(s, m) ==
    LET fits == CanWrite(s.daemon.from, m.block)
        w == IF fits THEN Written(s, m) ELSE Refuse(s, m)
    IN  IF m.op # "DATA" THEN s
        ELSE IF fits \/ m.length = 0 THEN DoWriteAck(Closed(w, m))
        ELSE Restart(Answer(w, "ERROR"))

(* At most four bytes. *)
Short(m) == m.op \in {"DATA", "OTHER"} /\ m.length = 0

(* The port of the sender is taken over before anything is looked at. *)
Input(from, m, hole) ==
    LET s == [Node(hole) EXCEPT !.daemon.from = from]
    IN  CASE daemon.state = "WAITING_RQ" -> IF Short(m) THEN s ELSE HandleRequest(s, m)
          [] daemon.state = "WRQ_RECV_PACKET" -> HandleRecvData(s, m)

Takes(s) ==
    /\ bound' = s.bound /\ left' = s.left /\ daemon' = s.daemon
    /\ server' = s.server /\ buffer' = s.buffer

(* udp_input: a packet for a port that is not in the table is dropped.     *)
(* What a packet to the port of a daemon that is gone does is not defined  *)
(* by the code (its call-back uses a null pointer), and not modelled.      *)
Arrives(c) ==
    /\ up[c] # << >>
    /\ up' = [up EXCEPT ![c] = Tail(@)]
    /\ IF bound[Head(up[c]).to] = 0
       THEN UNCHANGED <<bound, left, daemon, server, buffer, down>>
       ELSE /\ enabled
            /\ \E hole \in BOOLEAN :
                  LET s == Input(c, Head(up[c]), hole)
                  IN  Takes(s) /\ down' = [down EXCEPT ![c] = OnTheWay(@ \o s.sent, MaxDown)]
    /\ UNCHANGED <<enabled, flash, client, sessions, strays>>

(* A packet of a stranger to a port that is in the table.  Its answers go  *)
(* to the stranger.                                                        *)
Stray(m) ==
    /\ strays < MaxStrays
    /\ strays' = strays + 1
    /\ enabled /\ \E p \in Locals : bound[p] > 0
    /\ \E hole \in BOOLEAN : Takes(Input(m.from, m, hole))
    /\ UNCHANGED <<enabled, flash, client, up, down, sessions>>

-----------------------------------------------------------------------------
(* HandleTftpSet, the command tftp# of the remote configuration.           *)

SwitchOn ==
    /\ ~enabled /\ sessions < MaxSessions
    /\ enabled' = TRUE /\ sessions' = sessions + 1
    /\ \E hole \in BOOLEAN : bound' = Begin(bound, TFTP, hole)
    /\ daemon' = Fresh /\ server' = NewServer
    /\ UNCHANGED <<left, buffer, flash, client, up, down, strays>>

(* A firmware that does not fit is refused, and of an empty one nothing is *)
(* erased and nothing written (a debug build stops at its assertion).      *)
WriteFirmware(size) ==
    IF size \in 1 .. FLASH THEN [size |-> size, blocks |-> buffer] ELSE flash

(* WriteFirmware, if an upload was done; then the daemon is deleted.       *)
SwitchOff ==
    /\ enabled
    /\ enabled' = FALSE
    /\ flash' = IF server.done THEN WriteFirmware(server.size) ELSE flash
    /\ bound' = End(bound, daemon.from) /\ left' = Left(left, daemon)
    /\ daemon' = NoDaemon /\ server' = NewServer
    /\ UNCHANGED <<buffer, client, up, down, sessions, strays>>

-----------------------------------------------------------------------------
(* The clients: a request, then block after block, each one when the last  *)
(* one was acknowledged.                                                   *)

Busy == {"asks", "asks other", "sends"}
Request(op) == [op |-> op, to |-> TFTP, block |-> 0, length |-> 0]
Data(c, n) == [op |-> "DATA", to |-> c, block |-> n, length |-> Length(c, n)]

Send(c, m) == up' = [up EXCEPT ![c] = OnTheWay(Append(@, m), MaxUp)]

(* A careful user: no other upload goes on or is done, and the port has no *)
(* packets of an earlier transfer on the way.                              *)
Quiet(c) ==
    /\ ~server.done
    /\ up[c] = << >> /\ down[c] = << >>
    /\ \A d \in Clients \ {c} : up[d] = << >> /\ client[d].phase \notin Busy

Start(c) ==
    /\ client[c].phase \notin Busy
    /\ Quiet(c)
    /\ \/ Send(c, Request("WRQ")) /\ client' = [client EXCEPT ![c] = [phase |-> "asks", block |-> 0]]
       \/ /\ c \in Refused /\ Send(c, Request("RRQ"))
          /\ client' = [client EXCEPT ![c] = [phase |-> "asks other", block |-> 0]]
    /\ UNCHANGED <<node, down, sessions, strays>>

(* No answer in time. *)
Repeat(c) ==
    /\ \/ client[c].phase = "asks" /\ Send(c, Request("WRQ"))
       \/ client[c].phase = "asks other" /\ Send(c, Request("RRQ"))
       \/ client[c].phase = "sends" /\ Send(c, Data(c, client[c].block))
    /\ UNCHANGED <<node, client, down, sessions, strays>>

GiveUp(c) ==
    /\ client[c].phase \in Busy
    /\ client' = [client EXCEPT ![c].phase = "failed"]
    /\ UNCHANGED <<node, up, down, sessions, strays>>

Acknowledged(c) ==
    /\ down[c] # << >> /\ Head(down[c]).op = "ACK"
    /\ down' = [down EXCEPT ![c] = Tail(@)]
    /\ IF client[c].phase \in Busy /\ Head(down[c]).block = client[c].block
       THEN IF client[c].block = LastBlock(c)
            THEN client' = [client EXCEPT ![c].phase = "done"] /\ UNCHANGED up
            ELSE /\ client' = [client EXCEPT ![c].phase = "sends", ![c].block = @ + 1]
                 /\ Send(c, Data(c, client[c].block + 1))
       ELSE UNCHANGED <<client, up>>
    /\ UNCHANGED <<node, sessions, strays>>

Failed(c) ==
    /\ down[c] # << >> /\ Head(down[c]).op = "ERROR"
    /\ down' = [down EXCEPT ![c] = Tail(@)]
    /\ client' = [client EXCEPT ![c].phase = "failed"]
    /\ UNCHANGED <<node, up, sessions, strays>>

LoseUp(c) ==
    /\ up[c] # << >>
    /\ up' = [up EXCEPT ![c] = Tail(@)]
    /\ UNCHANGED <<node, client, down, sessions, strays>>

LoseDown(c) ==
    /\ down[c] # << >>
    /\ down' = [down EXCEPT ![c] = Tail(@)]
    /\ UNCHANGED <<node, client, up, sessions, strays>>

Next ==
    \/ SwitchOn \/ SwitchOff
    \/ \E m \in Strays : Stray(m)
    \/ \E c \in Clients :
          \/ Arrives(c)
          \/ Start(c) \/ Repeat(c) \/ GiveUp(c)
          \/ Acknowledged(c) \/ Failed(c)
          \/ LoseUp(c) \/ LoseDown(c)

Spec == Init /\ [][Next]_vars

(* A client that waits goes on asking, and a packet that is sent again and *)
(* again arrives at last.                                                  *)
Fairness ==
    \A c \in Clients :
        WF_vars(Repeat(c)) /\ SF_vars(Arrives(c)) /\ SF_vars(Acknowledged(c))
LiveSpec == Spec /\ Fairness

-----------------------------------------------------------------------------
(* Properties.                                                             *)

Packets == [op : {"WRQ", "RRQ", "DATA"}, to : Locals, block : Nat, length : 0 .. BLOCK]

(* The block number never passes the memory, and the daemon rests in the   *)
(* two states in which it can take a packet (the default of the switch in  *)
(* Input, tftpdaemon.cpp:173, is not reached).                             *)
TypeOK ==
    /\ bound \in [Locals -> 0 .. MaxEntries] /\ left \subseteq Locals
    /\ daemon.state \in (IF enabled THEN {"WAITING_RQ", "WRQ_RECV_PACKET"} ELSE {"INIT"})
    /\ daemon.block \in 0 .. Blocks
    /\ server \in [size : 0 .. FLASH + 1, done : BOOLEAN]
    /\ buffer \in [1 .. Blocks -> Clients \cup Strangers \cup {None}]
    /\ sessions \in 0 .. MaxSessions /\ strays \in 0 .. MaxStrays
    /\ \A c \in Clients : \A i \in 1 .. Len(up[c]) : up[c][i] \in Packets

(* While TFTP is on, the port of the daemon is in the table (69 while it   *)
(* waits for a request, the client's in a transfer), whoever sends to it.  *)
(* Every other entry is of a port that was given up (the transfer ended,   *)
(* or the daemon was deleted) just when the last packet had come from      *)
(* another port, which was ended in its place; and a port to which that    *)
(* never happened has one entry at most.                                   *)
PortsExact ==
    /\ enabled => bound[daemon.port] > 0 /\ (daemon.port = TFTP <=> daemon.state = "WAITING_RQ")
    /\ \A p \in Locals :
          bound[p] > 0 /\ p \notin left => enabled /\ p = daemon.port /\ bound[p] = 1

(* All that c sent is there; a size behind the flash may be any.           *)
Holds(size, blocks, c) ==
    /\ size >= Size[c] \/ size > FLASH
    /\ \A n \in 1 .. LastBlock(c) : Length(c, n) > 0 => n <= Blocks /\ blocks[n] = c

Owner(size, blocks) ==
    LET owners == { c \in Clients : Holds(size, blocks, c) }
    IN  IF owners = {} THEN "broken" ELSE CHOOSE c \in owners : TRUE

(* Whatever is lost and sent again, and whatever an earlier upload left in *)
(* the memory, a firmware that is installed begins with all that one       *)
(* client sent.  An upload that ends with a size of 0 leaves nothing to    *)
(* install.                                                                *)
Promise == INSTANCE FirmwareInstalled
             WITH received <- IF server.done /\ server.size > 0
                              THEN Owner(server.size, buffer) ELSE None,
                  image <- IF flash.size = 0 THEN None ELSE Owner(flash.size, flash.blocks)
InstallsWhole == Promise!Spec

(* A transfer that has begun is completed if the client does not give up:  *)
(* a lost block or acknowledgement does not stop it, and a packet of a     *)
(* stranger only by a block that is refused, which leaves the port.        *)
Receiving(c) == daemon.state = "WRQ_RECV_PACKET" /\ daemon.port = c /\ client[c].phase = "sends"
TransferEnds ==
    \A c \in { v \in Valid \cap Clients : LastBlock(v) <= Blocks } :
        Receiving(c) ~> server.done \/ ~enabled \/ client[c].phase # "sends" \/ c \in left
=============================================================================
