-------------------------- MODULE TftpUploadProofs ---------------------------
(***************************************************************************)
(* TftpUpload keeps its types and its table of ports, and installs what    *)
(* was received whole, for any number of clients, sizes of firmware,       *)
(* blocks and packets on the way.                                          *)
(***************************************************************************)
EXTENDS TftpUpload, TLAPS

Phases == Busy \cup {"idle", "failed", "done"}
Answers == [op : {"ACK", "ERROR"}, block : Nat]
Senders == Clients \cup Strangers
Daemons(N) ==
    [state : {"INIT", "WAITING_RQ", "WRQ_RECV_PACKET"}, port : Locals \cup {0},
     from : Senders \cup {TFTP, 0}, block : N, last : BOOLEAN]
Servers == [size : 0 .. FLASH + 1, done : BOOLEAN]
Buffers == [1 .. Blocks -> Senders \cup {None}]
Tables == [Locals -> 0 .. MaxEntries]

(* A client sends to port 69 and from the port that the daemon takes over. *)
PacketsOf(c) == { m \in Packets : m.to \in {TFTP, c} }

(* The node, and the packets and the clients that it has to do with. *)
NodeType ==
    /\ bound \in Tables /\ left \subseteq Locals
    /\ enabled \in BOOLEAN
    /\ daemon \in Daemons(0 .. Blocks) /\ server \in Servers /\ buffer \in Buffers
    /\ daemon.state \in (IF enabled THEN {"WAITING_RQ", "WRQ_RECV_PACKET"} ELSE {"INIT"})

ClientType ==
    /\ client \in [Clients -> [phase : Phases, block : Nat]]
    /\ DOMAIN up = Clients /\ \A c \in Clients : up[c] \in Seq(PacketsOf(c))
    /\ down \in [Clients -> Seq(Answers)]
    /\ sessions \in 0 .. MaxSessions /\ strays \in 0 .. MaxStrays

(* A daemon that waits for a request does so at port 69, one that receives *)
(* has the port of a client.                                               *)
PortKnown(d) ==
    /\ d.state = "WAITING_RQ" => d.port = TFTP
    /\ d.state = "WRQ_RECV_PACKET" => d.port \in Clients

IInv == NodeType /\ ClientType /\ PortKnown(daemon) /\ PortsExact

-----------------------------------------------------------------------------
LEMMA LengthType ==
    ASSUME NEW c \in Clients, NEW n \in Nat
    PROVE  Length(c, n) \in 0 .. BLOCK
  BY UploadAssumption DEF Length, LastBlock

LEMMA OnTheWayType ==
    ASSUME NEW S, NEW packets \in Seq(S), NEW max \in Nat
    PROVE  OnTheWay(packets, max) \in Seq(S)
<1>1. CASE Len(packets) <= max
  BY <1>1 DEF OnTheWay
<1>2. CASE ~(Len(packets) <= max)
  <2>1. packets # << >>
    BY <1>2
  <2> QED  BY <1>2, <2>1 DEF OnTheWay
<1> QED  BY <1>1, <1>2

LEMMA SendType ==
    ASSUME ClientType, NEW c \in Clients, NEW m \in PacketsOf(c), Send(c, m)
    PROVE  DOMAIN up' = Clients /\ \A d \in Clients : up'[d] \in Seq(PacketsOf(d))
<1>1. Append(up[c], m) \in Seq(PacketsOf(c)) /\ MaxUp \in Nat
  BY UploadAssumption DEF ClientType
<1>2. OnTheWay(Append(up[c], m), MaxUp) \in Seq(PacketsOf(c))
  BY <1>1, OnTheWayType
<1> QED  BY <1>2 DEF ClientType, Send

LEMMA RequestType ==
    ASSUME NEW c \in Clients, NEW op \in {"WRQ", "RRQ"}
    PROVE  Request(op) \in PacketsOf(c)
  BY UploadAssumption DEF Request, Packets, PacketsOf, Locals

LEMMA DataType ==
    ASSUME NEW c \in Clients, NEW n \in Nat
    PROVE  Data(c, n) \in PacketsOf(c)
  BY LengthType DEF Data, Packets, PacketsOf, Locals

-----------------------------------------------------------------------------
(* The table of ports when port p is the daemon's, and l were left.        *)

Table(t, l, p) ==
    /\ t[p] > 0
    /\ \A q \in Locals : t[q] > 0 /\ q \notin l => q = p /\ t[q] = 1

LEMMA BeginType ==
    ASSUME NEW t \in Tables, NEW p \in Locals, NEW hole \in BOOLEAN
    PROVE  LET u == Begin(t, p, hole)
           IN  /\ u \in Tables /\ u[p] > 0 /\ (t[p] = 0 => u[p] = 1)
               /\ \A q \in Locals \ {p} : u[q] = t[q]
  BY UploadAssumption DEF Begin, Tables

LEMMA EndType ==
    ASSUME NEW t \in Tables, NEW f
    PROVE  LET u == End(t, f)
           IN  /\ u \in Tables
               /\ \A q \in Locals : u[q] = IF q = f /\ t[q] > 0 THEN t[q] - 1 ELSE t[q]
  BY UploadAssumption DEF End, Tables

(* From port p to port q: the daemon ends the port f of the last packet.   *)
LEMMA MoveTable ==
    ASSUME NEW t \in Tables, NEW l \in SUBSET Locals, NEW p \in Locals, NEW q \in Locals,
           p # q, Table(t, l, p), NEW hole \in BOOLEAN, NEW f
    PROVE  LET u == Begin(End(t, f), q, hole)
               k == IF f = p THEN l ELSE l \cup {p}
           IN  u \in Tables /\ Table(u, k, q)
<1> DEFINE e == End(t, f)
           u == Begin(e, q, hole)
           k == IF f = p THEN l ELSE l \cup {p}
<1>1. /\ e \in Tables
      /\ \A r \in Locals : e[r] = IF r = f /\ t[r] > 0 THEN t[r] - 1 ELSE t[r]
  BY EndType
<1> HIDE DEF e
<1>2. /\ u \in Tables /\ u[q] > 0 /\ (e[q] = 0 => u[q] = 1)
      /\ \A r \in Locals \ {q} : u[r] = e[r]
  BY <1>1, BeginType
<1> HIDE DEF u
<1>3. \A r \in Locals : t[r] \in Nat /\ e[r] \in Nat /\ u[r] \in Nat
  BY <1>1, <1>2 DEF Tables
<1>4. ASSUME NEW r \in Locals, u[r] > 0, r \notin k
      PROVE  r = q /\ u[r] = 1
  <2>1. r \notin l /\ (t[r] > 0 => r = p /\ t[r] = 1)
    BY <1>4 DEF Table
  <2>2. CASE r = q
    <3>1. t[r] = 0
      BY <1>3, <2>1, <2>2
    <3>2. e[r] = 0
      BY <1>1, <3>1
    <3> QED  BY <1>2, <2>2, <3>2
  <2>3. CASE r # q
    <3>1. u[r] = e[r]
      BY <1>2, <2>3
    <3>2. t[r] > 0
      BY <1>1, <1>3, <1>4, <3>1
    <3>3. r = p /\ t[r] = 1 /\ f = p
      BY <1>4, <2>1, <3>2
    <3>4. e[r] = 0
      BY <1>1, <3>3
    <3> QED  BY <1>4, <3>1, <3>4
  <2> QED  BY <2>2, <2>3
<1> QED  BY <1>2, <1>4 DEF Table, u, e

-----------------------------------------------------------------------------
(* What Input makes of the node: N are the block numbers of its daemon.    *)

States(N) ==
    [bound : Tables, left : SUBSET Locals, daemon : Daemons(N), server : Servers,
     buffer : Buffers, hole : BOOLEAN, sent : Seq(Answers)]

Good(s) ==
    /\ s \in States(0 .. Blocks)
    /\ s.daemon.state \in {"WAITING_RQ", "WRQ_RECV_PACKET"} /\ PortKnown(s.daemon)
    /\ Table(s.bound, s.left, s.daemon.port)

(* The daemon has the port of a client, and the last packet came from any. *)
Serves(s) ==
    /\ s.daemon.port \in Clients /\ s.daemon.from \in Senders
    /\ Table(s.bound, s.left, s.daemon.port)

SameService(s, w) ==
    /\ w.daemon.port = s.daemon.port /\ w.daemon.from = s.daemon.from
    /\ w.bound = s.bound /\ w.left = s.left

LEMMA FreshType ==
    /\ Fresh \in Daemons(0 .. Blocks) /\ Fresh.state = "WAITING_RQ" /\ Fresh.port = TFTP
    /\ Fresh.from = TFTP /\ Fresh.block = 0 /\ ~Fresh.last
  BY UploadAssumption DEF Fresh, Daemons, Locals

LEMMA RestartGood ==
    ASSUME NEW s \in States(Nat), Serves(s)
    PROVE  Good(Restart(s))
<1> DEFINE t == Begin(End(s.bound, s.daemon.from), TFTP, s.hole)
           l == Left(s.left, s.daemon)
<1>1. TFTP \notin Clients /\ Clients \subseteq Locals /\ TFTP \in Locals
  BY UploadAssumption DEF Locals
<1>2. /\ s.bound \in Tables /\ s.left \in SUBSET Locals /\ s.hole \in BOOLEAN
      /\ s.daemon.port \in Locals /\ s.daemon.port # TFTP
  BY <1>1 DEF States, Serves
<1>3. t \in Tables /\ Table(t, l, TFTP)
  BY <1>1, <1>2, MoveTable DEF Serves, Left
<1>4. l \in SUBSET Locals
  BY <1>2 DEF Left
<1>5. Restart(s) = [s EXCEPT !.bound = t, !.left = l, !.daemon = Fresh]
  BY DEF Restart, States
<1> HIDE DEF t, l
<1>6. /\ Restart(s) \in States(0 .. Blocks) /\ Restart(s).daemon = Fresh
      /\ Restart(s).bound = t /\ Restart(s).left = l
  BY <1>3, <1>4, <1>5, FreshType DEF States
<1> QED  BY <1>3, <1>6, FreshType DEF Good, PortKnown

LEMMA AnswerType ==
    ASSUME NEW N \in SUBSET Nat, NEW s \in States(N), NEW op \in {"ACK", "ERROR"}
    PROVE  LET w == Answer(s, op)
           IN  w \in States(N) /\ w.daemon = s.daemon /\ SameService(s, w)
<1>1. s.daemon.block \in Nat
  BY DEF States, Daemons
<1>2. <<[op |-> op, block |-> s.daemon.block]>> \in Seq(Answers)
  BY <1>1 DEF Answers
<1> QED  BY <1>2 DEF Answer, States, SameService

LEMMA ServesSame ==
    ASSUME NEW s, NEW w, Serves(s), SameService(s, w)
    PROVE  Serves(w)
  BY DEF Serves, SameService

LEMMA DoWriteAckGood ==
    ASSUME NEW s \in States(0 .. Blocks), Serves(s)
    PROVE  Good(DoWriteAck(s))
<1> DEFINE a == Answer(s, "ACK")
<1>1. a \in States(0 .. Blocks) /\ a.daemon = s.daemon /\ SameService(s, a)
  BY UploadAssumption, AnswerType
<1>2. a \in States(Nat)
  BY <1>1, UploadAssumption DEF States, Daemons
<1> HIDE DEF a
<1>3. CASE a.daemon.last
  BY <1>1, <1>2, <1>3, RestartGood, ServesSame DEF DoWriteAck, a
<1>4. CASE ~a.daemon.last
  <2> DEFINE d == [a.daemon EXCEPT !.state = "WRQ_RECV_PACKET"]
  <2>1. DoWriteAck(s) = [a EXCEPT !.daemon = d]
    BY <1>1, <1>4 DEF DoWriteAck, a, States
  <2>2. d \in Daemons(0 .. Blocks) /\ d.state = "WRQ_RECV_PACKET" /\ d.port = a.daemon.port
    BY <1>1 DEF States, Daemons
  <2> HIDE DEF d
  <2>3. /\ DoWriteAck(s) \in States(0 .. Blocks) /\ DoWriteAck(s).daemon = d
        /\ DoWriteAck(s).bound = a.bound /\ DoWriteAck(s).left = a.left
    BY <1>1, <2>1, <2>2 DEF States
  <2>4. d.port \in Clients /\ Table(a.bound, a.left, d.port)
    BY <1>1, <2>2, ServesSame DEF Serves
  <2> QED  BY <2>2, <2>3, <2>4 DEF Good, PortKnown
<1> QED  BY <1>3, <1>4

(* What a packet holds, whoever sent it. *)
Contents(m) ==
    m.op \in {"WRQ", "RRQ", "DATA", "OTHER"} /\ m.block \in Nat /\ m.length \in 0 .. BLOCK

(* A request comes to port 69. *)
LEMMA HandleRequestGood ==
    ASSUME NEW s \in States(0 .. Blocks), NEW m, Good(s), s.daemon.state = "WAITING_RQ",
           s.daemon.from \in Senders, m.op = "WRQ" => s.daemon.from \in Clients
    PROVE  Good(HandleRequest(s, m))
<1>1. CASE m.op # "WRQ"
  <2>1. HandleRequest(s, m) = Answer(s, "ERROR")
    BY <1>1 DEF HandleRequest
  <2>2. 0 .. Blocks \in SUBSET Nat
    BY UploadAssumption
  <2>3. /\ Answer(s, "ERROR") \in States(0 .. Blocks)
        /\ Answer(s, "ERROR").daemon = s.daemon /\ SameService(s, Answer(s, "ERROR"))
    BY <2>2, AnswerType
  <2> QED  BY <2>1, <2>3 DEF Good, SameService
<1>2. CASE m.op = "WRQ"
  <2> DEFINE r == [s EXCEPT !.server.size = 0, !.daemon.port = s.daemon.from,
                            !.bound = Begin(End(@, TFTP), s.daemon.from, s.hole)]
             v == [s.server EXCEPT !.size = 0]
             d == [s.daemon EXCEPT !.port = s.daemon.from]
             t == Begin(End(s.bound, TFTP), s.daemon.from, s.hole)
  <2>1. s.daemon.from \in Clients /\ TFTP \notin Clients /\ Locals = Clients \cup {TFTP}
    BY <1>2, UploadAssumption DEF Locals
  <2>2. s.daemon.port = TFTP /\ Table(s.bound, s.left, TFTP)
    BY DEF Good, PortKnown
  <2>3. s.bound \in Tables /\ s.left \in SUBSET Locals /\ s.hole \in BOOLEAN
    BY DEF States
  <2>4. t \in Tables /\ Table(t, s.left, s.daemon.from)
    <3>1. /\ TFTP \in Locals /\ s.daemon.from \in Locals /\ TFTP # s.daemon.from
      BY <2>1
    <3>2. LET k == IF TFTP = TFTP THEN s.left ELSE s.left \cup {TFTP}
          IN  t \in Tables /\ Table(t, k, s.daemon.from)
      BY <2>2, <2>3, <3>1, MoveTable
    <3> QED  BY <3>2
  <2>5. v \in Servers
    BY UploadAssumption DEF States, Servers
  <2>6. d \in Daemons(0 .. Blocks) /\ d.port = s.daemon.from /\ d.from = s.daemon.from
    BY <2>1 DEF States, Daemons
  <2>7. r = [s EXCEPT !.server = v, !.daemon = d, !.bound = t]
    BY DEF States
  <2>8. HandleRequest(s, m) = DoWriteAck(r)
    BY <1>2 DEF HandleRequest
  <2> HIDE DEF v, d, t, r
  <2>9. /\ r \in States(0 .. Blocks) /\ r.daemon = d /\ r.bound = t
        /\ r.left = s.left
    BY <2>4, <2>5, <2>6, <2>7 DEF States
  <2>10. Serves(r)
    BY <2>1, <2>4, <2>6, <2>9 DEF Serves
  <2> QED  BY <2>8, <2>9, <2>10, DoWriteAckGood
<1> QED  BY <1>1, <1>2

LEMMA WrittenType ==
    ASSUME NEW s \in States(0 .. Blocks), NEW m, Contents(m),
           s.daemon.from \in Senders, CanWrite(s.daemon.from, m.block)
    PROVE  LET w == Written(s, m)
           IN  w \in States(0 .. Blocks) /\ SameService(s, w)
<1> DEFINE b == IF m.length = 0 THEN s.buffer[m.block] ELSE s.daemon.from
           g == Grown(s.server.size, m.length)
           buffer2 == [s.buffer EXCEPT ![m.block] = b]
           daemon2 == [s.daemon EXCEPT !.block = m.block]
           server2 == [s.server EXCEPT !.size = g]
<1>1. m.block \in 0 .. Blocks /\ m.length \in Nat
  BY UploadAssumption DEF CanWrite, Contents
<1>2. g \in 0 .. FLASH + 1
  BY <1>1, UploadAssumption DEF Grown, States, Servers
<1>3. buffer2 \in Buffers
  <2>1. s.buffer \in [1 .. Blocks -> Senders \cup {None}]
    BY DEF States, Buffers
  <2>2. m.block \in 1 .. Blocks => b \in Senders \cup {None}
    BY <2>1
  <2> HIDE DEF b
  <2> QED  BY <2>1, <2>2 DEF Buffers
<1>4. /\ daemon2 \in Daemons(0 .. Blocks) /\ daemon2.from = s.daemon.from
      /\ daemon2.port = s.daemon.port
  BY <1>1 DEF States, Daemons
<1>5. server2 \in Servers
  BY <1>2 DEF States, Servers
<1>6. Written(s, m) = [s EXCEPT !.daemon = daemon2, !.server = server2, !.buffer = buffer2]
  BY DEF Written, States
<1> HIDE DEF daemon2, server2, buffer2
<1> QED  BY <1>3, <1>4, <1>5, <1>6 DEF States, SameService

LEMMA ClosedType ==
    ASSUME NEW s \in States(0 .. Blocks), NEW m
    PROVE  LET w == Closed(s, m)
           IN  w \in States(0 .. Blocks) /\ SameService(s, w)
  BY DEF Closed, States, Daemons, Servers, SameService

LEMMA RefuseType ==
    ASSUME NEW s \in States(0 .. Blocks), NEW m, Contents(m)
    PROVE  LET w == Refuse(s, m)
           IN  w \in States(Nat) /\ SameService(s, w)
<1> DEFINE daemon2 == [s.daemon EXCEPT !.block = m.block]
           server2 == [s.server EXCEPT !.size = IF m.block > Blocks THEN 0 ELSE @]
<1>1. /\ daemon2 \in Daemons(Nat) /\ daemon2.from = s.daemon.from
      /\ daemon2.port = s.daemon.port
  BY DEF States, Daemons, Contents
<1>2. server2 \in Servers
  BY UploadAssumption DEF States, Servers
<1>3. Refuse(s, m) = [s EXCEPT !.daemon = daemon2, !.server = server2]
  BY DEF Refuse, States
<1> HIDE DEF daemon2, server2
<1> QED  BY <1>1, <1>2, <1>3 DEF States, SameService

(* An empty block that is refused ends the file. *)
LEMMA ClosedEmptyType ==
    ASSUME NEW s \in States(Nat), NEW m, m.length = 0
    PROVE  LET w == Closed(s, m)
           IN  w \in States(Nat) /\ SameService(s, w) /\ w.daemon.last
<1> DEFINE daemon2 == [s.daemon EXCEPT !.last = TRUE]
           server2 == [s.server EXCEPT !.done = TRUE]
<1>1. m.length < BLOCK
  BY UploadAssumption
<1>2. Closed(s, m) = [s EXCEPT !.daemon = daemon2, !.server = server2]
  BY <1>1 DEF Closed, States
<1>3. /\ daemon2 \in Daemons(Nat) /\ daemon2.from = s.daemon.from
      /\ daemon2.port = s.daemon.port /\ daemon2.last
  BY DEF States, Daemons
<1>4. server2 \in Servers
  BY DEF States, Servers
<1> HIDE DEF daemon2, server2
<1> QED  BY <1>2, <1>3, <1>4 DEF States, SameService

(* A packet of any sender to a daemon that receives. *)
LEMMA HandleRecvDataGood ==
    ASSUME NEW s \in States(0 .. Blocks), NEW m, Contents(m),
           s.daemon.state = "WRQ_RECV_PACKET", Serves(s)
    PROVE  Good(HandleRecvData(s, m))
<1>1. CASE m.op # "DATA"
  BY <1>1 DEF HandleRecvData, Good, Serves, PortKnown
<1>2. CASE m.op = "DATA" /\ CanWrite(s.daemon.from, m.block)
  <2> DEFINE w == Written(s, m)
             x == Closed(w, m)
  <2>1. w \in States(0 .. Blocks) /\ SameService(s, w)
    BY <1>2, WrittenType DEF Serves
  <2>2. HandleRecvData(s, m) = DoWriteAck(x)
    BY <1>2 DEF HandleRecvData
  <2> HIDE DEF w
  <2>3. x \in States(0 .. Blocks) /\ SameService(w, x)
    BY <2>1, ClosedType
  <2> HIDE DEF x
  <2>4. Serves(x)
    BY <2>1, <2>3, ServesSame
  <2> QED  BY <2>2, <2>3, <2>4, DoWriteAckGood
<1>3. CASE m.op = "DATA" /\ ~CanWrite(s.daemon.from, m.block)
  <2> DEFINE w == Refuse(s, m)
  <2>1. w \in States(Nat) /\ Serves(w)
    BY RefuseType, ServesSame
  <2>2. HandleRecvData(s, m)
        = IF m.length = 0 THEN DoWriteAck(Closed(w, m)) ELSE Restart(Answer(w, "ERROR"))
    BY <1>3 DEF HandleRecvData
  <2> HIDE DEF w
  <2>3. CASE m.length # 0
    <3> DEFINE e == Answer(w, "ERROR")
    <3>1. e \in States(Nat) /\ SameService(w, e)
      BY <2>1, AnswerType
    <3> HIDE DEF e
    <3>2. Good(Restart(e))
      BY <2>1, <3>1, RestartGood, ServesSame
    <3> QED  BY <2>2, <2>3, <3>2 DEF e
  <2>4. CASE m.length = 0
    <3> DEFINE x == Closed(w, m)
               a == Answer(x, "ACK")
    <3>1. x \in States(Nat) /\ SameService(w, x) /\ x.daemon.last
      BY <2>1, <2>4, ClosedEmptyType
    <3> HIDE DEF x
    <3>2. a \in States(Nat) /\ a.daemon = x.daemon /\ SameService(x, a)
      BY <3>1, AnswerType
    <3>3. DoWriteAck(x) = Restart(a)
      BY <3>1, <3>2 DEF DoWriteAck
    <3> HIDE DEF a
    <3>4. Serves(a)
      BY <2>1, <3>1, <3>2, ServesSame
    <3>5. Good(Restart(a))
      BY <3>2, <3>4, RestartGood
    <3> QED  BY <2>2, <2>4, <3>3, <3>5 DEF x
  <2> QED  BY <2>3, <2>4
<1> QED  BY <1>1, <1>2, <1>3

(* The record that Input starts from. *)
LEMMA InputRecord ==
    ASSUME NodeType, NEW from \in Senders, NEW hole \in BOOLEAN
    PROVE  LET s == [Node(hole) EXCEPT !.daemon.from = from]
           IN  /\ s \in States(0 .. Blocks) /\ s \in States(Nat)
               /\ s.daemon = [daemon EXCEPT !.from = from]
               /\ s.server = server /\ s.buffer = buffer /\ s.sent = << >>
               /\ s.bound = bound /\ s.left = left
<1> DEFINE daemon2 == [daemon EXCEPT !.from = from]
           s == [Node(hole) EXCEPT !.daemon.from = from]
<1>1. << >> \in Seq(Answers)
  OBVIOUS
<1>2. daemon2 \in Daemons(0 .. Blocks) /\ daemon2 \in Daemons(Nat)
  BY UploadAssumption DEF NodeType, Daemons
<1>3. s = [bound |-> bound, left |-> left, daemon |-> daemon2, server |-> server,
           buffer |-> buffer, hole |-> hole, sent |-> << >>]
  BY DEF Node
<1> HIDE DEF daemon2
<1>4. /\ s \in States(0 .. Blocks) /\ s \in States(Nat) /\ s.daemon = daemon2
      /\ s.server = server /\ s.buffer = buffer /\ s.sent = << >>
      /\ s.bound = bound /\ s.left = left
  <2> HIDE DEF s
  <2> QED  BY <1>1, <1>2, <1>3 DEF NodeType, States
<1> QED  BY <1>4 DEF daemon2

LEMMA InputGood ==
    ASSUME NodeType, PortKnown(daemon), PortsExact, enabled,
           NEW from \in Senders, NEW m, Contents(m), m.op = "WRQ" => from \in Clients,
           NEW hole \in BOOLEAN
    PROVE  Good(Input(from, m, hole))
<1> DEFINE s == [Node(hole) EXCEPT !.daemon.from = from]
<1>1. /\ s \in States(0 .. Blocks) /\ s.daemon = [daemon EXCEPT !.from = from]
      /\ s.bound = bound /\ s.left = left
  BY InputRecord
<1>2. /\ s.daemon.from = from /\ s.daemon.state = daemon.state /\ s.daemon.port = daemon.port
  BY <1>1 DEF NodeType, Daemons
<1>3. daemon.state \in {"WAITING_RQ", "WRQ_RECV_PACKET"}
  BY DEF NodeType
<1>4. Table(s.bound, s.left, s.daemon.port) /\ PortKnown(s.daemon)
  BY <1>1, <1>2 DEF PortsExact, Table, PortKnown
<1>5. CASE daemon.state = "WAITING_RQ"
  <2>1. Input(from, m, hole) = IF Short(m) THEN s ELSE HandleRequest(s, m)
    BY <1>5 DEF Input
  <2> HIDE DEF s
  <2>2. Good(s)
    BY <1>1, <1>2, <1>3, <1>4 DEF Good
  <2>3. s.daemon.from \in Senders /\ (m.op = "WRQ" => s.daemon.from \in Clients)
    BY <1>2
  <2>4. Good(HandleRequest(s, m))
    BY <1>1, <1>2, <1>5, <2>2, <2>3, HandleRequestGood
  <2> QED  BY <2>1, <2>2, <2>4
<1>6. CASE daemon.state = "WRQ_RECV_PACKET"
  <2>1. Input(from, m, hole) = HandleRecvData(s, m)
    BY <1>6 DEF Input
  <2> HIDE DEF s
  <2>2. Serves(s)
    BY <1>2, <1>4, <1>6 DEF Serves, PortKnown
  <2>3. Good(HandleRecvData(s, m))
    BY <1>1, <1>2, <1>6, <2>2, HandleRecvDataGood
  <2> QED  BY <2>1, <2>3
<1> QED  BY <1>3, <1>5, <1>6

(* A good state is taken over. *)
LEMMA TakesGood ==
    ASSUME enabled, NEW s, Good(s), Takes(s), UNCHANGED enabled
    PROVE  NodeType' /\ PortKnown(daemon)' /\ PortsExact'
<1>1. /\ bound' = s.bound /\ left' = s.left /\ daemon' = s.daemon
      /\ server' = s.server /\ buffer' = s.buffer
  BY DEF Takes
<1>2. NodeType'
  BY <1>1 DEF Good, States, NodeType
<1>3. PortKnown(daemon)'
  BY <1>1 DEF Good, PortKnown
<1>4. PortsExact'
  <2>1. daemon'.state = "WAITING_RQ" \/ daemon'.state = "WRQ_RECV_PACKET"
    BY <1>1 DEF Good
  <2>2. TFTP \notin Clients
    BY UploadAssumption
  <2>3. daemon'.port = TFTP <=> daemon'.state = "WAITING_RQ"
    BY <1>3, <2>1, <2>2 DEF PortKnown
  <2> QED  BY <1>1, <2>3 DEF Good, Table, PortsExact
<1> QED  BY <1>2, <1>3, <1>4

-----------------------------------------------------------------------------
LEMMA InitInv == Init => IInv
<1> SUFFICES ASSUME Init PROVE IInv
  OBVIOUS
<1>1. NodeType
  <2>1. NoDaemon \in Daemons(0 .. Blocks) /\ NoDaemon.state = "INIT" /\ NewServer \in Servers
    BY UploadAssumption DEF NoDaemon, NewServer, Daemons, Servers
  <2>2. bound \in Tables
    BY UploadAssumption DEF Init, Tables
  <2> QED  BY <2>1, <2>2 DEF Init, NodeType, Buffers
<1>2. ClientType
  BY UploadAssumption DEF Init, ClientType, Phases
<1>3. PortKnown(daemon) /\ PortsExact
  BY DEF Init, PortKnown, PortsExact, NoDaemon
<1> QED  BY <1>1, <1>2, <1>3 DEF IInv

(* The steps of the clients and of their network leave the node alone. *)
LEMMA NodeKept ==
    ASSUME IInv, UNCHANGED node
    PROVE  NodeType' /\ PortKnown(daemon)' /\ PortsExact'
  BY DEF IInv, node, NodeType, PortKnown, PortsExact

LEMMA ContentsOf ==
    /\ \A m \in Packets : Contents(m)
    /\ \A m \in Strays : Contents(m) /\ m.from \in Strangers /\ m.op \in {"DATA", "OTHER"}
  BY UploadAssumption DEF Contents, Packets, StrayPackets

LEMMA ArrivesInv ==
    ASSUME IInv, NEW c \in Clients, Arrives(c)
    PROVE  IInv'
<1> DEFINE m == Head(up[c])
<1>1. m \in PacketsOf(c) /\ Tail(up[c]) \in Seq(PacketsOf(c))
  BY DEF IInv, ClientType, Arrives
<1>2. DOMAIN up' = Clients /\ \A d \in Clients : up'[d] \in Seq(PacketsOf(d))
  BY <1>1 DEF IInv, ClientType, Arrives
<1>3. CASE bound[m.to] = 0
  <2>1. UNCHANGED node /\ UNCHANGED <<client, down, sessions, strays>>
    BY <1>3 DEF Arrives, node
  <2> QED  BY <1>2, <2>1, NodeKept DEF IInv, ClientType
<1>4. CASE bound[m.to] # 0
  <2>1. enabled /\ UNCHANGED <<enabled, client, sessions, strays>>
    BY <1>4 DEF Arrives
  <2>2. PICK hole \in BOOLEAN :
           /\ Takes(Input(c, m, hole))
           /\ down' = [down EXCEPT ![c] = OnTheWay(@ \o Input(c, m, hole).sent, MaxDown)]
    BY <1>4 DEF Arrives
  <2> DEFINE s == Input(c, m, hole)
  <2>3. Good(s)
    <3>1. m \in Packets
      BY <1>1 DEF PacketsOf
    <3>2. Contents(m) /\ c \in Senders
      BY <3>1, ContentsOf DEF Senders
    <3> QED  BY <2>1, <3>2, InputGood DEF IInv
  <2>4. down' = [down EXCEPT ![c] = OnTheWay(@ \o s.sent, MaxDown)] /\ Takes(s)
    BY <2>2
  <2> HIDE DEF s, m
  <2>5. OnTheWay(down[c] \o s.sent, MaxDown) \in Seq(Answers)
    <3>1. down[c] \o s.sent \in Seq(Answers) /\ MaxDown \in Nat
      BY <2>3, UploadAssumption DEF IInv, ClientType, Good, States
    <3> QED  BY <3>1, OnTheWayType
  <2>6. ClientType'
    BY <1>2, <2>1, <2>4, <2>5 DEF IInv, ClientType
  <2>7. NodeType' /\ PortKnown(daemon)' /\ PortsExact'
    BY <2>1, <2>3, <2>4, TakesGood
  <2> QED  BY <2>6, <2>7 DEF IInv
<1> QED  BY <1>3, <1>4

(* A stranger's packet is as good as a client's. *)
LEMMA StrayInv ==
    ASSUME IInv, NEW m \in Strays, Stray(m)
    PROVE  IInv'
<1>1. /\ enabled /\ UNCHANGED <<enabled, client, up, down, sessions>>
      /\ strays < MaxStrays /\ strays' = strays + 1
  BY DEF Stray
<1>2. PICK hole \in BOOLEAN : Takes(Input(m.from, m, hole))
  BY DEF Stray
<1>3. Contents(m) /\ m.from \in Senders /\ m.op # "WRQ"
  BY ContentsOf DEF Senders
<1>4. Good(Input(m.from, m, hole))
  BY <1>1, <1>3, InputGood DEF IInv
<1>5. NodeType' /\ PortKnown(daemon)' /\ PortsExact'
  BY <1>1, <1>2, <1>4, TakesGood
<1>6. ClientType'
  BY <1>1, UploadAssumption DEF IInv, ClientType
<1> QED  BY <1>5, <1>6 DEF IInv

LEMMA SwitchInv == ASSUME IInv, SwitchOn \/ SwitchOff PROVE IInv'
<1>1. ClientType'
  BY UploadAssumption DEF IInv, ClientType, SwitchOn, SwitchOff
<1>0. TFTP \in Locals
  BY DEF Locals
<1>2. CASE SwitchOn
  <2>1. PICK hole \in BOOLEAN : bound' = Begin(bound, TFTP, hole)
    BY <1>2 DEF SwitchOn
  <2>2. /\ ~enabled /\ enabled' /\ daemon' = Fresh /\ server' = NewServer
        /\ left' = left /\ buffer' = buffer /\ bound \in Tables
    BY <1>2 DEF SwitchOn, IInv, NodeType
  <2>3. /\ bound' \in Tables /\ bound'[TFTP] > 0 /\ (bound[TFTP] = 0 => bound'[TFTP] = 1)
        /\ \A q \in Locals \ {TFTP} : bound'[q] = bound[q]
    BY <1>0, <2>1, <2>2, BeginType
  <2>4. NodeType'
    <3>1. NewServer \in Servers
      BY UploadAssumption DEF NewServer, Servers
    <3>2. enabled' \in BOOLEAN /\ left' \subseteq Locals /\ buffer' \in Buffers
      BY <1>2, <2>2 DEF IInv, NodeType, SwitchOn
    <3>3. daemon'.state \in (IF enabled' THEN {"WAITING_RQ", "WRQ_RECV_PACKET"} ELSE {"INIT"})
      BY <2>2, FreshType
    <3>4. daemon' \in Daemons(0 .. Blocks) /\ server' \in Servers /\ bound' \in Tables
      BY <2>2, <2>3, <3>1, FreshType
    <3> QED  BY <3>2, <3>3, <3>4, Zenon DEF NodeType
  <2>5. PortKnown(daemon)'
    BY <2>2, FreshType DEF PortKnown
  <2>6. PortsExact'
    <3>1. \A p \in Locals : bound[p] > 0 => p \in left
      BY <2>2 DEF IInv, PortsExact
    <3>2. \A p \in Locals : bound[p] \in Nat
      BY <2>2 DEF Tables
    <3>3. ASSUME NEW p \in Locals, bound'[p] > 0, p \notin left
          PROVE  p = TFTP /\ bound'[p] = 1
      BY <2>3, <3>1, <3>2, <3>3
    <3> QED  BY <2>2, <2>3, <3>3, FreshType DEF PortsExact
  <2> QED  BY <1>1, <2>4, <2>5, <2>6 DEF IInv
<1>3. CASE SwitchOff
  <2>1. /\ enabled /\ ~enabled' /\ daemon' = NoDaemon /\ server' = NewServer
        /\ bound' = End(bound, daemon.from) /\ left' = Left(left, daemon)
        /\ buffer' = buffer /\ bound \in Tables
    BY <1>3 DEF SwitchOff, IInv, NodeType
  <2>2. /\ bound' \in Tables
        /\ \A q \in Locals : bound'[q] = IF q = daemon.from /\ bound[q] > 0
                                         THEN bound[q] - 1 ELSE bound[q]
    BY <2>1, EndType
  <2>3. daemon.port \in Locals
    BY <2>1 DEF IInv, NodeType, PortKnown, Locals
  <2>4. NodeType'
    <3>1. NoDaemon \in Daemons(0 .. Blocks) /\ NoDaemon.state = "INIT" /\ NewServer \in Servers
      BY UploadAssumption DEF NoDaemon, NewServer, Daemons, Servers
    <3>2. left' \subseteq Locals
      BY <2>1, <2>3 DEF IInv, NodeType, Left
    <3>3. enabled' \in BOOLEAN /\ buffer' \in Buffers
      BY <1>3, <2>1 DEF IInv, NodeType, SwitchOff
    <3>4. daemon'.state \in (IF enabled' THEN {"WAITING_RQ", "WRQ_RECV_PACKET"} ELSE {"INIT"})
      BY <2>1, <3>1
    <3>5. daemon' \in Daemons(0 .. Blocks) /\ server' \in Servers /\ bound' \in Tables
      BY <2>1, <2>2, <3>1
    <3> QED  BY <3>2, <3>3, <3>4, <3>5, Zenon DEF NodeType
  <2>5. PortKnown(daemon)'
    BY <2>1 DEF PortKnown, NoDaemon
  <2>6. PortsExact'
    <3>1. ASSUME NEW p \in Locals, bound'[p] > 0, p \notin left'
          PROVE  FALSE
      <4>1. bound[p] \in Nat
        BY <2>1 DEF Tables
      <4>2. bound[p] > 0 /\ p \notin left /\ (daemon.from # daemon.port => p # daemon.port)
        BY <2>1, <2>2, <3>1, <4>1 DEF Left
      <4>3. p = daemon.port /\ bound[p] = 1
        BY <4>2 DEF IInv, PortsExact
      <4>4. bound'[p] = 0
        BY <2>2, <4>2, <4>3
      <4> QED  BY <3>1, <4>4
    <3> QED  BY <2>1, <3>1 DEF PortsExact
  <2> QED  BY <1>1, <2>4, <2>5, <2>6 DEF IInv
<1> QED  BY <1>2, <1>3

LEMMA ClientStepInv ==
    ASSUME IInv, NEW c \in Clients,
           \/ Start(c) \/ Repeat(c) \/ GiveUp(c)
           \/ Acknowledged(c) \/ Failed(c) \/ LoseUp(c) \/ LoseDown(c)
    PROVE  IInv'
<1>1. UNCHANGED node /\ UNCHANGED <<sessions, strays>>
  BY DEF Start, Repeat, GiveUp, Acknowledged, Failed, LoseUp, LoseDown
<1>2. ClientType
  BY DEF IInv
<1>3. client[c].block \in Nat /\ client[c].phase \in Phases
  BY <1>2 DEF ClientType
<1>4. ASSUME \/ \E op \in {"WRQ", "RRQ"} : Send(c, Request(op))
             \/ \E n \in Nat : Send(c, Data(c, n))
             \/ UNCHANGED up
             \/ up[c] # << >> /\ up' = [up EXCEPT ![c] = Tail(@)]
      PROVE  DOMAIN up' = Clients /\ \A d \in Clients : up'[d] \in Seq(PacketsOf(d))
  <2>1. CASE \E op \in {"WRQ", "RRQ"} : Send(c, Request(op))
    BY <1>2, <2>1, RequestType, SendType
  <2>2. CASE \E n \in Nat : Send(c, Data(c, n))
    BY <1>2, <2>2, DataType, SendType
  <2>3. CASE UNCHANGED up
    BY <1>2, <2>3 DEF ClientType
  <2>4. CASE up[c] # << >> /\ up' = [up EXCEPT ![c] = Tail(@)]
    BY <1>2, <2>4 DEF ClientType
  <2> QED  BY <1>4, <2>1, <2>2, <2>3, <2>4
<1>5. DOMAIN up' = Clients /\ \A d \in Clients : up'[d] \in Seq(PacketsOf(d))
  <2>1. CASE Start(c)
    BY <1>4, <2>1 DEF Start
  <2>2. CASE Repeat(c)
    BY <1>3, <1>4, <2>2 DEF Repeat
  <2>3. CASE GiveUp(c) \/ Failed(c) \/ LoseDown(c)
    BY <1>4, <2>3 DEF GiveUp, Failed, LoseDown
  <2>4. CASE Acknowledged(c)
    BY <1>3, <1>4, <2>4 DEF Acknowledged
  <2>5. CASE LoseUp(c)
    BY <1>4, <2>5 DEF LoseUp
  <2> QED  BY <2>1, <2>2, <2>3, <2>4, <2>5
<1>6. client' \in [Clients -> [phase : Phases, block : Nat]]
  <2>1. ASSUME NEW r \in [phase : Phases, block : Nat],
               client' = [client EXCEPT ![c] = r]
        PROVE  client' \in [Clients -> [phase : Phases, block : Nat]]
    BY <1>2, <2>1 DEF ClientType
  <2>2. CASE Start(c)
    <3>1. /\ [phase |-> "asks", block |-> 0] \in [phase : Phases, block : Nat]
          /\ [phase |-> "asks other", block |-> 0] \in [phase : Phases, block : Nat]
      BY DEF Phases, Busy
    <3>2. \/ client' = [client EXCEPT ![c] = [phase |-> "asks", block |-> 0]]
          \/ client' = [client EXCEPT ![c] = [phase |-> "asks other", block |-> 0]]
      BY <2>2 DEF Start
    <3> QED  BY <2>1, <3>1, <3>2
  <2>3. CASE Repeat(c) \/ LoseUp(c) \/ LoseDown(c)
    BY <1>2, <2>3 DEF ClientType, Repeat, LoseUp, LoseDown
  <2>4. CASE GiveUp(c) \/ Failed(c)
    BY <1>2, <2>4 DEF ClientType, Phases, Busy, GiveUp, Failed
  <2>5. CASE Acknowledged(c)
    <3>1. client[c].block + 1 \in Nat
      BY <1>3
    <3>2. "sends" \in Phases /\ "done" \in Phases
      BY DEF Phases, Busy
    <3>3. \/ client' = [client EXCEPT ![c].phase = "done"]
          \/ client' = [client EXCEPT ![c].phase = "sends", ![c].block = @ + 1]
          \/ UNCHANGED client
      BY <2>5 DEF Acknowledged
    <3>4. CASE client' = [client EXCEPT ![c].phase = "done"]
      BY <1>2, <3>2, <3>4 DEF ClientType
    <3>5. CASE client' = [client EXCEPT ![c].phase = "sends", ![c].block = @ + 1]
      BY <1>2, <3>1, <3>2, <3>5 DEF ClientType
    <3>6. CASE UNCHANGED client
      BY <1>2, <3>6 DEF ClientType
    <3> QED  BY <3>3, <3>4, <3>5, <3>6
  <2> QED  BY <2>2, <2>3, <2>4, <2>5
<1>7. down' \in [Clients -> Seq(Answers)]
  <2>1. CASE UNCHANGED down
    BY <1>2, <2>1 DEF ClientType
  <2>2. CASE down[c] # << >> /\ down' = [down EXCEPT ![c] = Tail(@)]
    <3>1. down[c] \in Seq(Answers)
      BY <1>2 DEF ClientType
    <3>2. Tail(down[c]) \in Seq(Answers)
      BY <2>2, <3>1
    <3> QED  BY <1>2, <2>2, <3>2 DEF ClientType
  <2>3. \/ UNCHANGED down
        \/ down[c] # << >> /\ down' = [down EXCEPT ![c] = Tail(@)]
    BY DEF Start, Repeat, GiveUp, Acknowledged, Failed, LoseUp, LoseDown
  <2> QED  BY <2>1, <2>2, <2>3
<1>8. ClientType'
  BY <1>1, <1>2, <1>5, <1>6, <1>7 DEF ClientType
<1> QED  BY <1>1, <1>8, NodeKept DEF IInv

LEMMA StepInv == IInv /\ [Next]_vars => IInv'
<1> SUFFICES ASSUME IInv, [Next]_vars PROVE IInv'
  OBVIOUS
<1>1. CASE UNCHANGED vars
  <2>1. UNCHANGED node /\ UNCHANGED <<client, up, down, sessions, strays>>
    BY <1>1 DEF vars, node
  <2> QED  BY <2>1, NodeKept DEF IInv, ClientType
<1>2. CASE SwitchOn \/ SwitchOff
  BY <1>2, SwitchInv
<1>3. CASE \E c \in Clients : Arrives(c)
  BY <1>3, ArrivesInv
<1>5. CASE \E m \in Strays : Stray(m)
  BY <1>5, StrayInv
<1>4. CASE \E c \in Clients :
             \/ Start(c) \/ Repeat(c) \/ GiveUp(c)
             \/ Acknowledged(c) \/ Failed(c) \/ LoseUp(c) \/ LoseDown(c)
  BY <1>4, ClientStepInv
<1> QED  BY <1>1, <1>2, <1>3, <1>4, <1>5 DEF Next

LEMMA InvAlways == Spec => []IInv
  BY InitInv, StepInv, PTL DEF Spec

-----------------------------------------------------------------------------
(* Blocks, sizes and packets are of their types; the block number of the   *)
(* daemon never passes the memory.                                         *)
THEOREM UploadTypeCorrect == Spec => []TypeOK
<1>1. IInv => TypeOK
  <2> SUFFICES ASSUME IInv PROVE TypeOK
    OBVIOUS
  <2>1. \A c \in Clients : \A i \in 1 .. Len(up[c]) : up[c][i] \in Packets
    <3> TAKE c \in Clients
    <3>1. up[c] \in Seq(PacketsOf(c))
      BY DEF IInv, ClientType
    <3> QED  BY <3>1 DEF PacketsOf
  <2> QED  BY <2>1 DEF IInv, NodeType, ClientType, TypeOK, Daemons, Servers, Buffers, Tables, Senders
<1> QED  BY <1>1, InvAlways, PTL

(* Whoever sends to the node, the daemon is reachable at the port that it  *)
(* waits on, and the other entries of the table are of ports that were     *)
(* left: the port of another sender was ended in their place.              *)
THEOREM PortsAreExact == Spec => []PortsExact
<1>1. IInv => PortsExact
  BY DEF IInv
<1> QED  BY <1>1, InvAlways, PTL

-----------------------------------------------------------------------------
(* What the operators of the daemon do to the parts of its record.         *)

LEMMA AnswerFields ==
    ASSUME NEW s \in States(Nat), NEW op \in {"ACK", "ERROR"}
    PROVE  /\ Answer(s, op) \in States(Nat)
           /\ Answer(s, op).daemon = s.daemon /\ Answer(s, op).server = s.server
           /\ Answer(s, op).buffer = s.buffer
           /\ Answer(s, op).sent = <<[op |-> op, block |-> s.daemon.block]>>
<1>1. Answer(s, op) \in States(Nat)
  <2>1. Nat \in SUBSET Nat
    OBVIOUS
  <2> QED  BY <2>1, AnswerType
<1> QED  BY <1>1 DEF Answer, States

LEMMA RestartFields ==
    ASSUME NEW s \in States(Nat)
    PROVE  /\ Restart(s).daemon = Fresh /\ Restart(s).server = s.server
           /\ Restart(s).buffer = s.buffer /\ Restart(s).sent = s.sent
  BY DEF Restart, States

LEMMA DoWriteAckFields ==
    ASSUME NEW s \in States(Nat)
    PROVE  /\ DoWriteAck(s).daemon = IF s.daemon.last THEN Fresh
                                     ELSE [s.daemon EXCEPT !.state = "WRQ_RECV_PACKET"]
           /\ DoWriteAck(s).server = s.server /\ DoWriteAck(s).buffer = s.buffer
           /\ DoWriteAck(s).sent = <<[op |-> "ACK", block |-> s.daemon.block]>>
<1> DEFINE a == Answer(s, "ACK")
<1>1. /\ a \in States(Nat) /\ a.daemon = s.daemon /\ a.server = s.server
      /\ a.buffer = s.buffer /\ a.sent = <<[op |-> "ACK", block |-> s.daemon.block]>>
  BY AnswerFields
<1>2. DoWriteAck(s) = IF a.daemon.last THEN Restart(a)
                      ELSE [a EXCEPT !.daemon.state = "WRQ_RECV_PACKET"]
  BY DEF DoWriteAck
<1> HIDE DEF a
<1>3. CASE s.daemon.last
  BY <1>1, <1>2, <1>3, RestartFields
<1>4. CASE ~s.daemon.last
  <2> DEFINE daemon2 == [a.daemon EXCEPT !.state = "WRQ_RECV_PACKET"]
  <2>1. DoWriteAck(s) = [a EXCEPT !.daemon = daemon2]
    BY <1>1, <1>2, <1>4 DEF States
  <2>2. daemon2 = [s.daemon EXCEPT !.state = "WRQ_RECV_PACKET"]
    BY <1>1
  <2> HIDE DEF daemon2
  <2> QED  BY <1>1, <1>4, <2>1, <2>2 DEF States
<1> QED  BY <1>3, <1>4

LEMMA WrittenFields ==
    ASSUME NEW s \in States(Nat), NEW m
    PROVE  LET w == Written(s, m)
           IN  /\ w.daemon = [s.daemon EXCEPT !.block = m.block]
               /\ w.server = [s.server EXCEPT !.size = Grown(@, m.length)]
               /\ w.buffer = IF m.length = 0 THEN s.buffer
                             ELSE [s.buffer EXCEPT ![m.block] = s.daemon.from]
<1> DEFINE daemon2 == [s.daemon EXCEPT !.block = m.block]
           server2 == [s.server EXCEPT !.size = Grown(@, m.length)]
           buffer2 == [s.buffer EXCEPT ![m.block] = IF m.length = 0 THEN @ ELSE s.daemon.from]
<1>1. Written(s, m) = [s EXCEPT !.daemon = daemon2, !.server = server2, !.buffer = buffer2]
  BY DEF Written, States
<1>2. buffer2 = IF m.length = 0 THEN s.buffer
                ELSE [s.buffer EXCEPT ![m.block] = s.daemon.from]
  BY DEF States, Buffers
<1> HIDE DEF buffer2
<1> QED  BY <1>1, <1>2 DEF States

LEMMA RefuseFields ==
    ASSUME NEW s \in States(Nat), NEW m
    PROVE  LET w == Refuse(s, m)
           IN  /\ w.daemon = [s.daemon EXCEPT !.block = m.block]
               /\ w.server = [s.server EXCEPT !.size = IF m.block > Blocks THEN 0 ELSE @]
               /\ w.buffer = s.buffer
  BY DEF Refuse, States

LEMMA ClosedFields ==
    ASSUME NEW s \in States(Nat), NEW m, m.length \in Nat
    PROVE  LET w == Closed(s, m)
           IN  /\ w \in States(Nat) /\ w.buffer = s.buffer
               /\ w.daemon = IF m.length < BLOCK THEN [s.daemon EXCEPT !.last = TRUE] ELSE s.daemon
               /\ w.server = IF m.length < BLOCK THEN [s.server EXCEPT !.done = TRUE] ELSE s.server
<1> DEFINE daemon2 == [s.daemon EXCEPT !.last = TRUE]
           server2 == [s.server EXCEPT !.done = TRUE]
<1>1. CASE m.length < BLOCK
  <2>1. Closed(s, m) = [s EXCEPT !.daemon = daemon2, !.server = server2]
    BY <1>1 DEF Closed, States
  <2>2. daemon2 \in Daemons(Nat)
    BY DEF States, Daemons
  <2>3. server2 \in Servers
    BY DEF States, Servers
  <2>4. /\ Closed(s, m).daemon = daemon2 /\ Closed(s, m).server = server2
        /\ Closed(s, m).buffer = s.buffer
    BY <2>1 DEF States
  <2> HIDE DEF daemon2, server2
  <2>5. Closed(s, m) \in States(Nat)
    BY <2>1, <2>2, <2>3 DEF States
  <2> QED  BY <1>1, <2>4, <2>5 DEF daemon2, server2
<1>2. CASE ~(m.length < BLOCK)
  BY <1>2 DEF Closed
<1> QED  BY <1>1, <1>2

-----------------------------------------------------------------------------
(* What is on the way, and how the daemon and its client keep in step.     *)

Requested(p) == \E i \in 1 .. Len(p) : p[i].op = "WRQ"

(* The acknowledgements that are on the way are of blocks in N. *)
AcksIn(p, N) == \A i \in 1 .. Len(p) : p[i].op = "ACK" => p[i].block \in N

(* Requests go before data, and block goes before block. *)
InOrder(p) ==
    \A i, j \in 1 .. Len(p) :
        i < j /\ p[i].op = "DATA" => p[j].op = "DATA" /\ p[i].block <= p[j].block

(* Packets of a client that has come to block n. *)
Sent(c, n) ==
    {Request("WRQ"), Request("RRQ")} \cup { Data(c, i) : i \in 1 .. n }

(* What a client cl, at port c, has on the way: u to the node, v from it.  *)
Flow(c, cl, u, v) ==
    /\ InOrder(u)
    /\ \A i \in 1 .. Len(u) : u[i] \in Sent(c, cl.block)
    /\ AcksIn(v, 0 .. cl.block)
    /\ cl.block <= LastBlock(c)
    /\ cl.phase \in {"asks", "asks other"} => cl.block = 0
    /\ cl.phase = "sends" => cl.block >= 1
    /\ Requested(u) => cl.block <= 1 /\ AcksIn(v, {0})

Flows == \A c \in Clients : Flow(c, client[c], up[c], down[c])

Active(c) == client[c].phase \in Busy \/ up[c] # << >>
OneActive == \A c, d \in Clients : Active(c) /\ Active(d) => c = d

(* The daemon d has the blocks of the client up to its own block number.   *)
Following(d, size, blocks) ==
    /\ d.block < LastBlock(d.port) /\ ~d.last
    /\ \A i \in 1 .. d.block : blocks[i] = d.port
    /\ size >= d.block * BLOCK \/ size > FLASH
    /\ d.block = 0 => size = 0

(* The client is one block ahead at most, and does not go back. *)
InStep(b, cl, u, v) ==
    /\ cl.block <= b + 1
    /\ cl.phase = "sends" => cl.block >= b
    /\ \A i \in 1 .. Len(u) : u[i].op = "DATA" => u[i].block >= b
    /\ AcksIn(v, 0 .. b)
    /\ cl.phase \in {"asks", "asks other"} /\ b > 0 => AcksIn(v, {})

(* A client cl that the daemon does not serve sends no data: no request of *)
(* it is acknowledged during the transfer of another client.               *)
Outside(cl, u, v) ==
    /\ cl.phase # "sends"
    /\ \A i \in 1 .. Len(u) : u[i].op # "DATA"
    /\ cl.phase \in Busy => AcksIn(v, {})

Transfer ==
    LET c == daemon.port
    IN  daemon.state = "WRQ_RECV_PACKET" =>
            /\ ~server.done
            /\ Following(daemon, server.size, buffer)
            /\ InStep(daemon.block, client[c], up[c], down[c])
            /\ \A d \in Clients \ {c} : Outside(client[d], up[d], down[d])

Waiting == daemon.state = "WAITING_RQ" => daemon.block = 0 /\ ~daemon.last

(* A complete upload stays: nobody asks for another one. *)
Whole(size, blocks) == size = 0 \/ \E c \in Clients : Holds(size, blocks, c)
Complete ==
    server.done =>
        /\ daemon.state = "WAITING_RQ" /\ Whole(server.size, buffer)
        /\ \A c \in Clients : ~Requested(up[c]) /\ client[c].phase # "asks"

UInv == Flows /\ OneActive /\ Transfer /\ Waiting /\ Complete

-----------------------------------------------------------------------------
(* The effects of a packet that the daemon takes: m is the packet.         *)

Replies(c, op, n) ==
    down' = [down EXCEPT ![c] = OnTheWay(@ \o <<[op |-> op, block |-> n]>>, MaxDown)]

(* The packet is not looked at any further. *)
TakenOver(c) ==
    /\ daemon' = [daemon EXCEPT !.from = c]
    /\ UNCHANGED <<server, buffer>>
    /\ down' = [down EXCEPT ![c] = OnTheWay(@, MaxDown)]

RequestRefused(c) ==
    /\ daemon' = [daemon EXCEPT !.from = c]
    /\ UNCHANGED <<server, buffer>>
    /\ Replies(c, "ERROR", daemon.block)

RequestAccepted(c) ==
    /\ daemon'.state = "WRQ_RECV_PACKET" /\ daemon'.port = c
    /\ daemon'.block = daemon.block /\ ~daemon'.last
    /\ server' = [server EXCEPT !.size = 0] /\ UNCHANGED buffer
    /\ Replies(c, "ACK", daemon.block)

BlockStored(c, n) ==
    /\ n < LastBlock(c) /\ n <= Blocks
    /\ daemon' = [daemon EXCEPT !.block = n, !.from = c]
    /\ server' = [server EXCEPT !.size = Grown(@, BLOCK)]
    /\ buffer' = [buffer EXCEPT ![n] = c]
    /\ Replies(c, "ACK", n)

FileEnded(c, n) ==
    /\ n = LastBlock(c)
    /\ daemon' = Fresh /\ server'.done
    /\ \/ /\ n <= Blocks /\ server'.size = Grown(server.size, Length(c, n))
          /\ buffer' = IF Length(c, n) = 0 THEN buffer ELSE [buffer EXCEPT ![n] = c]
       \/ /\ n <= Blocks => n = 1
          /\ server'.size = IF n > Blocks THEN 0 ELSE server.size
          /\ Length(c, n) = 0 /\ UNCHANGED buffer
    /\ Replies(c, "ACK", n)

WriteFailed(c, n) ==
    /\ daemon' = Fresh
    /\ server' = [server EXCEPT !.size = IF n > Blocks THEN 0 ELSE @]
    /\ UNCHANGED buffer
    /\ Replies(c, "ERROR", n)

LEMMA RequestArrives ==
    ASSUME IInv, Waiting, NEW c \in Clients, Arrives(c), bound[Head(up[c]).to] # 0,
           daemon.state = "WAITING_RQ"
    PROVE  \/ TakenOver(c)
           \/ RequestRefused(c)
           \/ Head(up[c]).op = "WRQ" /\ RequestAccepted(c)
<1> DEFINE m == Head(up[c])
<1>0. PICK hole \in BOOLEAN :
         /\ Takes(Input(c, m, hole))
         /\ down' = [down EXCEPT ![c] = OnTheWay(@ \o Input(c, m, hole).sent, MaxDown)]
  BY DEF Arrives
<1> DEFINE s == [Node(hole) EXCEPT !.daemon.from = c]
           r == Input(c, m, hole)
<1>1. /\ s \in States(0 .. Blocks) /\ s \in States(Nat)
      /\ s.daemon = [daemon EXCEPT !.from = c] /\ s.server = server /\ s.buffer = buffer
      /\ s.sent = << >>
  BY InputRecord DEF IInv, Senders
<1>2. r = IF Short(m) THEN s ELSE HandleRequest(s, m)
  BY DEF Input
<1>3. /\ daemon' = r.daemon /\ server' = r.server /\ buffer' = r.buffer
      /\ down' = [down EXCEPT ![c] = OnTheWay(@ \o r.sent, MaxDown)]
  BY <1>0 DEF Takes
<1>4. daemon.block = 0 /\ ~daemon.last /\ s.daemon.block = 0 /\ ~s.daemon.last /\ s.daemon.from = c
  BY <1>1 DEF Waiting, IInv, NodeType, Daemons
<1> HIDE DEF s, r, m
<1>7. CASE Short(m)
  <2>1. down[c] \in Seq(Answers) /\ down[c] \o << >> = down[c] /\ DOMAIN down = Clients
    BY DEF IInv, ClientType
  <2>2. down' = [down EXCEPT ![c] = OnTheWay(@, MaxDown)]
    BY <1>1, <1>2, <1>3, <1>7, <2>1
  <2>3. TakenOver(c)
    BY <1>1, <1>2, <1>3, <1>7, <2>2 DEF TakenOver
  <2> QED  BY <2>3
<1>5. CASE ~Short(m) /\ m.op # "WRQ"
  <2>1. r = Answer(s, "ERROR")
    BY <1>2, <1>5 DEF HandleRequest
  <2>2. /\ r.daemon = s.daemon /\ r.server = s.server /\ r.buffer = s.buffer
        /\ r.sent = <<[op |-> "ERROR", block |-> s.daemon.block]>>
    BY <1>1, <2>1, AnswerFields
  <2> QED  BY <1>1, <1>3, <1>4, <2>2 DEF RequestRefused, Replies
<1>6. CASE ~Short(m) /\ m.op = "WRQ"
  <2> DEFINE t == [s EXCEPT !.server.size = 0, !.daemon.port = s.daemon.from,
                            !.bound = Begin(End(@, TFTP), s.daemon.from, s.hole)]
             server2 == [s.server EXCEPT !.size = 0]
             daemon2 == [s.daemon EXCEPT !.port = s.daemon.from]
             bound2 == Begin(End(s.bound, TFTP), s.daemon.from, s.hole)
  <2>1. r = DoWriteAck(t)
    BY <1>2, <1>6 DEF HandleRequest
  <2>2. t = [s EXCEPT !.server = server2, !.daemon = daemon2, !.bound = bound2]
    BY <1>1 DEF States
  <2>3. server2 \in Servers /\ daemon2 \in Daemons(Nat) /\ daemon2.port = c
        /\ daemon2.block = 0 /\ ~daemon2.last
    <3>1. s.daemon \in Daemons(Nat) /\ s.server \in Servers /\ c \in Locals
      BY <1>1 DEF States, Locals
    <3>2. server2 \in Servers
      BY <3>1, UploadAssumption DEF Servers
    <3> QED  BY <1>4, <3>1, <3>2 DEF Daemons
  <2>4. bound2 \in Tables
    <3>1. s.bound \in Tables /\ s.hole \in BOOLEAN /\ c \in Locals
      BY <1>1 DEF States, Locals
    <3>2. End(s.bound, TFTP) \in Tables
      BY <3>1, EndType
    <3> QED  BY <1>4, <3>1, <3>2, BeginType
  <2> HIDE DEF t, server2, daemon2, bound2
  <2>5. /\ t \in States(Nat) /\ t.daemon = daemon2 /\ t.buffer = s.buffer
        /\ t.server = server2
    BY <1>1, <2>2, <2>3, <2>4 DEF States
  <2>6. /\ r.daemon = [daemon2 EXCEPT !.state = "WRQ_RECV_PACKET"]
        /\ r.server = server2 /\ r.buffer = s.buffer
        /\ r.sent = <<[op |-> "ACK", block |-> 0]>>
    BY <2>1, <2>3, <2>5, DoWriteAckFields
  <2>7. /\ r.daemon.state = "WRQ_RECV_PACKET" /\ r.daemon.port = c
        /\ r.daemon.block = 0 /\ ~r.daemon.last
    BY <2>3, <2>6 DEF Daemons
  <2>8. server' = [server EXCEPT !.size = 0]
    BY <1>1, <1>3, <2>6 DEF server2
  <2>9. RequestAccepted(c)
    BY <1>1, <1>3, <1>4, <2>6, <2>7, <2>8 DEF RequestAccepted, Replies
  <2> QED  BY <1>6, <2>9 DEF m
<1> QED  BY <1>5, <1>6, <1>7

LEMMA LastBlockType ==
    ASSUME NEW c \in Clients
    PROVE  LastBlock(c) \in Nat \ {0}
<1>1. Size[c] \in Nat /\ BLOCK \in Nat \ {0}
  BY UploadAssumption
<1>2. Size[c] \div BLOCK \in Nat
  BY <1>1
<1> QED  BY <1>2 DEF LastBlock

LEMMA LengthOfBlock ==
    ASSUME NEW c \in Clients, NEW n \in 1 .. LastBlock(c)
    PROVE  /\ LastBlock(c) \in Nat /\ Length(c, n) \in Nat
           /\ n < LastBlock(c) => Length(c, n) = BLOCK
           /\ n = LastBlock(c) => Length(c, n) < BLOCK
<1>1. Size[c] \in Nat /\ BLOCK \in Nat \ {0}
  BY UploadAssumption
<1>2. LastBlock(c) \in Nat \ {0} /\ Size[c] % BLOCK \in 0 .. BLOCK - 1
  BY <1>1, LastBlockType
<1> QED  BY <1>1, <1>2 DEF Length

LEMMA DataArrives ==
    ASSUME IInv, Flows, Transfer, NEW c \in Clients, Arrives(c),
           bound[Head(up[c]).to] # 0, daemon.state = "WRQ_RECV_PACKET"
    PROVE  \/ TakenOver(c)
           \/ /\ daemon.port = c
              /\ \E n \in 1 .. client[c].block :
                    /\ Head(up[c]) = Data(c, n)
                    /\ BlockStored(c, n) \/ FileEnded(c, n) \/ WriteFailed(c, n)
<1> DEFINE m == Head(up[c])
<1>0. BLOCK \in Nat \ {0} /\ Blocks \in Nat
  BY UploadAssumption
<1>14. PICK hole \in BOOLEAN :
         /\ Takes(Input(c, m, hole))
         /\ down' = [down EXCEPT ![c] = OnTheWay(@ \o Input(c, m, hole).sent, MaxDown)]
  BY DEF Arrives
<1> DEFINE s == [Node(hole) EXCEPT !.daemon.from = c]
           r == Input(c, m, hole)
<1>5. /\ s \in States(0 .. Blocks) /\ s \in States(Nat)
      /\ s.daemon = [daemon EXCEPT !.from = c] /\ s.server = server /\ s.buffer = buffer
      /\ s.sent = << >>
  BY InputRecord DEF IInv, Senders
<1>6. /\ s.daemon.from = c /\ ~s.daemon.last /\ s.daemon.state = "WRQ_RECV_PACKET"
      /\ s.daemon \in Daemons(Nat)
  BY <1>5 DEF IInv, NodeType, Daemons, Transfer, Following, States
<1>7. r = HandleRecvData(s, m)
  BY DEF Input
<1>8. /\ daemon' = r.daemon /\ server' = r.server /\ buffer' = r.buffer
      /\ down' = [down EXCEPT ![c] = OnTheWay(@ \o r.sent, MaxDown)]
  BY <1>14 DEF Takes
<1>9. m \in Packets /\ Contents(m)
  <2>1. m \in PacketsOf(c)
    BY DEF IInv, ClientType, Arrives
  <2> QED  BY <2>1, ContentsOf DEF PacketsOf
<1> HIDE DEF s, r
<1>15. CASE m.op # "DATA"
  <2>1. r = s
    BY <1>7, <1>15 DEF HandleRecvData
  <2>2. down[c] \in Seq(Answers) /\ down[c] \o << >> = down[c] /\ DOMAIN down = Clients
    BY DEF IInv, ClientType
  <2>3. down' = [down EXCEPT ![c] = OnTheWay(@, MaxDown)]
    BY <1>5, <1>8, <2>1, <2>2
  <2> QED  BY <1>5, <1>8, <2>1, <2>3 DEF TakenOver
<1> SUFFICES ASSUME m.op = "DATA"
             PROVE  /\ daemon.port = c
                    /\ \E n \in 1 .. client[c].block :
                          /\ Head(up[c]) = Data(c, n)
                          /\ BlockStored(c, n) \/ FileEnded(c, n) \/ WriteFailed(c, n)
  BY <1>15
<1>2. PICK n \in 1 .. client[c].block : m = Data(c, n)
  <2>1. up[c] # << >> /\ up[c] \in Seq(PacketsOf(c))
    BY DEF Arrives, IInv, ClientType
  <2>2. m = up[c][1] /\ 1 \in 1 .. Len(up[c])
    BY <2>1
  <2>3. m \in Sent(c, client[c].block)
    BY <2>2 DEF Flows, Flow
  <2> HIDE DEF m
  <2> QED  BY <2>3 DEF Sent, Request
<1>1. daemon.port = c
  <2>1. up[c] # << >> /\ m = up[c][1] /\ 1 \in 1 .. Len(up[c])
    BY DEF Arrives, IInv, ClientType
  <2> QED  BY <2>1 DEF Transfer, Outside
<1>3. n \in 1 .. LastBlock(c) /\ n \in Nat
  <2>1. client[c].block \in Nat /\ client[c].block <= LastBlock(c)
    BY <1>1 DEF Flows, Flow, IInv, ClientType
  <2>2. LastBlock(c) \in Nat
    BY LastBlockType
  <2> QED  BY <1>2, <2>1, <2>2
<1>4. /\ m.op = "DATA" /\ m.block = n /\ m.length = Length(c, n)
      /\ m.length \in Nat
      /\ n < LastBlock(c) => Length(c, n) = BLOCK
      /\ n = LastBlock(c) => Length(c, n) < BLOCK
  BY <1>2, <1>3, LengthOfBlock DEF Data
<1>10. n < LastBlock(c) \/ n = LastBlock(c)
  BY <1>3, LengthOfBlock
<1> HIDE DEF m
<1>11. ASSUME NEW w \in States(Nat), r = DoWriteAck(Closed(w, m)),
              w.daemon = [s.daemon EXCEPT !.block = n]
       PROVE  /\ n < LastBlock(c) =>
                    /\ r.daemon = [s.daemon EXCEPT !.block = n, !.state = "WRQ_RECV_PACKET"]
                    /\ r.server = w.server
              /\ n = LastBlock(c) =>
                    r.daemon = Fresh /\ r.server = [w.server EXCEPT !.done = TRUE]
              /\ r.buffer = w.buffer
              /\ r.sent = <<[op |-> "ACK", block |-> n]>>
  <2> DEFINE x == Closed(w, m)
  <2>1. /\ x \in States(Nat) /\ x.buffer = w.buffer
        /\ x.daemon = IF m.length < BLOCK THEN [w.daemon EXCEPT !.last = TRUE] ELSE w.daemon
        /\ x.server = IF m.length < BLOCK THEN [w.server EXCEPT !.done = TRUE] ELSE w.server
    BY <1>4, ClosedFields
  <2>2. r = DoWriteAck(x)
    BY <1>11
  <2> HIDE DEF x
  <2>3. /\ r.daemon = IF x.daemon.last THEN Fresh
                      ELSE [x.daemon EXCEPT !.state = "WRQ_RECV_PACKET"]
        /\ r.server = x.server /\ r.buffer = x.buffer
        /\ r.sent = <<[op |-> "ACK", block |-> x.daemon.block]>>
    BY <2>1, <2>2, DoWriteAckFields
  <2>4. w.daemon.block = n /\ ~w.daemon.last /\ w.daemon \in Daemons(Nat)
    BY <1>6, <1>11 DEF Daemons, States
  <2>5. x.daemon.block = n
    BY <2>1, <2>4 DEF Daemons
  <2>6. CASE n < LastBlock(c)
    <3>1. ~(m.length < BLOCK)
      BY <1>4, <1>0, <2>6
    <3> QED  BY <1>10, <1>11, <2>1, <2>3, <2>4, <2>5, <2>6, <3>1, LengthOfBlock, <1>3
  <2>7. CASE n = LastBlock(c)
    <3>1. m.length < BLOCK
      BY <1>4, <2>7
    <3>2. x.daemon.last
      BY <2>1, <2>4, <3>1 DEF Daemons
    <3> QED  BY <2>1, <2>3, <2>5, <2>7, <3>1, <3>2, LengthOfBlock, <1>3
  <2> QED  BY <1>10, <2>6, <2>7
<1>12. CASE CanWrite(c, n)
  <2> DEFINE w == Written(s, m)
  <2>1. w \in States(Nat)
    <3>1. w \in States(0 .. Blocks)
      BY <1>4, <1>5, <1>6, <1>9, <1>12, WrittenType DEF Senders
    <3> QED  BY <3>1, <1>0 DEF States, Daemons
  <2>2. /\ w.daemon = [s.daemon EXCEPT !.block = n]
        /\ w.server = [server EXCEPT !.size = Grown(@, m.length)]
        /\ w.buffer = IF m.length = 0 THEN buffer ELSE [buffer EXCEPT ![n] = c]
    BY <1>4, <1>5, <1>6, WrittenFields
  <2>3. r = DoWriteAck(Closed(w, m))
    BY <1>4, <1>6, <1>7, <1>12 DEF HandleRecvData
  <2>4. n <= Blocks
    BY <1>12 DEF CanWrite
  <2> HIDE DEF w
  <2>5. /\ n < LastBlock(c) =>
              /\ r.daemon = [s.daemon EXCEPT !.block = n, !.state = "WRQ_RECV_PACKET"]
              /\ r.server = w.server
        /\ n = LastBlock(c) =>
              r.daemon = Fresh /\ r.server = [w.server EXCEPT !.done = TRUE]
        /\ r.buffer = w.buffer
        /\ r.sent = <<[op |-> "ACK", block |-> n]>>
    BY <2>1, <2>2, <2>3, <1>11
  <2>6. CASE n < LastBlock(c)
    <3>1. m.length = BLOCK /\ m.length # 0
      BY <1>4, <1>0, <2>6
    <3>2. [s.daemon EXCEPT !.block = n, !.state = "WRQ_RECV_PACKET"]
             = [daemon EXCEPT !.block = n, !.from = c]
      BY <1>5, <1>6 DEF IInv, NodeType, Daemons
    <3>3. BlockStored(c, n)
      BY <1>8, <2>2, <2>4, <2>5, <2>6, <3>1, <3>2 DEF BlockStored, Replies
    <3> QED  BY <1>1, <1>2, <3>3 DEF m
  <2>7. CASE n = LastBlock(c)
    <3>1. w.server \in Servers
      BY <2>1 DEF States
    <3>2. server'.done /\ server'.size = Grown(server.size, Length(c, n))
      BY <1>4, <1>8, <2>2, <2>5, <2>7, <3>1 DEF Servers, IInv, NodeType
    <3>3. FileEnded(c, n)
      BY <1>4, <1>8, <2>2, <2>4, <2>5, <2>7, <3>2 DEF FileEnded, Replies
    <3> QED  BY <1>1, <1>2, <3>3 DEF m
  <2> QED  BY <1>10, <2>6, <2>7
<1>13. CASE ~CanWrite(c, n)
  <2> DEFINE w == Refuse(s, m)
  <2>1. w \in States(Nat)
    BY <1>5, <1>9, RefuseType
  <2>2. /\ w.daemon = [s.daemon EXCEPT !.block = n]
        /\ w.server = [server EXCEPT !.size = IF n > Blocks THEN 0 ELSE @]
        /\ w.buffer = buffer
    BY <1>4, <1>5, <1>6, RefuseFields
  <2>3. r = IF m.length = 0 THEN DoWriteAck(Closed(w, m)) ELSE Restart(Answer(w, "ERROR"))
    BY <1>4, <1>6, <1>7, <1>13 DEF HandleRecvData
  <2>4. n <= Blocks => n = 1
    BY <1>13 DEF CanWrite
  <2> HIDE DEF w
  <2>5. CASE m.length = 0
    <3>1. n = LastBlock(c)
      BY <1>4, <1>10, <1>0, <2>5
    <3>2. /\ r.daemon = Fresh /\ r.server = [w.server EXCEPT !.done = TRUE]
          /\ r.buffer = w.buffer /\ r.sent = <<[op |-> "ACK", block |-> n]>>
      BY <1>11, <2>1, <2>2, <2>3, <2>5, <3>1
    <3>3. w.server \in Servers
      BY <2>1 DEF States
    <3>4. server'.done /\ server'.size = IF n > Blocks THEN 0 ELSE server.size
      BY <1>8, <2>2, <3>2, <3>3 DEF Servers, IInv, NodeType
    <3>5. FileEnded(c, n)
      BY <1>4, <1>8, <2>2, <2>4, <2>5, <3>1, <3>2, <3>4 DEF FileEnded, Replies
    <3> QED  BY <1>1, <1>2, <3>5 DEF m
  <2>6. CASE m.length # 0
    <3> DEFINE e == Answer(w, "ERROR")
    <3>1. /\ e \in States(Nat) /\ e.daemon = w.daemon /\ e.server = w.server
          /\ e.buffer = w.buffer /\ e.sent = <<[op |-> "ERROR", block |-> w.daemon.block]>>
      BY <2>1, AnswerFields
    <3>2. r = Restart(e)
      BY <2>3, <2>6
    <3> HIDE DEF e
    <3>3. /\ r.daemon = Fresh /\ r.server = w.server /\ r.buffer = w.buffer
          /\ r.sent = <<[op |-> "ERROR", block |-> w.daemon.block]>>
      BY <3>1, <3>2, RestartFields
    <3>4. w.daemon.block = n
      BY <1>6, <2>2 DEF Daemons
    <3>5. WriteFailed(c, n)
      BY <1>8, <2>2, <3>3, <3>4 DEF WriteFailed, Replies
    <3> QED  BY <1>1, <1>2, <3>5 DEF m
  <2> QED  BY <2>5, <2>6
<1> QED  BY <1>12, <1>13

-----------------------------------------------------------------------------
(* What is on the way loses its head, or gets one packet more.             *)

(* o is p without its first k packets. *)
Rest(o, p, k) ==
    /\ k \in {0, 1} /\ Len(o) = Len(p) - k
    /\ \A i \in 1 .. Len(o) : i + k \in 1 .. Len(p) /\ o[i] = p[i + k]

LEMMA TailRest ==
    ASSUME NEW S, NEW p \in Seq(S), p # << >>
    PROVE  Tail(p) \in Seq(S) /\ Rest(Tail(p), p, 1)
  BY DEF Rest

LEMMA OnTheWayRest ==
    ASSUME NEW S, NEW p \in Seq(S), NEW max \in Nat
    PROVE  OnTheWay(p, max) \in Seq(S) /\ \E k \in {0, 1} : Rest(OnTheWay(p, max), p, k)
<1>1. CASE Len(p) <= max
  <2>1. OnTheWay(p, max) = p /\ Len(p) \in Nat
    BY <1>1 DEF OnTheWay
  <2>2. Rest(p, p, 0)
    BY <2>1 DEF Rest
  <2> QED  BY <2>1, <2>2
<1>2. CASE ~(Len(p) <= max)
  <2>1. p # << >> /\ OnTheWay(p, max) = Tail(p)
    BY <1>2 DEF OnTheWay
  <2> QED  BY <2>1, TailRest
<1> QED  BY <1>1, <1>2

LEMMA RestKeeps ==
    ASSUME NEW o, NEW p, Len(p) \in Nat, Len(o) \in Nat, NEW k, Rest(o, p, k)
    PROVE  /\ \A i \in 1 .. Len(o) : \E j \in 1 .. Len(p) : o[i] = p[j]
           /\ InOrder(p) => InOrder(o)
           /\ \A N : AcksIn(p, N) => AcksIn(o, N)
           /\ Requested(o) => Requested(p)
<1>1. k \in {0, 1} /\ \A i \in 1 .. Len(o) : i + k \in 1 .. Len(p) /\ o[i] = p[i + k]
  BY DEF Rest
<1>2. \A i \in 1 .. Len(o) : \E j \in 1 .. Len(p) : o[i] = p[j]
  BY <1>1
<1>3. ASSUME InOrder(p)
      PROVE  InOrder(o)
  <2> SUFFICES ASSUME NEW i \in 1 .. Len(o), NEW j \in 1 .. Len(o), i < j, o[i].op = "DATA"
               PROVE  o[j].op = "DATA" /\ o[i].block <= o[j].block
    BY DEF InOrder
  <2>1. i + k \in 1 .. Len(p) /\ o[i] = p[i + k] /\ j + k \in 1 .. Len(p) /\ o[j] = p[j + k]
    BY <1>1
  <2>2. i + k < j + k
    BY <1>1
  <2> QED  BY <1>3, <2>1, <2>2 DEF InOrder
<1>4. \A N : AcksIn(p, N) => AcksIn(o, N)
  BY <1>2 DEF AcksIn
<1>5. Requested(o) => Requested(p)
  BY <1>2 DEF Requested
<1> QED  BY <1>2, <1>3, <1>4, <1>5

LEMMA AcksInAppend ==
    ASSUME NEW S, NEW p \in Seq(S), NEW a \in S, NEW N, AcksIn(p, N),
           a.op = "ACK" => a.block \in N
    PROVE  AcksIn(OnTheWay(p \o <<a>>, MaxDown), N)
<1> DEFINE q == p \o <<a>>
<1>1. q \in Seq(S) /\ Len(q) = Len(p) + 1 /\ \A i \in 1 .. Len(q) : q[i] = IF i <= Len(p) THEN p[i] ELSE a
  BY DEF q
<1>2. AcksIn(q, N)
  BY <1>1 DEF AcksIn
<1> HIDE DEF q
<1>0. MaxDown \in Nat
  BY UploadAssumption
<1>3. PICK k \in {0, 1} : OnTheWay(q, MaxDown) \in Seq(S) /\ Rest(OnTheWay(q, MaxDown), q, k)
  BY <1>0, <1>1, OnTheWayRest
<1>4. Len(q) \in Nat /\ Len(OnTheWay(q, MaxDown)) \in Nat
  BY <1>1, <1>3
<1> QED  BY <1>2, <1>3, <1>4, RestKeeps DEF q

(* A client sends a packet that fits to those on the way. *)
LEMMA SendKeeps ==
    ASSUME NEW S, NEW p \in Seq(S), NEW m \in S
    PROVE  LET o == OnTheWay(Append(p, m), MaxUp)
           IN  /\ \A i \in 1 .. Len(o) : o[i] = m \/ \E j \in 1 .. Len(p) : o[i] = p[j]
               /\ InOrder(p)
                    /\ (\A j \in 1 .. Len(p) : p[j].op = "DATA" =>
                                               m.op = "DATA" /\ p[j].block <= m.block)
                  => InOrder(o)
               /\ Requested(o) => Requested(p) \/ m.op = "WRQ"
               /\ Len(o) \in Nat
<1> DEFINE q == Append(p, m)
<1>1. /\ q \in Seq(S) /\ Len(q) = Len(p) + 1 /\ Len(p) \in Nat
      /\ \A i \in 1 .. Len(q) : q[i] = IF i <= Len(p) THEN p[i] ELSE m
  BY DEF q
<1> HIDE DEF q
<1>0. MaxUp \in Nat
  BY UploadAssumption
<1>2. PICK k \in {0, 1} : OnTheWay(q, MaxUp) \in Seq(S) /\ Rest(OnTheWay(q, MaxUp), q, k)
  BY <1>0, <1>1, OnTheWayRest
<1>3. Len(q) \in Nat /\ Len(OnTheWay(q, MaxUp)) \in Nat
  BY <1>1, <1>2
<1>4. /\ \A i \in 1 .. Len(OnTheWay(q, MaxUp)) : \E j \in 1 .. Len(q) : OnTheWay(q, MaxUp)[i] = q[j]
      /\ InOrder(q) => InOrder(OnTheWay(q, MaxUp))
      /\ Requested(OnTheWay(q, MaxUp)) => Requested(q)
  BY <1>2, <1>3, RestKeeps
<1>5. \A j \in 1 .. Len(q) : q[j] = m \/ \E i \in 1 .. Len(p) : q[j] = p[i]
  BY <1>1
<1>6. Requested(q) => Requested(p) \/ m.op = "WRQ"
  BY <1>5 DEF Requested
<1>7. ASSUME InOrder(p),
             \A j \in 1 .. Len(p) : p[j].op = "DATA" => m.op = "DATA" /\ p[j].block <= m.block
      PROVE  InOrder(q)
  <2> SUFFICES ASSUME NEW i \in 1 .. Len(q), NEW j \in 1 .. Len(q), i < j, q[i].op = "DATA"
               PROVE  q[j].op = "DATA" /\ q[i].block <= q[j].block
    BY DEF InOrder
  <2>1. i \in 1 .. Len(p) /\ q[i] = p[i]
    BY <1>1
  <2>2. CASE j <= Len(p)
    <3>1. j \in 1 .. Len(p) /\ q[j] = p[j]
      BY <1>1, <2>2
    <3> QED  BY <1>7, <2>1, <3>1 DEF InOrder
  <2>3. CASE ~(j <= Len(p))
    <3>1. q[j] = m
      BY <1>1, <2>3
    <3> QED  BY <1>7, <2>1, <3>1
  <2> QED  BY <2>2, <2>3
<1> QED  BY <1>3, <1>4, <1>5, <1>6, <1>7 DEF q

-----------------------------------------------------------------------------
(* The steps of a client and of what it has on the way.                    *)

ClientStates == [phase : Phases, block : Nat]

LEMMA SentGrows ==
    ASSUME NEW c \in Clients, NEW n \in Nat
    PROVE  Sent(c, n) \subseteq Sent(c, n + 1)
  BY DEF Sent

LEMMA PacketOps ==
    ASSUME NEW c \in Clients, NEW n \in Nat
    PROVE  /\ \A m \in Sent(c, n) : m.op = "DATA" => m.block \in 1 .. n
           /\ n >= 1 => Data(c, n) \in Sent(c, n)
           /\ Data(c, n).op = "DATA" /\ Data(c, n).block = n
           /\ \A op : Request(op).op = op
           /\ \A op \in {"WRQ", "RRQ"} : Request(op) \in Sent(c, n)
  BY DEF Sent, Data, Request

LEMMA FlowUpTail ==
    ASSUME NEW c, NEW cl, NEW S, NEW u \in Seq(S), u # << >>, NEW v, Flow(c, cl, u, v)
    PROVE  Flow(c, cl, Tail(u), v)
<1>1. Tail(u) \in Seq(S) /\ Rest(Tail(u), u, 1) /\ Len(u) \in Nat /\ Len(Tail(u)) \in Nat
  BY TailRest
<1>2. /\ \A i \in 1 .. Len(Tail(u)) : \E j \in 1 .. Len(u) : Tail(u)[i] = u[j]
      /\ InOrder(u) => InOrder(Tail(u))
      /\ Requested(Tail(u)) => Requested(u)
  BY <1>1, RestKeeps
<1> QED  BY <1>2 DEF Flow

LEMMA FlowDownTail ==
    ASSUME NEW c, NEW cl, NEW S, NEW v \in Seq(S), v # << >>, NEW u, Flow(c, cl, u, v)
    PROVE  Flow(c, cl, u, Tail(v))
<1>1. Tail(v) \in Seq(S) /\ Rest(Tail(v), v, 1) /\ Len(v) \in Nat /\ Len(Tail(v)) \in Nat
  BY TailRest
<1>2. \A N : AcksIn(v, N) => AcksIn(Tail(v), N)
  BY <1>1, RestKeeps
<1> QED  BY <1>2 DEF Flow

LEMMA FlowReply ==
    ASSUME NEW c, NEW cl, NEW u, NEW v \in Seq(Answers), Flow(c, cl, u, v),
           NEW a \in Answers, a.op = "ACK" => a.block \in 0 .. cl.block,
           Requested(u) /\ a.op = "ACK" => a.block = 0
    PROVE  Flow(c, cl, u, OnTheWay(v \o <<a>>, MaxDown))
<1> DEFINE o == OnTheWay(v \o <<a>>, MaxDown)
<1>1. AcksIn(o, 0 .. cl.block)
  BY AcksInAppend DEF Flow
<1>2. ASSUME Requested(u)
      PROVE  AcksIn(o, {0})
  BY <1>2, AcksInAppend DEF Flow
<1> HIDE DEF o
<1>3. Flow(c, cl, u, o)
  BY <1>1, <1>2 DEF Flow
<1> QED  BY <1>3 DEF o

(* Whatever phase comes after the transfer. *)
LEMMA FlowEnds ==
    ASSUME NEW c, NEW cl \in ClientStates, NEW u, NEW v, Flow(c, cl, u, v),
           NEW ph \in {"failed", "done"}
    PROVE  Flow(c, [cl EXCEPT !.phase = ph], u, v)
<1> DEFINE k == [cl EXCEPT !.phase = ph]
<1>1. k.block = cl.block /\ k.phase \in {"failed", "done"}
  BY DEF ClientStates
<1> HIDE DEF k
<1>2. Flow(c, k, u, v)
  BY <1>1 DEF Flow
<1> QED  BY <1>2 DEF k

LEMMA FlowRequest ==
    ASSUME NEW c \in Clients, NEW cl \in ClientStates, NEW u \in Seq(PacketsOf(c)), NEW v,
           Flow(c, cl, u, v), cl.block = 0, NEW op \in {"WRQ", "RRQ"}
    PROVE  Flow(c, cl, OnTheWay(Append(u, Request(op)), MaxUp), v)
<1> DEFINE m == Request(op)
           o == OnTheWay(Append(u, m), MaxUp)
<1>1. m \in PacketsOf(c)
  BY RequestType
<1>2. m \in Sent(c, 0) /\ m.op = op
  BY PacketOps
<1>3. \A j \in 1 .. Len(u) : u[j].op # "DATA"
  BY PacketOps DEF Flow
<1> HIDE DEF m
<1>4. /\ \A i \in 1 .. Len(o) : o[i] = m \/ \E j \in 1 .. Len(u) : o[i] = u[j]
      /\ InOrder(o)
      /\ Requested(o) => Requested(u) \/ m.op = "WRQ"
  BY <1>1, <1>3, SendKeeps DEF Flow
<1> HIDE DEF o
<1>5. AcksIn(v, {0})
  BY DEF Flow, AcksIn
<1>6. Flow(c, cl, o, v)
  BY <1>2, <1>4, <1>5 DEF Flow
<1> QED  BY <1>6 DEF o, m

LEMMA FlowData ==
    ASSUME NEW c \in Clients, NEW cl \in ClientStates, NEW u \in Seq(PacketsOf(c)), NEW v,
           Flow(c, cl, u, v), cl.block >= 1
    PROVE  Flow(c, cl, OnTheWay(Append(u, Data(c, cl.block)), MaxUp), v)
<1> DEFINE m == Data(c, cl.block)
           o == OnTheWay(Append(u, m), MaxUp)
<1>0. cl.block \in Nat
  BY DEF ClientStates
<1>1. m \in PacketsOf(c)
  BY <1>0, DataType
<1>2. m \in Sent(c, cl.block) /\ m.op = "DATA" /\ m.block = cl.block
  BY <1>0, PacketOps
<1>3. \A j \in 1 .. Len(u) : u[j].op = "DATA" => u[j].block <= cl.block
  <2>1. \A j \in 1 .. Len(u) : u[j] \in Sent(c, cl.block)
    BY DEF Flow
  <2>2. \A p \in Sent(c, cl.block) : p.op = "DATA" => p.block \in 1 .. cl.block
    BY <1>0, PacketOps
  <2>3. \A j \in 1 .. Len(u) : u[j].op = "DATA" => u[j].block \in 1 .. cl.block
    BY <2>1, <2>2
  <2> QED  BY <1>0, <2>3
<1> HIDE DEF m
<1>4. /\ \A i \in 1 .. Len(o) : o[i] = m \/ \E j \in 1 .. Len(u) : o[i] = u[j]
      /\ InOrder(o)
      /\ Requested(o) => Requested(u) \/ m.op = "WRQ"
  BY <1>1, <1>2, <1>3, SendKeeps DEF Flow
<1> HIDE DEF o
<1>6. Flow(c, cl, o, v)
  BY <1>2, <1>4 DEF Flow
<1> QED  BY <1>6 DEF o, m

(* The client goes on to its next block. *)
LEMMA FlowNext ==
    ASSUME NEW c \in Clients, NEW cl \in ClientStates, NEW u \in Seq(PacketsOf(c)), NEW v,
           Flow(c, cl, u, v), cl.block # LastBlock(c), Requested(u) => cl.block = 0
    PROVE  LET k == [cl EXCEPT !.phase = "sends", !.block = @ + 1]
           IN  Flow(c, k, OnTheWay(Append(u, Data(c, k.block)), MaxUp), v)
<1> DEFINE k == [cl EXCEPT !.phase = "sends", !.block = @ + 1]
<1>0. cl.block \in Nat /\ LastBlock(c) \in Nat
  BY LastBlockType DEF ClientStates
<1>1. k \in ClientStates /\ k.block = cl.block + 1 /\ k.phase = "sends"
  <2>1. "sends" \in Phases /\ cl.block + 1 \in Nat
    BY <1>0 DEF Phases, Busy
  <2> QED  BY <2>1 DEF ClientStates
<1> HIDE DEF k
<1>2. Flow(c, k, u, v)
  <2>1. \A i \in 1 .. Len(u) : u[i] \in Sent(c, k.block)
    BY <1>0, <1>1, SentGrows DEF Flow
  <2>2. AcksIn(v, 0 .. k.block)
    <3>1. AcksIn(v, 0 .. cl.block)
      BY DEF Flow
    <3>2. 0 .. cl.block \subseteq 0 .. k.block
      BY <1>0, <1>1
    <3> QED  BY <3>1, <3>2 DEF AcksIn
  <2>3. k.block <= LastBlock(c)
    <3>1. cl.block <= LastBlock(c)
      BY DEF Flow
    <3> QED  BY <1>0, <1>1, <3>1
  <2>4. k.block >= 1
    BY <1>0, <1>1
  <2>5. Requested(u) => k.block <= 1 /\ AcksIn(v, {0})
    <3>1. Requested(u) => cl.block = 0 /\ AcksIn(v, {0})
      BY DEF Flow
    <3> QED  BY <1>1, <3>1
  <2>6. InOrder(u)
    BY DEF Flow
  <2> QED  BY <1>1, <2>1, <2>2, <2>3, <2>4, <2>5, <2>6 DEF Flow
<1>3. k.block >= 1
  BY <1>0, <1>1
<1>4. Flow(c, k, OnTheWay(Append(u, Data(c, k.block)), MaxUp), v)
  BY <1>1, <1>2, <1>3, FlowData
<1> QED  BY <1>4 DEF k

-----------------------------------------------------------------------------
(* The same steps, seen from the daemon that is at block b.                *)

LEMMA InStepUpTail ==
    ASSUME NEW b, NEW cl, NEW S, NEW u \in Seq(S), u # << >>, NEW v, InStep(b, cl, u, v)
    PROVE  InStep(b, cl, Tail(u), v)
<1>1. Rest(Tail(u), u, 1) /\ Len(u) \in Nat /\ Len(Tail(u)) \in Nat
  BY TailRest
<1>2. \A i \in 1 .. Len(Tail(u)) : \E j \in 1 .. Len(u) : Tail(u)[i] = u[j]
  BY <1>1, RestKeeps
<1> QED  BY <1>2 DEF InStep

LEMMA InStepDownTail ==
    ASSUME NEW b, NEW cl, NEW S, NEW v \in Seq(S), v # << >>, NEW u, InStep(b, cl, u, v)
    PROVE  InStep(b, cl, u, Tail(v))
<1>1. Rest(Tail(v), v, 1) /\ Len(v) \in Nat /\ Len(Tail(v)) \in Nat
  BY TailRest
<1>2. \A N : AcksIn(v, N) => AcksIn(Tail(v), N)
  BY <1>1, RestKeeps
<1> QED  BY <1>2 DEF InStep

LEMMA InStepEnds ==
    ASSUME NEW b, NEW cl \in ClientStates, NEW u, NEW v, InStep(b, cl, u, v),
           NEW ph \in {"failed", "done"}
    PROVE  InStep(b, [cl EXCEPT !.phase = ph], u, v)
<1> DEFINE k == [cl EXCEPT !.phase = ph]
<1>1. k.block = cl.block /\ k.phase \in {"failed", "done"}
  BY DEF ClientStates
<1> HIDE DEF k
<1>2. InStep(b, k, u, v)
  BY <1>1 DEF InStep
<1> QED  BY <1>2 DEF k

LEMMA InStepSend ==
    ASSUME NEW b, NEW cl, NEW S, NEW u \in Seq(S), NEW m \in S, NEW v, InStep(b, cl, u, v),
           m.op = "DATA" => m.block >= b
    PROVE  InStep(b, cl, OnTheWay(Append(u, m), MaxUp), v)
<1> DEFINE o == OnTheWay(Append(u, m), MaxUp)
<1>1. \A i \in 1 .. Len(o) : o[i] = m \/ \E j \in 1 .. Len(u) : o[i] = u[j]
  BY SendKeeps
<1> HIDE DEF o
<1>2. \A i \in 1 .. Len(o) : o[i].op = "DATA" => o[i].block >= b
  BY <1>1 DEF InStep
<1>3. InStep(b, cl, o, v)
  BY <1>2 DEF InStep
<1> QED  BY <1>3 DEF o

(* An acknowledgement v[1] of the client's block. *)
LEMMA InStepNext ==
    ASSUME NEW c \in Clients, NEW b \in Nat, NEW cl \in ClientStates, cl.phase \in Busy,
           NEW u \in Seq(PacketsOf(c)), NEW v \in Seq(Answers), v # << >>,
           v[1].op = "ACK", v[1].block = cl.block, InStep(b, cl, u, v)
    PROVE  LET k == [cl EXCEPT !.phase = "sends", !.block = @ + 1]
           IN  InStep(b, k, OnTheWay(Append(u, Data(c, k.block)), MaxUp), v)
<1> DEFINE k == [cl EXCEPT !.phase = "sends", !.block = @ + 1]
<1>0. cl.block \in Nat /\ 1 \in 1 .. Len(v)
  BY DEF ClientStates
<1>1. k.block = cl.block + 1 /\ k.phase = "sends" /\ k.block \in Nat
  BY <1>0 DEF ClientStates
<1>2. cl.block <= b
  <2>1. AcksIn(v, 0 .. b)
    BY DEF InStep
  <2>2. v[1].block \in 0 .. b
    BY <1>0, <2>1 DEF AcksIn
  <2> QED  BY <2>2
<1>3. cl.block >= b
  <2>1. CASE cl.phase = "sends"
    BY <2>1 DEF InStep
  <2>2. CASE cl.phase \in {"asks", "asks other"} /\ b > 0
    BY <1>0, <2>2 DEF InStep, AcksIn
  <2>3. CASE ~(b > 0)
    BY <1>0, <2>3
  <2> QED  BY <2>1, <2>2, <2>3 DEF Busy
<1> HIDE DEF k
<1>4. InStep(b, k, u, v)
  <2>1. k.block <= b + 1 /\ k.block >= b
    BY <1>0, <1>1, <1>2, <1>3
  <2> QED  BY <1>1, <2>1 DEF InStep
<1>5. Data(c, k.block) \in PacketsOf(c) /\ Data(c, k.block).block >= b
  <2>1. Data(c, k.block) \in PacketsOf(c) /\ Data(c, k.block).block = k.block
    BY <1>1, DataType, PacketOps
  <2> QED  BY <1>0, <1>1, <1>3, <2>1
<1>6. InStep(b, k, OnTheWay(Append(u, Data(c, k.block)), MaxUp), v)
  BY <1>4, <1>5, InStepSend
<1> QED  BY <1>6 DEF k

(* The same steps of a client that the daemon does not serve.              *)

LEMMA OutsideUpTail ==
    ASSUME NEW cl, NEW S, NEW u \in Seq(S), u # << >>, NEW v, Outside(cl, u, v)
    PROVE  Outside(cl, Tail(u), v)
<1>1. Rest(Tail(u), u, 1) /\ Len(u) \in Nat /\ Len(Tail(u)) \in Nat
  BY TailRest
<1>2. \A i \in 1 .. Len(Tail(u)) : \E j \in 1 .. Len(u) : Tail(u)[i] = u[j]
  BY <1>1, RestKeeps
<1> QED  BY <1>2 DEF Outside

LEMMA OutsideDownTail ==
    ASSUME NEW cl, NEW S, NEW v \in Seq(S), v # << >>, NEW u, Outside(cl, u, v)
    PROVE  Outside(cl, u, Tail(v))
<1>1. Rest(Tail(v), v, 1) /\ Len(v) \in Nat /\ Len(Tail(v)) \in Nat
  BY TailRest
<1>2. \A N : AcksIn(v, N) => AcksIn(Tail(v), N)
  BY <1>1, RestKeeps
<1> QED  BY <1>2 DEF Outside

LEMMA OutsideEnds ==
    ASSUME NEW cl \in ClientStates, NEW u, NEW v, Outside(cl, u, v),
           NEW ph \in {"failed", "done"}
    PROVE  Outside([cl EXCEPT !.phase = ph], u, v)
<1> DEFINE k == [cl EXCEPT !.phase = ph]
<1>1. k.phase \in {"failed", "done"}
  BY DEF ClientStates
<1> HIDE DEF k
<1>2. Outside(k, u, v)
  BY <1>1 DEF Outside, Busy
<1> QED  BY <1>2 DEF k

LEMMA OutsideSend ==
    ASSUME NEW cl, NEW S, NEW u \in Seq(S), NEW m \in S, NEW v, Outside(cl, u, v),
           m.op # "DATA"
    PROVE  Outside(cl, OnTheWay(Append(u, m), MaxUp), v)
<1> DEFINE o == OnTheWay(Append(u, m), MaxUp)
<1>1. \A i \in 1 .. Len(o) : o[i] = m \/ \E j \in 1 .. Len(u) : o[i] = u[j]
  BY SendKeeps
<1> HIDE DEF o
<1>2. Outside(cl, o, v)
  BY <1>1 DEF Outside
<1> QED  BY <1>2 DEF o

-----------------------------------------------------------------------------
(* A step of a client or of its network.                                   *)

Begs(c) == client[c].phase = "asks" \/ Requested(up[c])

OthersKept(c) ==
    \A d \in Clients \ {c} : client'[d] = client[d] /\ up'[d] = up[d] /\ down'[d] = down[d]

StepOf(c) ==
    /\ OthersKept(c)
    /\ Flow(c, client'[c], up'[c], down'[c])
    /\ \A b \in Nat : InStep(b, client[c], up[c], down[c])
                        => InStep(b, client'[c], up'[c], down'[c])
    /\ Outside(client[c], up[c], down[c]) => Outside(client'[c], up'[c], down'[c])
    /\ Active(c)' => Active(c) \/ Quiet(c)
    /\ Begs(c)' => Begs(c) \/ Quiet(c)

LEMMA TypesOf ==
    ASSUME IInv, NEW c \in Clients
    PROVE  /\ client[c] \in ClientStates /\ client[c].block \in Nat
           /\ up[c] \in Seq(PacketsOf(c)) /\ down[c] \in Seq(Answers)
           /\ DOMAIN client = Clients /\ DOMAIN up = Clients /\ DOMAIN down = Clients
  BY DEF IInv, ClientType, ClientStates

(* Nothing on the way. *)
LEMMA NothingSent ==
    /\ \A i \in 1 .. Len(<< >>) : FALSE
    /\ InOrder(<< >>) /\ ~Requested(<< >>) /\ \A N : AcksIn(<< >>, N)
<1>1. Len(<< >>) = 0
  OBVIOUS
<1>2. \A i \in 1 .. 0 : FALSE
  OBVIOUS
<1>3. \A i \in 1 .. Len(<< >>) : FALSE
  BY <1>1, <1>2
<1> QED  BY <1>3 DEF InOrder, Requested, AcksIn

LEMMA BlockZero ==
    /\ \A b \in Nat : 0 <= b + 1
    /\ \A c \in Clients : 0 <= LastBlock(c)
<1>1. \A b \in Nat : 0 <= b + 1
  OBVIOUS
<1>2. ASSUME NEW c \in Clients PROVE 0 <= LastBlock(c)
  <2>1. LastBlock(c) \in Nat
    BY LastBlockType
  <2> QED  BY <2>1
<1> QED  BY <1>1, <1>2

LEMMA StartStep ==
    ASSUME IInv, Flows, NEW c \in Clients, Start(c)
    PROVE  StepOf(c)
<1>1. PICK op \in {"WRQ", "RRQ"}, ph \in {"asks", "asks other"} :
        Send(c, Request(op)) /\ client' = [client EXCEPT ![c] = [phase |-> ph, block |-> 0]]
  BY DEF Start
<1> DEFINE k == [phase |-> ph, block |-> 0]
<1>2. /\ up[c] = << >> /\ down[c] = << >> /\ Quiet(c)
      /\ client'[c] = k /\ up'[c] = OnTheWay(Append(up[c], Request(op)), MaxUp) /\ down' = down
      /\ OthersKept(c)
  BY <1>1, TypesOf DEF Start, Quiet, Send, OthersKept
<1>3. k \in ClientStates /\ k.block = 0 /\ k.phase \in {"asks", "asks other"}
  BY DEF ClientStates, Phases, Busy
<1> HIDE DEF k
<1>4. Flow(c, k, up[c], down[c])
  <2>1. k.block <= LastBlock(c)
    <3>1. k.block = 0
      BY <1>3
    <3>2. 0 <= LastBlock(c)
      BY BlockZero
    <3> QED  BY <3>1, <3>2
  <2>2. k.phase # "sends"
    BY <1>3
  <2> QED  BY <1>2, <1>3, <2>1, <2>2, NothingSent DEF Flow
<1>5. Flow(c, client'[c], up'[c], down'[c])
  BY <1>2, <1>3, <1>4, TypesOf, FlowRequest
<1>6. ASSUME NEW b \in Nat
      PROVE  InStep(b, client'[c], up'[c], down'[c])
  <2>1. InStep(b, k, up[c], down[c])
    <3>1. k.block <= b + 1
      <4>1. k.block = 0
        BY <1>3
      <4>2. 0 <= b + 1
        BY <1>6, BlockZero
      <4> QED  BY <4>1, <4>2
    <3>2. k.phase # "sends"
      BY <1>3
    <3> QED  BY <1>2, <3>1, <3>2, NothingSent DEF InStep
  <2>2. Request(op) \in PacketsOf(c) /\ Request(op).op # "DATA"
    BY RequestType DEF Request
  <2> QED  BY <1>2, <2>1, <2>2, TypesOf, InStepSend
<1>7. Outside(client'[c], up'[c], down'[c])
  <2>1. Outside(k, up[c], down[c])
    BY <1>2, <1>3, NothingSent DEF Outside
  <2>2. Request(op) \in PacketsOf(c) /\ Request(op).op # "DATA"
    BY RequestType DEF Request
  <2> QED  BY <1>2, <2>1, <2>2, TypesOf, OutsideSend
<1> QED  BY <1>2, <1>5, <1>6, <1>7 DEF StepOf

LEMMA RepeatStep ==
    ASSUME IInv, Flows, NEW c \in Clients, Repeat(c)
    PROVE  StepOf(c)
<1>1. /\ client' = client /\ down' = down
      /\ Flow(c, client[c], up[c], down[c])
  BY DEF Repeat, Flows
<1>2. ASSUME NEW op \in {"WRQ", "RRQ"}, Send(c, Request(op)),
             client[c].phase = IF op = "WRQ" THEN "asks" ELSE "asks other"
      PROVE  StepOf(c)
  <2>1. up'[c] = OnTheWay(Append(up[c], Request(op)), MaxUp) /\ OthersKept(c)
    BY <1>1, <1>2, TypesOf DEF Send, OthersKept
  <2>2. client[c].block = 0
    BY <1>1, <1>2 DEF Flow
  <2>3. Flow(c, client[c], up'[c], down[c])
    BY <1>1, <2>1, <2>2, TypesOf, FlowRequest
  <2>4. Request(op) \in PacketsOf(c) /\ Request(op).op = op
    BY RequestType DEF Request
  <2>5. ASSUME NEW b \in Nat, InStep(b, client[c], up[c], down[c])
        PROVE  InStep(b, client[c], up'[c], down[c])
    BY <2>1, <2>4, <2>5, TypesOf, InStepSend
  <2>9. Outside(client[c], up[c], down[c]) => Outside(client[c], up'[c], down[c])
    BY <2>1, <2>4, TypesOf, OutsideSend
  <2>6. Active(c)
    BY <1>2 DEF Active, Busy
  <2>7. Requested(up'[c]) => Requested(up[c]) \/ op = "WRQ"
    BY <2>1, <2>4, TypesOf, SendKeeps
  <2>8. Begs(c)' => Begs(c)
    BY <1>1, <1>2, <2>7 DEF Begs
  <2> QED  BY <1>1, <2>1, <2>3, <2>5, <2>6, <2>8, <2>9 DEF StepOf
<1>3. CASE client[c].phase = "sends" /\ Send(c, Data(c, client[c].block))
  <2>1. up'[c] = OnTheWay(Append(up[c], Data(c, client[c].block)), MaxUp) /\ OthersKept(c)
    BY <1>1, <1>3, TypesOf DEF Send, OthersKept
  <2>2. client[c].block >= 1
    BY <1>1, <1>3 DEF Flow
  <2>3. Flow(c, client[c], up'[c], down[c])
    BY <1>1, <2>1, <2>2, TypesOf, FlowData
  <2>4. /\ Data(c, client[c].block) \in PacketsOf(c)
        /\ Data(c, client[c].block).block = client[c].block
        /\ Data(c, client[c].block).op = "DATA"
    BY TypesOf, DataType, PacketOps
  <2>5. ASSUME NEW b \in Nat, InStep(b, client[c], up[c], down[c])
        PROVE  InStep(b, client[c], up'[c], down[c])
    <3>1. client[c].block >= b
      BY <1>3, <2>5 DEF InStep
    <3> QED  BY <2>1, <2>4, <2>5, <3>1, TypesOf, InStepSend
  <2>9. ~Outside(client[c], up[c], down[c])
    BY <1>3 DEF Outside
  <2>6. Active(c)
    BY <1>3 DEF Active, Busy
  <2>7. Requested(up'[c]) => Requested(up[c])
    BY <2>1, <2>4, TypesOf, SendKeeps
  <2>8. Begs(c)' => Begs(c)
    BY <1>1, <2>7 DEF Begs
  <2> QED  BY <1>1, <2>1, <2>3, <2>5, <2>6, <2>8, <2>9 DEF StepOf
<1> QED  BY <1>2, <1>3 DEF Repeat

LEMMA GiveUpStep ==
    ASSUME IInv, Flows, NEW c \in Clients,
           \/ GiveUp(c)
           \/ Failed(c)
    PROVE  StepOf(c)
<1>1. /\ client' = [client EXCEPT ![c].phase = "failed"] /\ up' = up
      /\ \/ down' = down
         \/ down[c] # << >> /\ down' = [down EXCEPT ![c] = Tail(@)]
  BY DEF GiveUp, Failed
<1>2. OthersKept(c) /\ client'[c] = [client[c] EXCEPT !.phase = "failed"]
  BY <1>1, TypesOf DEF OthersKept
<1>3. \/ down'[c] = down[c]
      \/ down[c] # << >> /\ down'[c] = Tail(down[c])
  BY <1>1, TypesOf
<1>4. Flow(c, client[c], up[c], down'[c])
  BY <1>3, TypesOf, FlowDownTail DEF Flows
<1>5. Flow(c, client'[c], up'[c], down'[c])
  BY <1>1, <1>2, <1>4, TypesOf, FlowEnds
<1>6. ASSUME NEW b \in Nat, InStep(b, client[c], up[c], down[c])
      PROVE  InStep(b, client'[c], up'[c], down'[c])
  <2>1. InStep(b, client[c], up[c], down'[c])
    BY <1>3, <1>6, TypesOf, InStepDownTail
  <2> QED  BY <1>1, <1>2, <2>1, TypesOf, InStepEnds
<1>9. ASSUME Outside(client[c], up[c], down[c])
      PROVE  Outside(client'[c], up'[c], down'[c])
  <2>1. Outside(client[c], up[c], down'[c])
    BY <1>3, <1>9, TypesOf, OutsideDownTail
  <2> QED  BY <1>1, <1>2, <2>1, TypesOf, OutsideEnds
<1>7. client'[c].phase = "failed"
  BY <1>2, TypesOf DEF ClientStates
<1>8. (Active(c)' => Active(c)) /\ (Begs(c)' => Begs(c))
  BY <1>1, <1>7 DEF Active, Begs, Busy
<1> QED  BY <1>2, <1>5, <1>6, <1>8, <1>9 DEF StepOf

LEMMA AcknowledgedStep ==
    ASSUME IInv, Flows, NEW c \in Clients, Acknowledged(c)
    PROVE  StepOf(c)
<1> DEFINE a == Head(down[c])
           cl == client[c]
           u == up[c]
           v == down[c]
<1>0. /\ cl \in ClientStates /\ cl.block \in Nat
      /\ u \in Seq(PacketsOf(c)) /\ v \in Seq(Answers)
  BY TypesOf
<1>1. /\ v # << >> /\ a = v[1] /\ a.op = "ACK" /\ 1 \in 1 .. Len(v)
      /\ down'[c] = Tail(v)
      /\ \A d \in Clients \ {c} : down'[d] = down[d]
  BY TypesOf DEF Acknowledged
<1>2. Flow(c, cl, u, v)
  BY DEF Flows
<1>6. ASSUME Outside(cl, u, v)
      PROVE  Outside(cl, u, Tail(v)) /\ cl.phase \notin Busy
  <2>1. Outside(cl, u, Tail(v))
    BY <1>0, <1>1, <1>6, OutsideDownTail
  <2>2. ~AcksIn(v, {})
    BY <1>1 DEF AcksIn
  <2> QED  BY <1>6, <2>1, <2>2 DEF Outside
<1>3. CASE UNCHANGED <<client, up>>
  <2>1. Flow(c, cl, u, Tail(v))
    BY <1>1, <1>2, <1>0, FlowDownTail
  <2>2. ASSUME NEW b \in Nat, InStep(b, cl, u, v)
        PROVE  InStep(b, cl, u, Tail(v))
    BY <1>1, <1>0, <2>2, InStepDownTail
  <2> QED  BY <1>1, <1>3, <1>6, <2>1, <2>2 DEF StepOf, OthersKept, Active, Begs
<1>4. CASE client' = [client EXCEPT ![c].phase = "done"] /\ UNCHANGED up
  <2>1. /\ client'[c] = [cl EXCEPT !.phase = "done"] /\ client'[c].phase = "done"
        /\ OthersKept(c)
    BY <1>1, <1>4, <1>0, TypesOf DEF ClientStates, OthersKept
  <2>2. Flow(c, client'[c], u, Tail(v))
    <3>1. Flow(c, cl, u, Tail(v))
      BY <1>1, <1>2, <1>0, FlowDownTail
    <3>2. Flow(c, [cl EXCEPT !.phase = "done"], u, Tail(v))
      BY <1>0, <3>1, FlowEnds
    <3> QED  BY <2>1, <3>2
  <2>3. ASSUME NEW b \in Nat, InStep(b, cl, u, v)
        PROVE  InStep(b, client'[c], u, Tail(v))
    <3>1. InStep(b, cl, u, Tail(v))
      BY <1>1, <1>0, <2>3, InStepDownTail
    <3>2. InStep(b, [cl EXCEPT !.phase = "done"], u, Tail(v))
      BY <1>0, <3>1, InStepEnds
    <3> QED  BY <2>1, <3>2
  <2>4. (Active(c)' => Active(c)) /\ (Begs(c)' => Begs(c))
    BY <1>4, <2>1 DEF Active, Begs, Busy
  <2>5. Outside(cl, u, v) => Outside(client'[c], u, Tail(v))
    <3>1. Outside(cl, u, v) => Outside([cl EXCEPT !.phase = "done"], u, Tail(v))
      BY <1>0, <1>6, OutsideEnds
    <3> QED  BY <2>1, <3>1
  <2> QED  BY <1>1, <1>4, <2>1, <2>2, <2>3, <2>4, <2>5 DEF StepOf
<1>5. CASE /\ cl.phase \in Busy /\ a.block = cl.block /\ cl.block # LastBlock(c)
           /\ client' = [client EXCEPT ![c].phase = "sends", ![c].block = @ + 1]
           /\ Send(c, Data(c, client[c].block + 1))
  <2> DEFINE k == [cl EXCEPT !.phase = "sends", !.block = @ + 1]
             o == OnTheWay(Append(u, Data(c, k.block)), MaxUp)
  <2>1. k.block = cl.block + 1 /\ k.phase = "sends" /\ k \in ClientStates
    <3>1. "sends" \in Phases /\ cl.block + 1 \in Nat
      BY <1>0 DEF Phases, Busy
    <3> QED  BY <1>0, <3>1 DEF ClientStates
  <2>2. client'[c] = k /\ up'[c] = o /\ OthersKept(c)
    <3>1. \A d \in Clients \ {c} : client'[d] = client[d] /\ up'[d] = up[d]
      BY <1>5, TypesOf DEF Send
    <3>2. client'[c] = k
      BY <1>5, TypesOf
    <3>3. up'[c] = OnTheWay(Append(u, Data(c, cl.block + 1)), MaxUp)
      BY <1>5, TypesOf DEF Send
    <3> QED  BY <1>1, <2>1, <3>1, <3>2, <3>3 DEF OthersKept
  <2>3. Requested(u) => cl.block = 0
    BY <1>1, <1>2, <1>5 DEF Flow, AcksIn
  <2>4. Flow(c, k, o, v)
    BY <1>2, <1>5, <1>0, <2>3, FlowNext
  <2>5. ASSUME NEW b \in Nat, InStep(b, cl, u, v)
        PROVE  InStep(b, k, o, v)
    BY <1>1, <1>5, <1>0, <2>5, InStepNext
  <2>6. Data(c, k.block) \in PacketsOf(c) /\ Data(c, k.block).op = "DATA"
    BY <1>0, <2>1, DataType DEF Data
  <2>7. Requested(o) => Requested(u)
    BY <1>0, <2>6, SendKeeps
  <2> HIDE DEF k, o
  <2>8. Flow(c, k, o, Tail(v))
    BY <1>1, <1>0, <2>4, FlowDownTail
  <2>9. ASSUME NEW b \in Nat, InStep(b, cl, u, v)
        PROVE  InStep(b, k, o, Tail(v))
    BY <1>1, <1>0, <2>5, <2>9, InStepDownTail
  <2>10. Active(c) /\ (Begs(c)' => Begs(c))
    BY <1>5, <2>1, <2>2, <2>7 DEF Active, Begs
  <2> QED  BY <1>1, <1>5, <1>6, <2>2, <2>8, <2>9, <2>10 DEF StepOf
<1> QED  BY <1>3, <1>4, <1>5 DEF Acknowledged

LEMMA LoseStep ==
    ASSUME IInv, Flows, NEW c \in Clients, LoseUp(c) \/ LoseDown(c)
    PROVE  StepOf(c)
<1>1. CASE LoseUp(c)
  <2>1. /\ client' = client /\ down' = down /\ up[c] # << >>
        /\ up'[c] = Tail(up[c]) /\ OthersKept(c)
    BY <1>1, TypesOf DEF LoseUp, OthersKept
  <2>2. Flow(c, client[c], Tail(up[c]), down[c])
    BY <2>1, TypesOf, FlowUpTail DEF Flows
  <2>3. ASSUME NEW b \in Nat, InStep(b, client[c], up[c], down[c])
        PROVE  InStep(b, client[c], Tail(up[c]), down[c])
    BY <2>1, <2>3, TypesOf, InStepUpTail
  <2>4. Requested(Tail(up[c])) => Requested(up[c])
    <3>1. up[c] \in Seq(PacketsOf(c))
      BY TypesOf
    <3>2. /\ Rest(Tail(up[c]), up[c], 1)
          /\ Len(up[c]) \in Nat /\ Len(Tail(up[c])) \in Nat
      BY <2>1, <3>1, TailRest
    <3> QED  BY <3>2, RestKeeps
  <2>5. Outside(client[c], up[c], down[c]) => Outside(client[c], Tail(up[c]), down[c])
    BY <2>1, TypesOf, OutsideUpTail
  <2> QED  BY <2>1, <2>2, <2>3, <2>4, <2>5 DEF StepOf, Active, Begs
<1>2. CASE LoseDown(c)
  <2>1. /\ client' = client /\ up' = up /\ down[c] # << >>
        /\ down'[c] = Tail(down[c]) /\ OthersKept(c)
    BY <1>2, TypesOf DEF LoseDown, OthersKept
  <2>2. Flow(c, client[c], up[c], Tail(down[c]))
    BY <2>1, TypesOf, FlowDownTail DEF Flows
  <2>3. ASSUME NEW b \in Nat, InStep(b, client[c], up[c], down[c])
        PROVE  InStep(b, client[c], up[c], Tail(down[c]))
    BY <2>1, <2>3, TypesOf, InStepDownTail
  <2>4. Outside(client[c], up[c], down[c]) => Outside(client[c], up[c], Tail(down[c]))
    BY <2>1, TypesOf, OutsideDownTail
  <2> QED  BY <2>1, <2>2, <2>3, <2>4 DEF StepOf, Active, Begs
<1> QED  BY <1>1, <1>2

(* The packet is lost, or it is only the sender that the daemon takes over. *)
LEMMA TakenStep ==
    ASSUME IInv, Flows, NEW c \in Clients, up[c] # << >>, UNCHANGED client,
           up' = [up EXCEPT ![c] = Tail(@)], down' = [down EXCEPT ![c] = OnTheWay(@, MaxDown)]
    PROVE  StepOf(c)
<1> DEFINE u == up[c]
           v == down[c]
           w == Tail(up[c])
           x == OnTheWay(down[c], MaxDown)
<1>1. /\ client' = client /\ up'[c] = w /\ down'[c] = x /\ OthersKept(c)
      /\ u \in Seq(PacketsOf(c)) /\ v \in Seq(Answers) /\ u # << >>
  BY TypesOf DEF OthersKept
<1>2. x = v \/ (v # << >> /\ x = Tail(v))
  <2>1. Len(<< >>) <= MaxDown
    BY UploadAssumption
  <2> QED  BY <1>1, <2>1 DEF OnTheWay
<1>3. Requested(w) => Requested(u)
  <2>1. Rest(w, u, 1) /\ Len(u) \in Nat /\ Len(w) \in Nat
    BY <1>1, TailRest
  <2> QED  BY <2>1, RestKeeps
<1>4. Flow(c, client[c], w, v)
  BY <1>1, FlowUpTail DEF Flows
<1>5. ASSUME NEW b \in Nat, InStep(b, client[c], u, v)
      PROVE  InStep(b, client[c], w, v)
  BY <1>1, <1>5, InStepUpTail
<1>6. Outside(client[c], u, v) => Outside(client[c], w, v)
  BY <1>1, OutsideUpTail
<1> HIDE DEF w, x
<1>7. Flow(c, client[c], w, x)
  BY <1>1, <1>2, <1>4, FlowDownTail
<1>8. ASSUME NEW b \in Nat, InStep(b, client[c], u, v)
      PROVE  InStep(b, client[c], w, x)
  BY <1>1, <1>2, <1>5, <1>8, InStepDownTail
<1>9. Outside(client[c], u, v) => Outside(client[c], w, x)
  BY <1>1, <1>2, <1>6, OutsideDownTail
<1> QED  BY <1>1, <1>3, <1>7, <1>8, <1>9 DEF StepOf, Active, Begs

(* The daemon goes on with what it does; only the last sender may be new. *)
GoesOn ==
    /\ daemon'.state = daemon.state /\ daemon'.port = daemon.port
    /\ daemon'.block = daemon.block /\ daemon'.last = daemon.last
    /\ server' = server /\ buffer' = buffer

LEMMA ClientStepUpload ==
    ASSUME IInv, UInv, NEW c \in Clients, StepOf(c), GoesOn
    PROVE  UInv'
<1>1. /\ daemon'.state = daemon.state /\ daemon'.port = daemon.port
      /\ daemon'.block = daemon.block /\ daemon'.last = daemon.last
      /\ server' = server /\ buffer' = buffer
      /\ OthersKept(c)
  BY DEF GoesOn, StepOf
<1>2. Flows'
  BY <1>1 DEF UInv, Flows, StepOf, OthersKept
<1>3. OneActive'
  <2>1. \A d \in Clients \ {c} : Active(d)' => Active(d)
    BY <1>1 DEF Active, OthersKept
  <2>2. Quiet(c) => \A d \in Clients \ {c} : ~Active(d)
    BY DEF Quiet, Active
  <2>3. Active(c)' => \A d \in Clients \ {c} : ~Active(d)
    BY <2>2 DEF UInv, OneActive, StepOf
  <2> SUFFICES ASSUME NEW d \in Clients, NEW e \in Clients, Active(d)', Active(e)'
               PROVE  d = e
    BY DEF OneActive
  <2> QED  BY <2>1, <2>3 DEF UInv, OneActive
<1>4. Transfer'
  <2> SUFFICES ASSUME daemon.state = "WRQ_RECV_PACKET"
               PROVE  /\ InStep(daemon.block, client'[daemon.port], up'[daemon.port],
                                down'[daemon.port])
                      /\ \A d \in Clients \ {daemon.port} :
                            Outside(client'[d], up'[d], down'[d])
    BY <1>1 DEF Transfer, UInv, Following
  <2>1. /\ InStep(daemon.block, client[daemon.port], up[daemon.port], down[daemon.port])
        /\ \A d \in Clients \ {daemon.port} : Outside(client[d], up[d], down[d])
    BY DEF UInv, Transfer
  <2>2. daemon.port \in Clients /\ daemon.block \in Nat
    BY UploadAssumption DEF IInv, PortKnown, NodeType, Daemons
  <2>3. InStep(daemon.block, client'[daemon.port], up'[daemon.port], down'[daemon.port])
    <3>1. CASE daemon.port = c
      BY <2>1, <2>2, <3>1 DEF StepOf
    <3>2. CASE daemon.port # c
      BY <1>1, <2>1, <2>2, <3>2 DEF OthersKept
    <3> QED  BY <3>1, <3>2
  <2>4. ASSUME NEW d \in Clients \ {daemon.port}
        PROVE  Outside(client'[d], up'[d], down'[d])
    <3>1. CASE d = c
      BY <2>1, <3>1 DEF StepOf
    <3>2. CASE d # c
      BY <1>1, <2>1, <3>2 DEF OthersKept
    <3> QED  BY <3>1, <3>2
  <2> QED  BY <2>3, <2>4
<1>5. Waiting'
  BY <1>1 DEF UInv, Waiting
<1>6. Complete'
  <2> SUFFICES ASSUME server.done
               PROVE  /\ daemon.state = "WAITING_RQ" /\ Whole(server.size, buffer)
                      /\ \A d \in Clients : ~Begs(d)'
    BY <1>1 DEF Complete, Begs
  <2>1. /\ daemon.state = "WAITING_RQ" /\ Whole(server.size, buffer)
        /\ \A d \in Clients : ~Begs(d)
    BY DEF UInv, Complete, Begs
  <2>2. ~Begs(c)'
    BY <2>1 DEF StepOf, Quiet
  <2>3. ASSUME NEW d \in Clients \ {c} PROVE ~Begs(d)'
    BY <1>1, <2>1 DEF Begs, OthersKept
  <2> QED  BY <2>1, <2>2, <2>3
<1> QED  BY <1>2, <1>3, <1>4, <1>5, <1>6 DEF UInv

-----------------------------------------------------------------------------
(* A packet that the daemon takes.                                         *)

LEMMA GrownBounds ==
    ASSUME NEW size \in 0 .. FLASH + 1, NEW length \in Nat
    PROVE  /\ Grown(size, length) = size + length \/ Grown(size, length) > FLASH
           /\ size > FLASH => Grown(size, length) > FLASH
           /\ Grown(size, length) >= size
  BY UploadAssumption DEF Grown

LEMMA SizeOfFile ==
    ASSUME NEW c \in Clients
    PROVE  Size[c] = (LastBlock(c) - 1) * BLOCK + Length(c, LastBlock(c))
<1>1. Size[c] \in Nat /\ BLOCK \in Nat \ {0}
  BY UploadAssumption
<1>2. Size[c] \div BLOCK \in Nat /\ Size[c] = (Size[c] \div BLOCK) * BLOCK + (Size[c] % BLOCK)
  BY <1>1
<1>3. LastBlock(c) - 1 = Size[c] \div BLOCK /\ ~(LastBlock(c) < LastBlock(c))
  BY <1>2 DEF LastBlock
<1> QED  BY <1>2, <1>3 DEF Length

LEMMA ProductGrows ==
    ASSUME NEW b \in Nat
    PROVE  (b + 1) * BLOCK = b * BLOCK + BLOCK /\ b * BLOCK \in Nat
  BY UploadAssumption

LEMMA NextBlock ==
    ASSUME NEW b \in Nat, NEW n \in Nat, n >= b, n <= b + 1
    PROVE  /\ n = b \/ n = b + 1
           /\ 0 .. b \subseteq 0 .. n /\ n \in 0 .. n
           /\ \A i \in 1 .. n : i # n => i \in 1 .. b
           /\ \A k \in Nat : k <= b + 1 => k <= n + 1
           /\ \A k \in Nat : n \in 1 .. k => k >= n
           /\ \A k \in Nat : n <= k => \A i \in 1 .. n : i \in 1 .. k
  OBVIOUS

LEMMA ZeroRange == 0 .. 0 = {0} /\ \A n \in Nat : n >= 0 /\ (n <= 1 => n <= 0 + 1)
  OBVIOUS

(* What the head of the packets tells: m is the packet that arrives.       *)
LEMMA HeadOf ==
    ASSUME IInv, Flows, NEW c \in Clients, Arrives(c)
    PROVE  LET m == Head(up[c])
           IN  /\ up[c] # << >> /\ m = up[c][1] /\ 1 \in 1 .. Len(up[c])
               /\ m.op = "WRQ" => Requested(up[c])
               /\ m.op = "DATA" =>
                     /\ ~Requested(up[c])
                     /\ \A i \in 1 .. Len(Tail(up[c])) : Tail(up[c])[i].op = "DATA" =>
                                                         m.block <= Tail(up[c])[i].block
               /\ up'[c] = Tail(up[c]) /\ client' = client
               /\ Requested(up'[c]) => Requested(up[c])
               /\ \A d \in Clients \ {c} : up'[d] = up[d]
<1> DEFINE u == up[c]
           m == Head(u)
<1>1. u # << >> /\ u \in Seq(PacketsOf(c)) /\ up'[c] = Tail(u) /\ client' = client
      /\ \A d \in Clients \ {c} : up'[d] = up[d]
  BY TypesOf DEF Arrives
<1>2. m = u[1] /\ 1 \in 1 .. Len(u) /\ Len(u) \in Nat
  BY <1>1
<1>3. Rest(Tail(u), u, 1) /\ Len(Tail(u)) \in Nat
  BY <1>1, TailRest
<1>4. Requested(Tail(u)) => Requested(u)
  BY <1>2, <1>3, RestKeeps
<1>5. InOrder(u)
  BY DEF Flows, Flow
<1> HIDE DEF u, m
<1>6. ASSUME m.op = "DATA"
      PROVE  /\ ~Requested(u)
             /\ \A i \in 1 .. Len(Tail(u)) : Tail(u)[i].op = "DATA" => m.block <= Tail(u)[i].block
  <2>1. \A j \in 1 .. Len(u) : j > 1 => u[j].op = "DATA" /\ m.block <= u[j].block
    BY <1>2, <1>5, <1>6 DEF InOrder
  <2>2. \A j \in 1 .. Len(u) : u[j].op = "DATA"
    BY <1>2, <1>6, <2>1
  <2>3. \A i \in 1 .. Len(Tail(u)) : i + 1 \in 1 .. Len(u) /\ Tail(u)[i] = u[i + 1]
    BY <1>3 DEF Rest
  <2>4. ~Requested(u)
    BY <2>2 DEF Requested
  <2>5. \A i \in 1 .. Len(Tail(u)) : i + 1 > 1
    BY <1>3
  <2> QED  BY <2>1, <2>3, <2>4, <2>5
<1>7. m.op = "WRQ" => Requested(u)
  BY <1>2 DEF Requested
<1> QED  BY <1>1, <1>2, <1>4, <1>6, <1>7 DEF u, m

(* The client that the packet comes from: a is what the daemon answers.    *)
LEMMA FlowsArrive ==
    ASSUME IInv, UInv, NEW c \in Clients, Arrives(c),
           NEW op \in {"ACK", "ERROR"}, NEW n \in Nat, Replies(c, op, n),
           op = "ACK" => n \in 0 .. client[c].block,
           Requested(up[c]) /\ op = "ACK" => n = 0
    PROVE  /\ Flows' /\ OneActive'
           /\ down'[c] = OnTheWay(down[c] \o <<[op |-> op, block |-> n]>>, MaxDown)
<1> DEFINE a == [op |-> op, block |-> n]
<1>1. a \in Answers /\ a.op = op /\ a.block = n
  BY DEF Answers
<1>2. /\ up[c] # << >> /\ up'[c] = Tail(up[c]) /\ client' = client
      /\ \A d \in Clients \ {c} : up'[d] = up[d]
      /\ Requested(Tail(up[c])) => Requested(up[c])
  BY HeadOf DEF UInv
<1>3. down'[c] = OnTheWay(down[c] \o <<a>>, MaxDown) /\ \A d \in Clients \ {c} : down'[d] = down[d]
  BY TypesOf DEF Replies
<1> HIDE DEF a
<1>4. Flow(c, client[c], up[c], down[c])
  BY DEF UInv, Flows
<1>5. Flow(c, client[c], Tail(up[c]), down[c])
  BY <1>2, <1>4, TypesOf, FlowUpTail
<1>6. Flow(c, client[c], Tail(up[c]), down'[c])
  BY <1>1, <1>2, <1>3, <1>5, TypesOf, FlowReply
<1>7. Flows'
  BY <1>2, <1>3, <1>6 DEF UInv, Flows
<1>8. OneActive'
  BY <1>2 DEF UInv, OneActive, Active
<1> QED  BY <1>3, <1>7, <1>8 DEF a

LEMMA RefusedUpload ==
    ASSUME IInv, UInv, NEW c \in Clients, Arrives(c), daemon.state = "WAITING_RQ",
           RequestRefused(c)
    PROVE  UInv'
<1>1. daemon.block \in Nat /\ Waiting /\ Replies(c, "ERROR", daemon.block)
  BY UploadAssumption DEF IInv, NodeType, Daemons, UInv, RequestRefused
<1>2. Flows' /\ OneActive'
  BY <1>1, FlowsArrive
<1>3. /\ daemon'.state = "WAITING_RQ" /\ daemon'.block = daemon.block
      /\ daemon'.last = daemon.last
  BY DEF RequestRefused, IInv, NodeType, Daemons
<1>4. Transfer' /\ Waiting'
  BY <1>1, <1>3 DEF Transfer, Waiting
<1>5. Complete'
  BY <1>3, HeadOf DEF RequestRefused, UInv, Complete
<1> QED  BY <1>2, <1>4, <1>5 DEF UInv

LEMMA AcceptedUpload ==
    ASSUME IInv, UInv, NEW c \in Clients, Arrives(c), daemon.state = "WAITING_RQ",
           Head(up[c]).op = "WRQ", RequestAccepted(c)
    PROVE  UInv'
<1>1. daemon.block = 0 /\ Replies(c, "ACK", 0)
  BY DEF UInv, Waiting, RequestAccepted
<1>2. Requested(up[c]) /\ up[c] # << >> /\ up'[c] = Tail(up[c]) /\ client' = client
  BY HeadOf DEF UInv
<1>3. client[c].block \in Nat /\ 0 \in 0 .. client[c].block
  BY TypesOf
<1>4. /\ Flows' /\ OneActive'
      /\ down'[c] = OnTheWay(down[c] \o <<[op |-> "ACK", block |-> 0]>>, MaxDown)
  BY <1>1, <1>3, FlowsArrive
<1>5. ~server.done /\ ~server'.done /\ server'.size = 0
  <2>1. ~server.done
    BY <1>2 DEF UInv, Complete
  <2> QED  BY <2>1 DEF RequestAccepted, IInv, NodeType, Servers
<1>6. /\ daemon'.state = "WRQ_RECV_PACKET" /\ daemon'.port = c /\ daemon'.block = 0
      /\ ~daemon'.last
  BY <1>1 DEF RequestAccepted
<1>7. Following(daemon', 0, buffer')
  <2>1. 0 < LastBlock(c) /\ 0 >= 0 * BLOCK /\ \A i \in 1 .. 0 : FALSE
    BY LastBlockType, UploadAssumption
  <2> QED  BY <1>6, <2>1 DEF Following
<1>8. InStep(0, client'[c], up'[c], down'[c])
  <2>1. Flow(c, client[c], up[c], down[c]) /\ Flow(c, client'[c], up'[c], down'[c])
    BY <1>4 DEF UInv, Flows
  <2>2. client[c].block <= 0 + 1 /\ client[c].block >= 0
    <3>1. client[c].block <= 1
      BY <1>2, <2>1 DEF Flow
    <3> QED  BY <1>3, <3>1, ZeroRange
  <2>3. \A i \in 1 .. Len(up'[c]) : up'[c][i].op = "DATA" => up'[c][i].block >= 0
    <3>1. \A i \in 1 .. Len(up'[c]) : up'[c][i] \in Sent(c, client[c].block)
      BY <1>2, <2>1 DEF Flow
    <3>2. \A p \in Sent(c, client[c].block) : p.op = "DATA" => p.block >= 0
      BY <1>3, PacketOps
    <3> QED  BY <3>1, <3>2
  <2>4. AcksIn(down'[c], 0 .. 0)
    <3>1. AcksIn(down[c], {0})
      BY <1>2, <2>1 DEF Flow
    <3>2. [op |-> "ACK", block |-> 0] \in Answers
      BY DEF Answers
    <3> QED  BY <1>4, <3>1, <3>2, TypesOf, AcksInAppend, ZeroRange
  <2> QED  BY <1>2, <2>2, <2>3, <2>4 DEF InStep
<1>10. ASSUME NEW d \in Clients \ {c}
       PROVE  Outside(client'[d], up'[d], down'[d])
  <2>1. ~Active(d)
    BY <1>2 DEF UInv, OneActive, Active
  <2>2. client'[d] = client[d] /\ up'[d] = up[d]
    BY HeadOf DEF UInv
  <2> QED  BY <2>1, <2>2, NothingSent DEF Active, Outside, Busy
<1>9. Transfer' /\ Waiting' /\ Complete'
  BY <1>5, <1>6, <1>7, <1>8, <1>10 DEF Transfer, Waiting, Complete
<1> QED  BY <1>4, <1>9 DEF UInv

LEMMA DaemonBlock ==
    ASSUME IInv
    PROVE  daemon.block \in Nat /\ Blocks \in Nat /\ daemon.block <= Blocks
  BY UploadAssumption DEF IInv, NodeType, Daemons

(* Block n of the client that the daemon follows has come. *)
LEMMA BlockFacts ==
    ASSUME IInv, UInv, NEW c \in Clients, Arrives(c), daemon.state = "WRQ_RECV_PACKET",
           daemon.port = c, NEW n \in 1 .. client[c].block, Head(up[c]) = Data(c, n)
    PROVE  /\ daemon.block \in 0 .. Blocks /\ n \in Nat /\ n >= daemon.block
           /\ n <= daemon.block + 1
           /\ ~server.done /\ Following(daemon, server.size, buffer)
           /\ InStep(daemon.block, client[c], up[c], down[c])
           /\ \A d \in Clients \ {c} : Outside(client[d], up[d], down[d])
           /\ ~Requested(up[c]) /\ n \in 0 .. client[c].block
           /\ client[c].phase \notin {"asks", "asks other"}
           /\ \A i \in 1 .. Len(up'[c]) : up'[c][i].op = "DATA" => n <= up'[c][i].block
<1>1. /\ up[c] # << >> /\ Head(up[c]) = up[c][1] /\ 1 \in 1 .. Len(up[c])
      /\ up'[c] = Tail(up[c])
  BY HeadOf DEF UInv
<1>2. Head(up[c]).op = "DATA" /\ Head(up[c]).block = n
  BY DEF Data
<1>3. /\ ~server.done /\ Following(daemon, server.size, buffer)
      /\ InStep(daemon.block, client[c], up[c], down[c])
      /\ \A d \in Clients \ {c} : Outside(client[d], up[d], down[d])
  BY DEF UInv, Transfer
<1>4. n >= daemon.block /\ client[c].block <= daemon.block + 1
  BY <1>1, <1>2, <1>3 DEF InStep
<1>5. daemon.block \in 0 .. Blocks /\ client[c].block \in Nat
  BY TypesOf DEF IInv, NodeType, Daemons
<1>6. n \in Nat /\ n <= daemon.block + 1 /\ n \in 0 .. client[c].block /\ client[c].block # 0
  BY <1>4, <1>5, UploadAssumption
<1>7. client[c].phase \notin {"asks", "asks other"}
  BY <1>6 DEF UInv, Flows, Flow
<1>8. /\ ~Requested(up[c])
      /\ \A i \in 1 .. Len(up'[c]) : up'[c][i].op = "DATA" => n <= up'[c][i].block
  BY <1>1, <1>2, HeadOf DEF UInv
<1> QED  BY <1>3, <1>4, <1>5, <1>6, <1>7, <1>8

LEMMA StoredUpload ==
    ASSUME IInv, UInv, NEW c \in Clients, Arrives(c), daemon.state = "WRQ_RECV_PACKET",
           daemon.port = c, NEW n \in 1 .. client[c].block, Head(up[c]) = Data(c, n),
           BlockStored(c, n)
    PROVE  UInv'
<1> DEFINE b == daemon.block
<1>1. /\ b \in 0 .. Blocks /\ n \in Nat /\ n >= b /\ n <= b + 1
      /\ ~server.done /\ Following(daemon, server.size, buffer)
      /\ InStep(b, client[c], up[c], down[c])
      /\ \A d \in Clients \ {c} : Outside(client[d], up[d], down[d])
      /\ ~Requested(up[c]) /\ n \in 0 .. client[c].block
      /\ client[c].phase \notin {"asks", "asks other"}
      /\ \A i \in 1 .. Len(up'[c]) : up'[c][i].op = "DATA" => n <= up'[c][i].block
  BY BlockFacts
<1>0. /\ b \in Nat /\ Blocks \in Nat
      /\ n = b \/ n = b + 1
      /\ 0 .. b \subseteq 0 .. n /\ n \in 0 .. n
      /\ \A i \in 1 .. n : i # n => i \in 1 .. b
      /\ \A k \in Nat : k <= b + 1 => k <= n + 1
      /\ \A k \in Nat : n \in 1 .. k => k >= n
      /\ \A k \in Nat : n <= k => \A i \in 1 .. n : i \in 1 .. k
  <2>1. b \in Nat /\ Blocks \in Nat
    BY DaemonBlock
  <2> QED  BY <1>1, <2>1, NextBlock
<1>2. /\ Flows' /\ OneActive'
      /\ down'[c] = OnTheWay(down[c] \o <<[op |-> "ACK", block |-> n]>>, MaxDown)
  BY <1>1, FlowsArrive DEF BlockStored
<1>3. /\ daemon'.state = "WRQ_RECV_PACKET" /\ daemon'.port = c /\ daemon'.block = n
      /\ daemon'.last = daemon.last
  BY DEF BlockStored, IInv, NodeType, Daemons
<1>4. /\ ~server'.done /\ server'.size = Grown(server.size, BLOCK)
      /\ server.size \in 0 .. FLASH + 1
  BY <1>1 DEF BlockStored, IInv, NodeType, Servers
<1>5. Following(daemon', server'.size, buffer')
  <2>1. n < LastBlock(c) /\ ~daemon.last
    BY <1>1 DEF BlockStored, Following
  <2>2. ASSUME NEW i \in 1 .. n PROVE buffer'[i] = c
    <3>1. /\ buffer' = [buffer EXCEPT ![n] = c] /\ n <= Blocks
          /\ buffer \in [1 .. Blocks -> Senders \cup {None}]
      BY DEF BlockStored, IInv, NodeType, Buffers
    <3>2. i \in 1 .. Blocks
      BY <1>0, <3>1
    <3>3. i # n => i \in 1 .. b
      BY <1>0
    <3>4. i # n => buffer[i] = c
      BY <1>1, <3>3 DEF Following
    <3> QED  BY <3>1, <3>2, <3>4
  <2>3. server'.size >= n * BLOCK \/ server'.size > FLASH
    <3> DEFINE size == server.size
               size2 == server'.size
    <3>1. /\ size2 = size + BLOCK \/ size2 > FLASH
          /\ size > FLASH => size2 > FLASH
          /\ size2 >= size
      BY <1>4, GrownBounds, UploadAssumption
    <3>2. size >= b * BLOCK \/ size > FLASH
      BY <1>1 DEF Following
    <3>3. (b + 1) * BLOCK = b * BLOCK + BLOCK /\ b * BLOCK \in Nat
      BY <1>0, ProductGrows
    <3>4. n = b \/ n = b + 1
      BY <1>0
    <3>5. size \in Nat /\ size2 \in Nat /\ BLOCK \in Nat
      BY <1>4, UploadAssumption DEF Grown
    <3>6. n * BLOCK = b * BLOCK \/ n * BLOCK = b * BLOCK + BLOCK
      BY <3>3, <3>4
    <3> HIDE DEF size, size2
    <3>7. size2 >= n * BLOCK \/ size2 > FLASH
      BY <3>1, <3>2, <3>3, <3>5, <3>6
    <3> QED  BY <3>7 DEF size2
  <2>4. n # 0
    OBVIOUS
  <2> QED  BY <1>3, <2>1, <2>2, <2>3, <2>4 DEF Following
<1>6. InStep(n, client'[c], up'[c], down'[c])
  <2>1. client' = client /\ client[c].block \in Nat
    BY TypesOf, HeadOf DEF UInv
  <2>2. client[c].block <= n + 1 /\ client[c].block >= n
    <3>1. client[c].block <= b + 1
      BY <1>1 DEF InStep
    <3> QED  BY <1>0, <2>1, <3>1
  <2>3. \A i \in 1 .. Len(up'[c]) : up'[c][i].op = "DATA" => up'[c][i].block >= n
    <3>1. Flow(c, client[c], up'[c], down'[c])
      BY <1>2, <2>1 DEF Flows
    <3>2. \A i \in 1 .. Len(up'[c]) : up'[c][i] \in Sent(c, client[c].block)
      BY <3>1 DEF Flow
    <3>3. \A p \in Sent(c, client[c].block) : p.op = "DATA" => p.block \in Nat
      BY <2>1, PacketOps
    <3> QED  BY <1>1, <3>2, <3>3
  <2>4. AcksIn(down'[c], 0 .. n)
    <3>1. AcksIn(down[c], 0 .. b)
      BY <1>1 DEF InStep
    <3>2. AcksIn(down[c], 0 .. n)
      BY <1>0, <3>1 DEF AcksIn
    <3>3. [op |-> "ACK", block |-> n] \in Answers
      BY <1>1 DEF Answers
    <3> QED  BY <1>2, <1>0, <3>2, <3>3, TypesOf, AcksInAppend
  <2> QED  BY <1>1, <2>1, <2>2, <2>3, <2>4 DEF InStep
<1>8. ASSUME NEW d \in Clients \ {c}
      PROVE  Outside(client'[d], up'[d], down'[d])
  <2>1. client'[d] = client[d] /\ up'[d] = up[d]
    BY HeadOf DEF UInv
  <2>2. down'[d] = down[d]
    BY TypesOf DEF BlockStored, Replies
  <2> QED  BY <1>1, <2>1, <2>2
<1>7. Transfer' /\ Waiting' /\ Complete'
  BY <1>3, <1>4, <1>5, <1>6, <1>8 DEF Transfer, Waiting, Complete
<1> QED  BY <1>2, <1>7 DEF UInv

(* The file has ended: what the client sent is in the buffer, or nothing   *)
(* is to be installed.                                                     *)
LEMMA EndedIsWhole ==
    ASSUME IInv, NEW c \in Clients, Following(daemon, server.size, buffer), daemon.port = c,
           NEW n \in Nat, n >= daemon.block, n <= daemon.block + 1, FileEnded(c, n)
    PROVE  Whole(server'.size, buffer')
<1> DEFINE b == daemon.block
           size == server.size
           size2 == server'.size
           length == Length(c, n)
<1>1. /\ b < n /\ n = LastBlock(c) /\ n # 0
      /\ \A i \in 1 .. b : buffer[i] = c
      /\ size >= b * BLOCK \/ size > FLASH
      /\ b = 0 => size = 0
  BY LastBlockType DEF Following, FileEnded
<1>2. /\ b \in Nat /\ Blocks \in Nat /\ BLOCK \in Nat /\ FLASH \in Nat /\ b <= Blocks
      /\ size \in 0 .. FLASH + 1 /\ length \in Nat
      /\ buffer \in [1 .. Blocks -> Senders \cup {None}]
  <2>1. length \in Nat
    BY <1>1, LengthOfBlock
  <2> QED  BY <2>1, DaemonBlock, UploadAssumption DEF IInv, NodeType, Servers, Buffers
<1>3. n = b + 1
  BY <1>1, <1>2
<1>4. Size[c] = b * BLOCK + length /\ b * BLOCK \in Nat /\ Size[c] \in Nat
  <2>1. Size[c] = (n - 1) * BLOCK + length
    BY <1>1, SizeOfFile
  <2>2. n - 1 = b /\ b * BLOCK \in Nat
    BY <1>2, <1>3, ProductGrows
  <2> QED  BY <2>1, <2>2, UploadAssumption
<1>5. CASE n <= Blocks /\ size2 = Grown(size, length)
           /\ buffer' = IF length = 0 THEN buffer ELSE [buffer EXCEPT ![n] = c]
  <2>1. size2 >= Size[c] \/ size2 > FLASH
    <3>1. /\ size2 = size + length \/ size2 > FLASH
          /\ size > FLASH => size2 > FLASH
          /\ size \in Nat
      BY <1>2, <1>5, GrownBounds
    <3> HIDE DEF b, size, size2, length
    <3> QED  BY <1>1, <1>2, <1>4, <3>1
  <2>2. ASSUME NEW i \in 1 .. LastBlock(c), Length(c, i) > 0
        PROVE  i <= Blocks /\ buffer'[i] = c
    <3>1. i \in 1 .. Blocks
      BY <1>1, <1>2, <1>5, <2>2
    <3>2. CASE i = n
      <4>1. length # 0
        BY <1>2, <2>2, <3>2
      <4> QED  BY <1>2, <1>5, <3>1, <3>2, <4>1
    <3>3. CASE i # n
      <4>1. i \in 1 .. b
        BY <1>1, <1>2, <1>3, <3>3
      <4>2. buffer[i] = c
        BY <1>1, <4>1
      <4> QED  BY <1>2, <1>5, <3>1, <3>3, <4>2
    <3> QED  BY <3>2, <3>3
  <2> QED  BY <2>1, <2>2 DEF Whole, Holds
<1>6. CASE (n <= Blocks => n = 1) /\ size2 = IF n > Blocks THEN 0 ELSE size
  <2>1. CASE n > Blocks
    BY <1>6, <2>1 DEF Whole
  <2>2. CASE ~(n > Blocks)
    <3>1. n = 1
      BY <1>2, <1>6, <2>2
    <3>2. b = 0
      BY <1>2, <1>3, <3>1
    <3> QED  BY <1>1, <1>6, <2>2, <3>2 DEF Whole
  <2> QED  BY <2>1, <2>2
<1> QED  BY <1>5, <1>6 DEF FileEnded

LEMMA EndedUpload ==
    ASSUME IInv, UInv, NEW c \in Clients, Arrives(c), daemon.state = "WRQ_RECV_PACKET",
           daemon.port = c, NEW n \in 1 .. client[c].block, Head(up[c]) = Data(c, n),
           FileEnded(c, n)
    PROVE  UInv'
<1>1. /\ n \in Nat /\ n >= daemon.block /\ n <= daemon.block + 1
      /\ Following(daemon, server.size, buffer)
      /\ ~Requested(up[c]) /\ n \in 0 .. client[c].block
      /\ client[c].phase \notin {"asks", "asks other"}
  BY BlockFacts
<1>2. Flows' /\ OneActive'
  BY <1>1, FlowsArrive DEF FileEnded
<1>3. Whole(server'.size, buffer')
  BY <1>1, EndedIsWhole
<1>4. /\ client' = client /\ up[c] # << >> /\ ~Requested(up'[c])
      /\ \A d \in Clients \ {c} : up'[d] = up[d]
  BY <1>1, HeadOf DEF UInv
<1>5. ASSUME NEW d \in Clients
      PROVE  ~Requested(up'[d]) /\ client'[d].phase # "asks"
  <2>1. CASE d = c
    BY <1>1, <1>4, <2>1
  <2>2. CASE d # c
    <3>1. ~Active(d)
      BY <1>4, <2>2 DEF UInv, OneActive, Active
    <3> QED  BY <1>4, <2>2, <3>1, NothingSent DEF Active, Busy
  <2> QED  BY <2>1, <2>2
<1>6. daemon'.state = "WAITING_RQ" /\ daemon'.block = 0 /\ ~daemon'.last
  BY DEF FileEnded, Fresh
<1>7. Transfer' /\ Waiting' /\ Complete'
  BY <1>3, <1>5, <1>6 DEF Transfer, Waiting, Complete
<1> QED  BY <1>2, <1>7 DEF UInv

LEMMA StoppedUpload ==
    ASSUME IInv, UInv, NEW c \in Clients, Arrives(c), daemon.state = "WRQ_RECV_PACKET",
           daemon.port = c, NEW n \in 1 .. client[c].block, Head(up[c]) = Data(c, n),
           WriteFailed(c, n)
    PROVE  UInv'
<1>1. n \in Nat /\ ~Requested(up[c]) /\ n \in 0 .. client[c].block /\ ~server.done
  BY BlockFacts
<1>2. Flows' /\ OneActive'
  BY <1>1, FlowsArrive DEF WriteFailed
<1>3. daemon'.state = "WAITING_RQ" /\ daemon'.block = 0 /\ ~daemon'.last
  BY DEF WriteFailed, Fresh
<1>4. ~server'.done
  BY <1>1 DEF WriteFailed, IInv, NodeType, Servers
<1>5. Transfer' /\ Waiting' /\ Complete'
  BY <1>3, <1>4 DEF Transfer, Waiting, Complete
<1> QED  BY <1>2, <1>5 DEF UInv

-----------------------------------------------------------------------------
LEMMA InitUpload == Init => UInv
<1> SUFFICES ASSUME Init PROVE UInv
  OBVIOUS
<1>1. \A c \in Clients : up[c] = << >> /\ down[c] = << >>
                         /\ client[c] = [phase |-> "idle", block |-> 0]
  BY DEF Init
<1>2. Flows
  <2> SUFFICES ASSUME NEW c \in Clients PROVE Flow(c, client[c], up[c], down[c])
    BY DEF Flows
  <2>1. client[c].block = 0 /\ client[c].phase = "idle"
    BY <1>1
  <2>2. 0 <= LastBlock(c)
    BY BlockZero
  <2> QED  BY <1>1, <2>1, <2>2, NothingSent DEF Flow
<1>3. OneActive
  <2>1. ASSUME NEW c \in Clients PROVE ~Active(c)
    <3>1. up[c] = << >> /\ client[c].phase = "idle"
      BY <1>1
    <3> QED  BY <3>1 DEF Active, Busy
  <2> QED  BY <2>1 DEF OneActive
<1>4. daemon.state = "INIT" /\ ~server.done
  BY DEF Init, NoDaemon, NewServer
<1>5. Transfer /\ Waiting /\ Complete
  BY <1>4 DEF Transfer, Waiting, Complete
<1> QED  BY <1>2, <1>3, <1>5 DEF UInv

LEMMA SwitchUpload == ASSUME IInv, UInv, SwitchOn \/ SwitchOff PROVE UInv'
<1>1. UNCHANGED <<client, up, down>>
  BY DEF SwitchOn, SwitchOff
<1>2. Flows' /\ OneActive'
  BY <1>1 DEF UInv, Flows, OneActive, Active
<1>3. /\ ~server'.done /\ daemon'.state # "WRQ_RECV_PACKET"
      /\ daemon'.block = 0 /\ ~daemon'.last
  BY DEF SwitchOn, SwitchOff, NewServer, NoDaemon, Fresh
<1>4. Transfer' /\ Waiting' /\ Complete'
  BY <1>3 DEF Transfer, Waiting, Complete
<1> QED  BY <1>2, <1>4 DEF UInv

LEMMA ArrivesUpload == ASSUME IInv, UInv, NEW c \in Clients, Arrives(c) PROVE UInv'
<1> DEFINE to == bound[Head(up[c]).to]
<1>1. CASE to = 0
  <2>1. LoseUp(c) /\ UNCHANGED node
    BY <1>1 DEF Arrives, LoseUp, node
  <2>2. StepOf(c) /\ GoesOn
    BY <2>1, LoseStep DEF UInv, node, GoesOn
  <2> QED  BY <2>2, ClientStepUpload
<1>5. CASE TakenOver(c)
  <2>1. StepOf(c)
    BY <1>5, TakenStep DEF Arrives, TakenOver, UInv
  <2>2. GoesOn
    BY <1>5 DEF TakenOver, GoesOn, IInv, NodeType, Daemons
  <2> QED  BY <2>1, <2>2, ClientStepUpload
<1>2. CASE to # 0 /\ daemon.state = "WAITING_RQ"
  <2>1. \/ TakenOver(c)
        \/ RequestRefused(c)
        \/ Head(up[c]).op = "WRQ" /\ RequestAccepted(c)
    BY <1>2, RequestArrives DEF UInv
  <2> QED  BY <1>2, <1>5, <2>1, RefusedUpload, AcceptedUpload
<1>3. CASE to # 0 /\ daemon.state = "WRQ_RECV_PACKET"
  <2>1. \/ TakenOver(c)
        \/ /\ daemon.port = c
           /\ \E n \in 1 .. client[c].block :
                 /\ Head(up[c]) = Data(c, n)
                 /\ BlockStored(c, n) \/ FileEnded(c, n) \/ WriteFailed(c, n)
    BY <1>3, DataArrives DEF UInv
  <2> QED  BY <1>3, <1>5, <2>1, StoredUpload, EndedUpload, StoppedUpload
<1>4. to # 0 => daemon.state \in {"WAITING_RQ", "WRQ_RECV_PACKET"}
  BY DEF Arrives, IInv, NodeType
<1> QED  BY <1>1, <1>2, <1>3, <1>4

(* The packets of strangers that make no difference to what is installed:  *)
(* no block of them is stored, or ends the file.                           *)
HarmlessStrays ==
    \A m \in Strays : m.op = "DATA" => m.length > 0 /\ ~CanWrite(m.from, m.block)

LEMMA StrayEffect ==
    ASSUME IInv, HarmlessStrays, NEW m \in Strays, Stray(m)
    PROVE  /\ UNCHANGED <<buffer, flash, client, up, down>> /\ server'.done = server.done
           /\ \/ daemon' = [daemon EXCEPT !.from = m.from] /\ server' = server
              \/ daemon.state = "WRQ_RECV_PACKET" /\ daemon' = Fresh
<1>1. /\ m.from \in Senders /\ m.op \in {"DATA", "OTHER"} /\ Contents(m)
      /\ (m.op = "DATA" => m.length # 0 /\ ~CanWrite(m.from, m.block))
  BY ContentsOf, UploadAssumption DEF Senders, HarmlessStrays, Contents
<1>2. PICK hole \in BOOLEAN : Takes(Input(m.from, m, hole))
  BY DEF Stray
<1> DEFINE s == [Node(hole) EXCEPT !.daemon.from = m.from]
           r == Input(m.from, m, hole)
<1>3. /\ s \in States(0 .. Blocks) /\ s \in States(Nat)
      /\ s.daemon = [daemon EXCEPT !.from = m.from] /\ s.server = server /\ s.buffer = buffer
  BY <1>1, InputRecord DEF IInv
<1>4. /\ daemon' = r.daemon /\ server' = r.server /\ buffer' = r.buffer
      /\ UNCHANGED <<flash, client, up, down>>
  BY <1>2 DEF Takes, Stray
<1>5. daemon.state \in {"WAITING_RQ", "WRQ_RECV_PACKET"}
  BY DEF Stray, IInv, NodeType
<1>6. s.daemon.from = m.from
  BY <1>3 DEF IInv, NodeType, Daemons
<1>7. CASE daemon.state = "WAITING_RQ"
  <2>1. r = s \/ r = Answer(s, "ERROR")
    BY <1>1, <1>7 DEF Input, HandleRequest
  <2> HIDE DEF s, r
  <2> QED  BY <1>3, <1>4, <2>1, AnswerFields
<1>8. CASE daemon.state = "WRQ_RECV_PACKET"
  <2>1. r = HandleRecvData(s, m)
    BY <1>8 DEF Input
  <2> HIDE DEF s, r
  <2>2. CASE m.op # "DATA"
    <3>1. r = s
      BY <2>1, <2>2 DEF HandleRecvData
    <3> QED  BY <1>3, <1>4, <3>1
  <2>3. CASE m.op = "DATA"
    <3> DEFINE w == Refuse(s, m)
               e == Answer(w, "ERROR")
    <3>1. r = Restart(e)
      BY <1>1, <1>6, <2>1, <2>3 DEF HandleRecvData
    <3>2. w \in States(Nat)
      BY <1>1, <1>3, RefuseType
    <3>3. w.server.done = server.done /\ w.buffer = buffer
      <4>1. /\ w.server = [server EXCEPT !.size = IF m.block > Blocks THEN 0 ELSE @]
            /\ w.buffer = buffer
        BY <1>3, RefuseFields
      <4> QED  BY <4>1 DEF IInv, NodeType, Servers
    <3> HIDE DEF w
    <3>4. /\ e \in States(Nat) /\ e.server = w.server /\ e.buffer = w.buffer
      BY <3>2, AnswerFields
    <3> HIDE DEF e
    <3>5. r.daemon = Fresh /\ r.server = e.server /\ r.buffer = e.buffer
      BY <3>1, <3>4, RestartFields
    <3> QED  BY <1>4, <1>8, <3>3, <3>4, <3>5
  <2> QED  BY <1>1, <2>2, <2>3
<1> QED  BY <1>5, <1>7, <1>8

LEMMA StrayUpload ==
    ASSUME IInv, UInv, HarmlessStrays, NEW m \in Strays, Stray(m)
    PROVE  UInv'
<1>1. /\ UNCHANGED <<buffer, client, up, down>> /\ server'.done = server.done
      /\ \/ daemon' = [daemon EXCEPT !.from = m.from] /\ server' = server
         \/ daemon.state = "WRQ_RECV_PACKET" /\ daemon' = Fresh
  BY StrayEffect
<1>2. Flows' /\ OneActive'
  BY <1>1 DEF UInv, Flows, OneActive, Active
<1>3. CASE daemon' = [daemon EXCEPT !.from = m.from] /\ server' = server
  <2>1. /\ daemon'.state = daemon.state /\ daemon'.port = daemon.port
        /\ daemon'.block = daemon.block /\ daemon'.last = daemon.last
    BY <1>3 DEF IInv, NodeType, Daemons
  <2>2. Transfer' /\ Waiting' /\ Complete'
    BY <1>1, <1>3, <2>1 DEF UInv, Transfer, Following, Waiting, Complete
  <2> QED  BY <1>2, <2>2 DEF UInv
<1>4. CASE daemon.state = "WRQ_RECV_PACKET" /\ daemon' = Fresh
  <2>1. ~server'.done
    BY <1>1, <1>4 DEF UInv, Transfer
  <2>2. daemon'.state = "WAITING_RQ" /\ daemon'.block = 0 /\ ~daemon'.last
    BY <1>4, FreshType
  <2>3. Transfer' /\ Waiting' /\ Complete'
    BY <2>1, <2>2 DEF Transfer, Waiting, Complete
  <2> QED  BY <1>2, <2>3 DEF UInv
<1> QED  BY <1>1, <1>3, <1>4

LEMMA StepUpload ==
    ASSUME HarmlessStrays
    PROVE  IInv /\ UInv /\ [Next]_vars => UInv'
<1> SUFFICES ASSUME IInv, UInv, [Next]_vars PROVE UInv'
  OBVIOUS
<1>5. ASSUME NEW m \in Strays, Stray(m) PROVE UInv'
  BY <1>5, StrayUpload
<1>1. CASE UNCHANGED vars
  BY <1>1 DEF vars, node, UInv, Flows, OneActive, Active, Transfer, Waiting, Complete
<1>2. CASE SwitchOn \/ SwitchOff
  BY <1>2, SwitchUpload
<1>3. ASSUME NEW c \in Clients, Arrives(c) PROVE UInv'
  BY <1>3, ArrivesUpload
<1>4. ASSUME NEW c \in Clients,
             \/ Start(c) \/ Repeat(c) \/ GiveUp(c)
             \/ Acknowledged(c) \/ Failed(c) \/ LoseUp(c) \/ LoseDown(c)
      PROVE  UInv'
  <2>1. GoesOn
    BY <1>4 DEF Start, Repeat, GiveUp, Acknowledged, Failed, LoseUp, LoseDown, node, GoesOn
  <2>2. StepOf(c)
    BY <1>4, StartStep, RepeatStep, GiveUpStep, AcknowledgedStep, LoseStep DEF UInv
  <2> QED  BY <2>1, <2>2, ClientStepUpload
<1> QED  BY <1>1, <1>2, <1>3, <1>4, <1>5 DEF Next

LEMMA UploadAlways ==
    ASSUME HarmlessStrays
    PROVE  Spec => [](IInv /\ UInv)
<1>1. Init => IInv /\ UInv
  BY InitInv, InitUpload
<1>2. IInv /\ UInv /\ [Next]_vars => (IInv /\ UInv)'
  BY StepInv, StepUpload
<1> QED  BY <1>1, <1>2, PTL DEF Spec

-----------------------------------------------------------------------------
(* The upload as FirmwareInstalled sees it.                                *)

Received == IF server.done /\ server.size > 0 THEN Owner(server.size, buffer) ELSE None
Image == IF flash.size = 0 THEN None ELSE Owner(flash.size, flash.blocks)

LEMMA OwnerIsClient ==
    ASSUME NEW size, NEW blocks, Whole(size, blocks), size # 0
    PROVE  Owner(size, blocks) \in Clients
  BY DEF Whole, Owner

LEMMA SwitchInstalls ==
    ASSUME IInv, UInv, SwitchOff
    PROVE  \/ Received # None /\ Image' = Received /\ Received' = None
           \/ Received' = None /\ Image' = Image
<1>1. Received' = None
  BY DEF SwitchOff, NewServer, Received
<1>2. CASE server.done /\ server.size \in 1 .. FLASH
  <2>1. flash' = [size |-> server.size, blocks |-> buffer]
    BY <1>2 DEF SwitchOff, WriteFirmware
  <2>2. server.size > 0 /\ server.size # 0
    BY <1>2, UploadAssumption
  <2>3. Received = Owner(server.size, buffer)
    BY <1>2, <2>2 DEF Received
  <2>4. Image' = Owner(server.size, buffer)
    BY <2>1, <2>2 DEF Image
  <2>5. Owner(server.size, buffer) \in Clients
    BY <1>2, <2>2, OwnerIsClient DEF UInv, Complete
  <2> QED  BY <1>1, <2>3, <2>4, <2>5, UploadAssumption
<1>3. CASE ~(server.done /\ server.size \in 1 .. FLASH)
  <2>1. flash' = flash
    BY <1>3 DEF SwitchOff, WriteFirmware
  <2> QED  BY <1>1, <2>1 DEF Image
<1> QED  BY <1>2, <1>3

LEMMA ArrivalReceives ==
    ASSUME IInv, UInv, NEW c \in Clients, Arrives(c)
    PROVE  /\ Image' = Image
           /\ Received' = Received \/ Received' \in Clients
<1>1. Image' = Image
  BY DEF Arrives, Image
<1> DEFINE to == bound[Head(up[c]).to]
<1>6. CASE TakenOver(c)
  BY <1>1, <1>6 DEF TakenOver, Received
<1>2. CASE to = 0
  BY <1>1, <1>2 DEF Arrives, Received
<1>3. CASE to # 0 /\ daemon.state = "WAITING_RQ"
  <2>1. CASE RequestRefused(c)
    BY <1>1, <2>1 DEF RequestRefused, Received
  <2>2. CASE Head(up[c]).op = "WRQ" /\ RequestAccepted(c)
    <3>1. ~server.done
      BY <2>2, HeadOf DEF UInv, Complete
    <3>2. ~server'.done
      BY <2>2, <3>1 DEF RequestAccepted, IInv, NodeType, Servers
    <3> QED  BY <1>1, <3>1, <3>2 DEF Received
  <2> QED  BY <1>3, <1>6, <2>1, <2>2, RequestArrives DEF UInv
<1>4. CASE to # 0 /\ daemon.state = "WRQ_RECV_PACKET"
  <2>0. CASE TakenOver(c)
    BY <1>6, <2>0
  <2> SUFFICES ASSUME ~TakenOver(c)
               PROVE  Image' = Image /\ (Received' = Received \/ Received' \in Clients)
    BY <2>0
  <2>1. PICK n \in 1 .. client[c].block :
           /\ daemon.port = c /\ Head(up[c]) = Data(c, n)
           /\ BlockStored(c, n) \/ FileEnded(c, n) \/ WriteFailed(c, n)
    BY <1>4, DataArrives DEF UInv
  <2>2. /\ n \in Nat /\ n >= daemon.block /\ n <= daemon.block + 1
        /\ ~server.done /\ Following(daemon, server.size, buffer)
    BY <1>4, <2>1, BlockFacts
  <2>3. CASE BlockStored(c, n) \/ WriteFailed(c, n)
    <3>1. ~server'.done
      BY <2>2, <2>3 DEF BlockStored, WriteFailed, IInv, NodeType, Servers
    <3> QED  BY <1>1, <2>2, <3>1 DEF Received
  <2>4. CASE FileEnded(c, n)
    <3>1. Whole(server'.size, buffer')
      BY <2>1, <2>2, <2>4, EndedIsWhole
    <3>2. CASE server'.done /\ server'.size > 0
      <4>1. server'.size # 0
        BY <3>2
      <4>2. Received' \in Clients
        BY <3>1, <3>2, <4>1, OwnerIsClient DEF Received
      <4> QED  BY <1>1, <4>2
    <3>3. CASE ~(server'.done /\ server'.size > 0)
      BY <1>1, <2>2, <3>3 DEF Received
    <3> QED  BY <3>2, <3>3
  <2> QED  BY <2>1, <2>3, <2>4
<1>5. to # 0 => daemon.state \in {"WAITING_RQ", "WRQ_RECV_PACKET"}
  BY DEF Arrives, IInv, NodeType
<1> QED  BY <1>2, <1>3, <1>4, <1>5

LEMMA StepPromise ==
    ASSUME HarmlessStrays, IInv, UInv, [Next]_vars
    PROVE  \/ Received # None /\ Image' = Received /\ Received' = None
           \/ Image' = Image /\ Received' \in Clients \cup {None, Received}
<1>1. ASSUME UNCHANGED <<server, buffer, flash>>
      PROVE  Image' = Image /\ Received' = Received
  BY <1>1 DEF Image, Received
<1>2. CASE UNCHANGED vars
  BY <1>1, <1>2 DEF vars, node
<1>3. CASE SwitchOn
  <2>1. Received' = None /\ Image' = Image
    BY <1>3 DEF SwitchOn, NewServer, Received, Image
  <2> QED  BY <2>1
<1>4. CASE SwitchOff
  BY <1>4, SwitchInstalls
<1>5. ASSUME NEW c \in Clients, Arrives(c)
      PROVE  Image' = Image /\ Received' \in Clients \cup {None, Received}
  BY <1>5, ArrivalReceives
<1>7. ASSUME NEW m \in Strays, Stray(m)
      PROVE  Image' = Image /\ Received' = Received
  <2>1. /\ UNCHANGED <<buffer, flash>> /\ server'.done = server.done
        /\ \/ server' = server
           \/ daemon.state = "WRQ_RECV_PACKET"
    BY <1>7, StrayEffect
  <2>2. daemon.state = "WRQ_RECV_PACKET" => ~server.done
    BY DEF UInv, Transfer
  <2> QED  BY <2>1, <2>2 DEF Image, Received
<1>6. ASSUME NEW c \in Clients,
             \/ Start(c) \/ Repeat(c) \/ GiveUp(c)
             \/ Acknowledged(c) \/ Failed(c) \/ LoseUp(c) \/ LoseDown(c)
      PROVE  Image' = Image /\ Received' = Received
  <2>1. UNCHANGED node
    BY <1>6 DEF Start, Repeat, GiveUp, Acknowledged, Failed, LoseUp, LoseDown
  <2> QED  BY <1>1, <2>1 DEF node
<1> QED  BY <1>2, <1>3, <1>4, <1>5, <1>6, <1>7 DEF Next

(* Whatever is lost, sent again, given up or switched off on the way, what *)
(* SwitchOff installs was received from its first byte to its last one.    *)
(* Packets of strangers change nothing of that, except for a block that is *)
(* stored or that ends the file: those are left to the hypothesis.         *)
THEOREM UpdateKeepsPromise ==
    ASSUME HarmlessStrays
    PROVE  Spec => InstallsWhole
<1>1. Init => Promise!Init
  BY DEF Init, NewServer, Promise!Init
<1>2. IInv /\ UInv /\ [Next]_vars => [Promise!Next]_(Promise!vars)
  <2> SUFFICES ASSUME IInv, UInv, [Next]_vars
               PROVE  [Promise!Next]_(Promise!vars)
    OBVIOUS
  <2>1. CASE Received # None /\ Image' = Received /\ Received' = None
    BY <2>1 DEF Received, Image, Promise!Next, Promise!Install
  <2>2. CASE Image' = Image /\ Received' = Received
    BY <2>2 DEF Received, Image, Promise!vars
  <2>3. CASE Image' = Image /\ Received' = None
    BY <2>3 DEF Received, Image, Promise!Next, Promise!Forget
  <2>4. CASE Image' = Image /\ Received' \in Clients
    BY <2>4 DEF Received, Image, Promise!Next, Promise!Receive
  <2> QED  BY <2>1, <2>2, <2>3, <2>4, StepPromise
<1> QED  BY <1>1, <1>2, UploadAlways, PTL DEF Spec, InstallsWhole, Promise!Spec
====
