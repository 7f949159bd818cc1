-------------------------------- MODULE Tcp ----------------------------------
(***************************************************************************)
(* The TCP server of lib-network, net/core/tcp.cpp, with one local port,   *)
(* and the HTTP daemon on it as far as TCP sees it: it reads a request and *)
(* writes a response.                                                      *)
(*                                                                         *)
(* ethernet_input calls tcp_input for each segment and tcp_run right after *)
(* it, and nothing else calls them: a segment is one step, and without     *)
(* segments nothing happens, for the server has no timer.                  *)
(*                                                                         *)
(* Data is counted in segments of full size.  A sequence number is a       *)
(* number modulo MODULUS, 2^32 in the code.  Options, the urgent pointer,  *)
(* addresses and the states of a client are left out.                      *)
(***************************************************************************)
EXTENDS Integers, Sequences, FiniteSets

CONSTANTS
    Peers,          \* remote addresses and ports
    Nobody,         \* the address in a block that is new
    TCBS,           \* TCP_MAX_TCBS_ALLOWED
    MODULUS,        \* sequence numbers are below it
    WINDOW,         \* TCP_MAX_RX_WND
    PEER_WINDOW,    \* the window that every peer advertises
    QUEUE,          \* TCP_TX_QUEUE_SIZE
    Clock,          \* what Millis may return, modulo MODULUS
    REQUEST,        \* the length of a request
    Methods,        \* the methods of the requests: "GET", "POST" or "UNKNOWN"
    HEADER,         \* the length of the header of a response
    CONTENT,        \* the length of its content
    Connections,    \* numbers of the connections that peers try
    TO_SERVER,      \* segments on their way to the server: a bound of the model
    TO_PEER         \* segments on their way to the peers: a bound of the model

ASSUME TcpAssumption ==
    /\ IsFiniteSet(Peers) /\ Nobody \notin Peers
    /\ TCBS \in Nat \ {0}
    /\ Cardinality(Peers) <= TCBS   \* see FindTcb
    /\ MODULUS \in Nat \ {0, 1} /\ MODULUS % 2 = 0
    /\ {WINDOW, PEER_WINDOW} \subseteq 1 .. (MODULUS \div 2 - 1)
    /\ Clock # {} /\ Clock \subseteq 0 .. (MODULUS - 1)
    /\ {QUEUE, REQUEST, HEADER, CONTENT} \subseteq Nat \ {0}
    /\ Methods \subseteq {"GET", "POST", "UNKNOWN"}
    /\ Connections \subseteq Nat

Blocks == 0 .. (TCBS - 1)
SequenceNumbers == 0 .. (MODULUS - 1)

VARIABLES
    tcb,        \* the control blocks of the port
    queue,      \* its transmissionQueue: a block, and how many segments
    parts,      \* how much of a request the HTTP handler of a block has read
    app,        \* what the call-back got: for each block since its SYN, and ever
    toServer,   \* segments on their way to the server
    toPeer,     \* segments on their way to the peers
    lossy       \* some of the last answer of the server was lost

-----------------------------------------------------------------------------
(* Sequence numbers. *)

Plus(x, n) == (x + n) % MODULUS

(* SEQ_LT and SEQ_LEQ: the sign of the difference. *)
Lt(x, y) == (x - y) % MODULUS >= MODULUS \div 2
Leq(x, y) == x = y \/ Lt(x, y)

-----------------------------------------------------------------------------
(* Segments.  unit numbers the data of a connection and is 0 without data; *)
(* it and conn are the data itself.                                        *)

Flags == {"SYN", "ACK", "FIN", "RST"}

Length(seg) == IF seg.unit = 0 THEN 0 ELSE 1

(* A segment that the server sends for a block. *)
Segment(t, ctl, seq, ack, length) ==
    [peer |-> t.peer, ctl |-> ctl, seq |-> seq, ack |-> ack, len |-> length, wnd |-> t.RCVWND]

Ack(t) == Segment(t, {"ACK"}, t.NXT, t.RCVNXT, 0)

(* send_reset: none in answer to a reset. *)
Reset(t, seg) ==
    LET used == Cardinality(seg.ctl \cap {"SYN", "FIN"})
    IN  IF "RST" \in seg.ctl THEN {}
        ELSE IF "ACK" \in seg.ctl
             THEN { Segment([t EXCEPT !.peer = seg.peer], {"RST"}, seg.ack, Plus(seg.seq, used), 0) }
             ELSE { Segment([t EXCEPT !.peer = seg.peer], {"RST", "ACK"}, 0, Plus(seg.seq, used), 0) }

-----------------------------------------------------------------------------
(* Control blocks. *)

(* tcp_init_tcb. *)
Listening(iss) ==
    [state |-> "LISTEN", peer |-> Nobody, conn |-> 0, ISS |-> iss, UNA |-> iss, NXT |-> iss,
     WND |-> 0, WL1 |-> 0, WL2 |-> iss, RCVNXT |-> 0, RCVWND |-> WINDOW]

(* tcp_begin. *)
TcpInit ==
    /\ tcb \in [Blocks -> {Listening(iss) : iss \in Clock}]
    /\ queue = [block |-> 0, count |-> 0]
    /\ parts = [b \in Blocks |-> 0]
    /\ app = [since |-> [b \in Blocks |-> <<>>], ever |-> {}]

Least(S) == CHOOSE b \in S : \A c \in S : b <= c

(* Mutant: a free block is preferred to the peer's own. *)
FindTcb_FreeFirst(peer) ==
    LET active == { b \in Blocks : tcb[b].state # "LISTEN" /\ tcb[b].peer = peer }
        listening == { b \in Blocks : tcb[b].state = "LISTEN" }
    IN  IF listening # {} THEN Least(listening) ELSE Least(active)

(* find_tcb: the block of the peer, or else the first one that listens.    *)
(* When there is neither, the code goes on with a block behind the last;   *)
(* TcpAssumption leaves enough blocks.                                     *)
FindTcb(peer) ==
    LET active == { b \in Blocks : tcb[b].state # "LISTEN" /\ tcb[b].peer = peer }
        listening == { b \in Blocks : tcb[b].state = "LISTEN" }
    IN  IF active # {} THEN Least(active) ELSE Least(listening)

(* The four cases of the test whether a segment is acceptable. *)
InWindow(t, seq) == Leq(t.RCVNXT, seq) /\ Lt(seq, Plus(t.RCVNXT, t.RCVWND))

Acceptable(t, seg) ==
    IF t.RCVWND = 0 THEN Length(seg) = 0 /\ seg.seq = t.RCVNXT
    ELSE \/ InWindow(t, seg.seq)
         \/ Length(seg) > 0 /\ InWindow(t, Plus(seg.seq, Length(seg) - 1))

-----------------------------------------------------------------------------
(* What tcp_input and tcp_run change is a record: out is what they send.   *)

Server == [tcb |-> tcb, queue |-> queue, parts |-> parts, app |-> app, out |-> {}]

(* Segments of the response, with the window that is left. *)
SendMany(s, b, count) ==
    LET t == s.tcb[b]
    IN  [s EXCEPT !.tcb[b] = [t EXCEPT !.NXT = Plus(@, count), !.WND = @ - count],
                  !.out = @ \cup { Segment(t, {"ACK"}, Plus(t.NXT, n), t.RCVNXT, 1) :
                                       n \in 0 .. count - 1 }]

Smaller(m, n) == IF m < n THEN m ELSE n

(* tcp_write: what fits the peer's window is sent at once, all of it or    *)
(* none; the rest goes into the queue of the port.  What the queue cannot  *)
(* take is lost in the release build.                                      *)
Write(s, b, length) ==
    IF length <= s.tcb[b].WND THEN SendMany(s, b, length)
    ELSE [s EXCEPT !.queue = [block |-> b, count |-> Smaller(QUEUE, s.queue.count + length)]]

(* tcp_abort: the block stays as it is. *)
Abort(s, b) ==
    LET t == s.tcb[b]
    IN  [s EXCEPT !.out = @ \cup { Segment(t, {"RST"}, t.NXT, t.RCVNXT, 0) }]

(* How much of a request has been read after one part more: a POST has     *)
(* REQUEST parts, any other method is handled at the first one.            *)
Read(n, method) == IF n = 0 /\ method # "POST" THEN 0 ELSE (n + 1) % REQUEST

(* HttpDaemon::Input and HandleRequest: the method is known from the first *)
(* part, the last one is answered, by a response, or with a reset when the *)
(* method is unknown.  The handler belongs to the block and does not see a *)
(* connection end.                                                         *)
Callback(s, b, data, method) ==
    LET got == [since |-> [s.app.since EXCEPT ![b] = Append(@, data)],
                ever |-> s.app.ever \cup {data}]
        read == [s EXCEPT !.app = got, !.parts[b] = Read(@, method)]
    IN  IF read.parts[b] # 0 THEN read
        ELSE IF s.parts[b] = 0 /\ method = "UNKNOWN" THEN Abort(read, b)
        ELSE Write(Write(read, b, HEADER), b, CONTENT)

(* The segment text, when it is the next one. *)
Text(s, b, seg, method) ==
    LET t == s.tcb[b]
        counted == [s EXCEPT !.tcb[b] = [t EXCEPT !.RCVNXT = Plus(@, 1), !.RCVWND = @ - 1]]
        read == Callback(counted, b, [conn |-> seg.conn, unit |-> seg.unit], method)
    IN  [read EXCEPT !.out = @ \cup { Ack(read.tcb[b]) }]

(* The FIN bit, in whatever segment is acceptable. *)
Fin(s, b, seg) ==
    LET t == [s.tcb[b] EXCEPT !.RCVNXT = Plus(@, 1),
                !.state = IF @ \in {"SYN_RECEIVED", "ESTABLISHED"} THEN "CLOSE_WAIT" ELSE @]
    IN  IF "FIN" \notin seg.ctl THEN s
        ELSE [s EXCEPT !.tcb[b] = t, !.out = @ \cup { Ack(t) }]

(* Mutant: the state stays CLOSE_WAIT. *)
Run_NoState(s) ==
    LET closing == { b \in Blocks : s.tcb[b].state = "CLOSE_WAIT" }
        fin(t) == Segment(t, {"FIN", "ACK"}, t.NXT, t.RCVNXT, 0)
        closed == [s EXCEPT
            !.tcb = [b \in Blocks |-> IF b \notin closing THEN s.tcb[b]
                       ELSE [s.tcb[b] EXCEPT !.NXT = Plus(@, 1)]],
            !.out = @ \cup { fin(s.tcb[b]) : b \in closing }]
        count == Smaller(s.queue.count, closed.tcb[s.queue.block].WND)
    IN  [SendMany(closed, s.queue.block, count) EXCEPT !.queue.count = @ - count]

(* tcp_run: a FIN for each block in CLOSE_WAIT, and what the peer's window *)
(* has room for from the queue.                                            *)
Run(s) ==
    LET closing == { b \in Blocks : s.tcb[b].state = "CLOSE_WAIT" }
        fin(t) == Segment(t, {"FIN", "ACK"}, t.NXT, t.RCVNXT, 0)
        closed == [s EXCEPT
            !.tcb = [b \in Blocks |-> IF b \notin closing THEN s.tcb[b]
                       ELSE [s.tcb[b] EXCEPT !.state = "LAST_ACK", !.NXT = Plus(@, 1)]],
            !.out = @ \cup { fin(s.tcb[b]) : b \in closing }]
        count == Smaller(s.queue.count, closed.tcb[s.queue.block].WND)
    IN  [SendMany(closed, s.queue.block, count) EXCEPT !.queue.count = @ - count]

(* The end of a step: tcp_run, then any of the segments sent is lost.  No  *)
(* more than TO_PEER are on their way.                                     *)
Becomes(s) ==
    LET r == Run(s)
    IN  /\ tcb' = r.tcb /\ queue' = r.queue /\ parts' = r.parts /\ app' = r.app
        /\ \E lost \in SUBSET r.out :
              toPeer' = toPeer \cup (r.out \ lost) /\ lossy' = (lost # {})
        /\ Cardinality(toPeer') <= TO_PEER

Answer(out) == Becomes([Server EXCEPT !.out = out])

(* tcp_init_tcb, after what has been sent. *)
FreedAfter(b, out) ==
    \E iss \in Clock :
        Becomes([Server EXCEPT !.tcb[b] = Listening(iss), !.app.since[b] = <<>>, !.out = out])

Freed(b) == FreedAfter(b, {})

-----------------------------------------------------------------------------
(* tcp_input, RFC 9293 "segment arrives": one action for each way out of   *)
(* it.                                                                     *)

ListenIgnored(b, seg) ==
    /\ tcb[b].state = "LISTEN"
    /\ "RST" \in seg.ctl \/ seg.ctl \cap {"ACK", "SYN"} = {}
    /\ Answer({})

ListenAck(b, seg) ==
    /\ tcb[b].state = "LISTEN"
    /\ "RST" \notin seg.ctl /\ "ACK" \in seg.ctl
    /\ Answer(Reset(tcb[b], seg))

ListenSyn(b, seg) ==
    /\ tcb[b].state = "LISTEN"
    /\ "SYN" \in seg.ctl /\ seg.ctl \cap {"RST", "ACK"} = {}
    /\ LET t == [tcb[b] EXCEPT !.peer = seg.peer, !.conn = seg.conn, !.RCVNXT = Plus(seg.seq, 1)]
       IN  Becomes([Server EXCEPT
              !.tcb[b] = [t EXCEPT !.state = "SYN_RECEIVED", !.NXT = Plus(t.ISS, 1), !.UNA = t.ISS],
              !.out = { Segment(t, {"SYN", "ACK"}, t.ISS, t.RCVNXT, 0) }])

Synchronized(b) == tcb[b].state # "LISTEN"

(* Mutant: what is not acceptable is not answered. *)
Unacceptable_Silent(b, seg) ==
    /\ Synchronized(b) /\ ~Acceptable(tcb[b], seg)
    /\ IF "RST" \in seg.ctl THEN Freed(b) ELSE Answer({})

(* A reset frees the block even when it is not acceptable. *)
Unacceptable(b, seg) ==
    /\ Synchronized(b) /\ ~Acceptable(tcb[b], seg)
    /\ IF "RST" \in seg.ctl THEN Freed(b) ELSE Answer({ Ack(tcb[b]) })

AcceptedReset(b, seg) ==
    /\ Synchronized(b) /\ Acceptable(tcb[b], seg)
    /\ "RST" \in seg.ctl
    /\ Freed(b)

SynAgain(b, seg) ==
    /\ Synchronized(b) /\ Acceptable(tcb[b], seg)
    /\ "SYN" \in seg.ctl /\ "RST" \notin seg.ctl
    /\ tcb[b].state = "SYN_RECEIVED"
    /\ Freed(b)

(* What is left: from here on a SYN is only answered with a reset. *)
Proper(b, seg) ==
    /\ Synchronized(b) /\ Acceptable(tcb[b], seg)
    /\ "RST" \notin seg.ctl
    /\ "SYN" \in seg.ctl => tcb[b].state # "SYN_RECEIVED"

Strayed(b, seg) == IF "SYN" \in seg.ctl THEN Reset(tcb[b], seg) ELSE {}

NoAck(b, seg) ==
    /\ Proper(b, seg) /\ "ACK" \notin seg.ctl
    /\ Answer(Strayed(b, seg))

(* Neither data nor a FIN of the segment that ends the handshake counts. *)
HandshakeAck(b, seg) ==
    LET t == tcb[b]
    IN  /\ Proper(b, seg) /\ "ACK" \in seg.ctl
        /\ t.state = "SYN_RECEIVED"
        /\ Leq(t.UNA, seg.ack) /\ Leq(seg.ack, t.NXT)
        /\ Becomes([Server EXCEPT !.tcb[b] =
              [t EXCEPT !.state = "ESTABLISHED", !.UNA = seg.ack, !.WND = PEER_WINDOW,
                        !.WL1 = seg.seq, !.WL2 = seg.ack]])

HandshakeReset(b, seg) ==
    LET t == tcb[b]
    IN  /\ Proper(b, seg) /\ "ACK" \in seg.ctl
        /\ t.state = "SYN_RECEIVED"
        /\ ~(Leq(t.UNA, seg.ack) /\ Leq(seg.ack, t.NXT))
        /\ Becomes(Fin([Server EXCEPT !.out = Reset(t, seg)], b, seg))

(* The ACK field in the other states: what is acknowledged, and the send   *)
(* window when the segment is not older than the last one that set it.     *)
WindowUpdate(t, seg) ==
    IF Lt(t.WL1, seg.seq) \/ (t.WL1 = seg.seq /\ Leq(t.WL2, seg.ack))
    THEN [t EXCEPT !.WND = PEER_WINDOW, !.WL1 = seg.seq, !.WL2 = seg.ack]
    ELSE t

New(t, ack) == Lt(t.UNA, ack) /\ Leq(ack, t.NXT)
Ahead(t, ack) == ~New(t, ack) /\ ~Leq(ack, t.UNA) /\ Lt(t.NXT, ack)

Acknowledged(t, seg) ==
    IF New(t, seg.ack) THEN WindowUpdate([t EXCEPT !.UNA = seg.ack], seg)
    ELSE IF seg.ack = t.UNA THEN WindowUpdate(t, seg)
    ELSE t

AckAhead(b, seg) ==
    /\ Proper(b, seg) /\ "ACK" \in seg.ctl
    /\ tcb[b].state = "ESTABLISHED" /\ Ahead(tcb[b], seg.ack)
    /\ Answer(Strayed(b, seg) \cup { Ack(tcb[b]) })

Established(b, seg) ==
    /\ Proper(b, seg) /\ "ACK" \in seg.ctl
    /\ tcb[b].state = "ESTABLISHED" /\ ~Ahead(tcb[b], seg.ack)

After(b, seg) ==
    [Server EXCEPT !.tcb[b] = Acknowledged(@, seg), !.out = Strayed(b, seg)]

(* Mutant: the answer acknowledges the segment. *)
OutOfOrder_AcksIt(b, seg) ==
    /\ Established(b, seg)
    /\ Length(seg) > 0 /\ seg.seq # tcb[b].RCVNXT
    /\ LET s == After(b, seg)
       IN  Becomes([s EXCEPT !.out = @ \cup { [Ack(s.tcb[b]) EXCEPT !.ack = Plus(seg.seq, 1)] }])

OutOfOrder(b, seg) ==
    /\ Established(b, seg)
    /\ Length(seg) > 0 /\ seg.seq # tcb[b].RCVNXT
    /\ LET s == After(b, seg)
       IN  Becomes([s EXCEPT !.out = @ \cup { Ack(s.tcb[b]) }])

(* Mutant: any acceptable data is taken. *)
InOrder_Any(b, seg) ==
    /\ Established(b, seg)
    /\ Length(seg) > 0
    /\ \E method \in Methods : Becomes(Fin(Text(After(b, seg), b, seg, method), b, seg))

InOrder(b, seg) ==
    /\ Established(b, seg)
    /\ Length(seg) > 0 /\ seg.seq = tcb[b].RCVNXT
    /\ \E method \in Methods : Becomes(Fin(Text(After(b, seg), b, seg, method), b, seg))

NoText(b, seg) ==
    /\ Established(b, seg)
    /\ Length(seg) = 0
    /\ Becomes(Fin(After(b, seg), b, seg))

LastAck(b, seg) ==
    /\ Proper(b, seg) /\ "ACK" \in seg.ctl
    /\ tcb[b].state = "LAST_ACK"
    /\ IF seg.ack = tcb[b].NXT THEN FreedAfter(b, Strayed(b, seg))
       ELSE Becomes(Fin([Server EXCEPT !.out = Strayed(b, seg)], b, seg))

TcpInput(b, seg) ==
    \/ ListenIgnored(b, seg) \/ ListenAck(b, seg) \/ ListenSyn(b, seg)
    \/ Unacceptable(b, seg) \/ AcceptedReset(b, seg) \/ SynAgain(b, seg)
    \/ NoAck(b, seg) \/ HandshakeAck(b, seg) \/ HandshakeReset(b, seg)
    \/ AckAhead(b, seg) \/ OutOfOrder(b, seg) \/ InOrder(b, seg) \/ NoText(b, seg)
    \/ LastAck(b, seg)

Receive(seg) ==
    /\ TcpInput(FindTcb(seg.peer), seg)
    /\ toServer' = toServer \ {seg}
=============================================================================
