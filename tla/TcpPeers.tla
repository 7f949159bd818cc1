------------------------------ MODULE TcpPeers -------------------------------
(***************************************************************************)
(* The server of Tcp with its peers, over a network that loses, delays,    *)
(* reorders and, because peers repeat, duplicates segments.                *)
(*                                                                         *)
(* A peer is a client as RFC 9293 has it: it opens a connection, sends its *)
(* request, repeats what is not acknowledged, takes what comes in order,   *)
(* and closes when its request is acknowledged, whether the response is    *)
(* complete or not; or it gives up at any moment, with or without a reset. *)
(***************************************************************************)
EXTENDS Tcp

CONSTANTS
    Isn,        \* the initial sequence number of each connection
    Strays      \* segments out of place, one of which may come

ASSUME PeersAssumption ==
    /\ Isn \in [Connections -> SequenceNumbers]
    /\ Strays \subseteq
         [peer : Peers, ctl : SUBSET Flags, seq : SequenceNumbers, ack : SequenceNumbers,
          conn : Connections \cup {0}, unit : {0}]

VARIABLES
    client,     \* the peers
    opened,     \* the connections tried so far
    strayed     \* a stray has come

vars == <<tcb, queue, parts, app, toServer, toPeer, lossy, client, opened, strayed>>

(* una, sent: data that is acknowledged, that was sent; the FIN is one     *)
(* more.  rcv: the next sequence number.  wnd: the server's window.        *)
Closed == [state |-> "CLOSED", conn |-> 0, una |-> 0, sent |-> 0, rcv |-> 0, wnd |-> 0]

Init ==
    /\ TcpInit
    /\ toServer = {} /\ toPeer = {} /\ lossy = FALSE
    /\ client = [p \in Peers |-> Closed]
    /\ opened = {} /\ strayed = FALSE

-----------------------------------------------------------------------------
(* What a peer sends.  The unit n has the sequence number Isn + n, and the *)
(* FIN comes behind the last unit.                                         *)

First(c) == Plus(Isn[c.conn], 1)

FromPeer(p, c, ctl, seq, ack, unit) ==
    [peer |-> p, ctl |-> ctl, seq |-> seq, ack |-> ack, conn |-> c.conn, unit |-> unit]

PeerAck(p, c) == FromPeer(p, c, {"ACK"}, Plus(First(c), c.sent), c.rcv, 0)
PeerReset(p, seq) == FromPeer(p, Closed, {"RST"}, seq, 0, 0)
Syn(p, c) == FromPeer(p, c, {"SYN"}, Isn[c.conn], 0, 0)
Unit(p, c, n) == FromPeer(p, c, {"ACK"}, Plus(Isn[c.conn], n), c.rcv, n)
PeerFin(p, c) == FromPeer(p, c, {"FIN", "ACK"}, Plus(First(c), REQUEST), c.rcv, 0)

(* The peer becomes c and sends out; that it is lost is a choice. *)
PeerBecomes(p, c, out) ==
    /\ client' = [client EXCEPT ![p] = c]
    /\ toServer' \in {toServer, toServer \cup out}
    /\ Cardinality(toServer') <= TO_SERVER

UNCHANGED_Server == lossy' = FALSE /\ UNCHANGED <<tcb, queue, parts, app, strayed>>

(* From TIME_WAIT the same port may be used again. *)
Connect(p, n) ==
    /\ client[p].state \in {"CLOSED", "TIME_WAIT"}
    /\ n \notin opened /\ \A m \in Connections : m < n => m \in opened
    /\ opened' = opened \cup {n}
    /\ LET c == [Closed EXCEPT !.state = "SYN_SENT", !.conn = n] IN PeerBecomes(p, c, {Syn(p, c)})
    /\ UNCHANGED_Server /\ UNCHANGED toPeer

RepeatSyn(p) ==
    /\ client[p].state = "SYN_SENT"
    /\ toServer' = toServer \cup {Syn(p, client[p])}
    /\ Cardinality(toServer') <= TO_SERVER
    /\ UNCHANGED_Server /\ UNCHANGED <<toPeer, client, opened>>

(* The first unit that is not acknowledged, or the next one, as far as the *)
(* window goes.                                                            *)
SendUnit(p, n) ==
    LET c == client[p]
    IN  /\ c.state = "ESTABLISHED"
        /\ n \in {c.una + 1, c.sent + 1} /\ n <= REQUEST /\ n <= c.una + c.wnd
        /\ client' = [client EXCEPT ![p].sent = IF n > @ THEN n ELSE @]
        /\ toServer' = toServer \cup {Unit(p, c, n)}
        /\ Cardinality(toServer') <= TO_SERVER
        /\ UNCHANGED_Server /\ UNCHANGED <<toPeer, opened>>

Close(p) ==
    LET c == client[p]
    IN  /\ c.state \in {"ESTABLISHED", "FIN_WAIT"} /\ c.una = REQUEST
        /\ client' = [client EXCEPT ![p].state = "FIN_WAIT", ![p].sent = REQUEST + 1]
        /\ toServer' = toServer \cup {PeerFin(p, c)}
        /\ Cardinality(toServer') <= TO_SERVER
        /\ UNCHANGED_Server /\ UNCHANGED <<toPeer, opened>>

(* The application is gone, or its patience. *)
GiveUp(p) ==
    /\ client[p].state # "CLOSED"
    /\ PeerBecomes(p, Closed,
          IF client[p].state = "SYN_SENT" THEN {}
          ELSE { PeerReset(p, Plus(First(client[p]), client[p].sent)) })
    /\ UNCHANGED_Server /\ UNCHANGED <<toPeer, opened>>

-----------------------------------------------------------------------------
(* What a peer does with a segment. *)

Takes(p, seg) ==
    /\ seg \in toPeer /\ seg.peer = p
    /\ toPeer' = toPeer \ {seg}
    /\ UNCHANGED_Server /\ UNCHANGED opened

InClosed(p, seg) ==
    /\ client[p].state = "CLOSED"
    /\ Takes(p, seg)
    /\ PeerBecomes(p, Closed, IF "RST" \in seg.ctl THEN {} ELSE { PeerReset(p, seg.ack) })

InSynSent(p, seg) ==
    LET c == client[p]
        good == seg.ack = First(c)
        open == [c EXCEPT !.state = "ESTABLISHED", !.rcv = Plus(seg.seq, 1), !.wnd = seg.wnd]
    IN  /\ c.state = "SYN_SENT"
        /\ Takes(p, seg)
        /\ IF ~good THEN PeerBecomes(p, c, IF "RST" \in seg.ctl THEN {} ELSE { PeerReset(p, seg.ack) })
           ELSE IF "RST" \in seg.ctl THEN PeerBecomes(p, Closed, {})
           ELSE IF "SYN" \in seg.ctl THEN PeerBecomes(p, open, { PeerAck(p, open) })
           ELSE PeerBecomes(p, c, {})

(* As in Linux and BSD, at the right edge of the window as well.          *)
Expected(c, seg) == Leq(c.rcv, seg.seq) /\ Leq(seg.seq, Plus(c.rcv, PEER_WINDOW))

(* How many units the segment acknowledges; the FIN counts as one. *)
Acked(c, seg) == (seg.ack - First(c)) % MODULUS

Updated(c, seg) ==
    LET n == Acked(c, seg)
    IN  IF n \in c.una .. c.sent THEN [c EXCEPT !.una = n, !.wnd = seg.wnd] ELSE c

(* Data or the server's FIN, when it is the next one. *)
Advanced(c, seg) ==
    IF seg.seq # c.rcv THEN c
    ELSE IF "FIN" \in seg.ctl
         THEN [c EXCEPT !.rcv = Plus(@, seg.len + 1), !.state = "TIME_WAIT"]
         ELSE [c EXCEPT !.rcv = Plus(@, seg.len)]

InConnection(p, seg) ==
    LET c == client[p]
        after == Advanced(Updated(c, seg), seg)
    IN  /\ c.state \in {"ESTABLISHED", "FIN_WAIT", "TIME_WAIT"}
        /\ Takes(p, seg)
        /\ IF "RST" \in seg.ctl
           THEN PeerBecomes(p, IF Expected(c, seg) THEN Closed ELSE c, {})
           ELSE IF ~Expected(c, seg) THEN PeerBecomes(p, c, { PeerAck(p, c) })
           ELSE PeerBecomes(p, after,
                   IF seg.len > 0 \/ "FIN" \in seg.ctl THEN { PeerAck(p, after) } ELSE {})

Arrives(p, seg) == InClosed(p, seg) \/ InSynSent(p, seg) \/ InConnection(p, seg)

(* What may arrive at the server: what is on its way, and once a stray,    *)
(* whose numbers are possible, in the middle of a connection of its peer.  *)
Arriving ==
    toServer \cup { seg \in Strays : ~strayed /\ Synchronized(FindTcb(seg.peer)) }

ServerReceives(seg) ==
    /\ Receive(seg)
    /\ strayed' = (strayed \/ seg \in Strays)
    /\ UNCHANGED <<client, opened>>

Next ==
    \/ \E seg \in Arriving : ServerReceives(seg)
    \/ \E p \in Peers :
          \/ \E n \in Connections : Connect(p, n)
          \/ RepeatSyn(p)
          \/ \E n \in 1 .. REQUEST : SendUnit(p, n)
          \/ Close(p)
          \/ GiveUp(p)
          \/ \E seg \in toPeer : Arrives(p, seg)

(* A peer repeats its first unit until it is acknowledged, the network     *)
(* leaves nothing lying about, and what is sent again and again comes      *)
(* through in the end, in both directions.  A segment that leaves toServer *)
(* without more is one that the server receives.                           *)
UnitArrives(p) ==
    \E seg \in toServer :
        /\ seg.peer = p /\ seg.conn = client[p].conn /\ seg.unit = client[p].una + 1
        /\ toServer' = toServer \ {seg} /\ lossy' = FALSE
AnswerArrives(p) ==
    \E seg \in toPeer :
        /\ InConnection(p, seg)
        /\ client'[p].una > client[p].una \/ client'[p].state # client[p].state

Network ==
    /\ WF_toServer(\E seg \in toServer : toServer' = toServer \ {seg})
    /\ \A p \in Peers :
          /\ WF_vars(\E seg \in toPeer : Arrives(p, seg))
          /\ WF_vars(SendUnit(p, client[p].una + 1))
          /\ SF_toServer(UnitArrives(p))
          /\ SF_vars(AnswerArrives(p))

Spec == Init /\ [][Next]_vars /\ Network

-----------------------------------------------------------------------------
(* Properties. *)

(* Every variable has its type; the rest of a send window is never         *)
(* negative and the queue never holds more than it has room for.           *)
TypeOK ==
    /\ tcb \in [Blocks ->
         [state : {"LISTEN", "SYN_RECEIVED", "ESTABLISHED", "LAST_ACK"},
          peer : Peers \cup {Nobody}, conn : Connections \cup {0},
          ISS : SequenceNumbers, UNA : SequenceNumbers, NXT : SequenceNumbers,
          WND : 0 .. PEER_WINDOW, WL1 : SequenceNumbers, WL2 : SequenceNumbers,
          RCVNXT : SequenceNumbers, RCVWND : 0 .. WINDOW]]
    /\ queue \in [block : Blocks, count : 0 .. QUEUE]
    /\ parts \in [Blocks -> 0 .. (REQUEST - 1)]
    /\ opened \subseteq Connections
    /\ client \in [Peers ->
         [state : {"CLOSED", "SYN_SENT", "ESTABLISHED", "FIN_WAIT", "TIME_WAIT"},
          conn : Connections \cup {0}, una : 0 .. (REQUEST + 1), sent : 0 .. (REQUEST + 1),
          rcv : SequenceNumbers, wnd : 0 .. WINDOW]]

(* A peer has one block at most, whatever it sends again or has sent in an *)
(* earlier connection: find_tcb never opens a second one.                  *)
OneBlockPerPeer ==
    \A b, c \in Blocks :
        (Synchronized(b) /\ Synchronized(c) /\ tcb[b].peer = tcb[c].peer) => b = c

(* The call-back of the port gets the data of a connection from its        *)
(* beginning, without a gap, a repetition or a part of another connection, *)
(* whatever the network loses, repeats or reorders.  A connection begins   *)
(* with its SYN: after a stray reset a SYN that was repeated begins it for *)
(* the server again, and the data then comes a second time.                *)
PrefixReceived ==
    \A b \in Blocks : \A i \in DOMAIN app.since[b] :
        app.since[b][i] = [conn |-> tcb[b].conn, unit |-> i]

(* What a peer takes for acknowledged has reached the call-back.           *)
AckedIsDelivered ==
    \A p \in Peers :
        client[p].state \in {"ESTABLISHED", "FIN_WAIT"} =>
            \A n \in 1 .. Smaller(client[p].una, REQUEST) :
                [conn |-> client[p].conn, unit |-> n] \in app.ever

(* The request of a peer that stays in its connection is received and      *)
(* acknowledged in the end: the server has no timer, so each answer that   *)
(* is lost has to come again with the segment that the peer repeats.       *)
(* Except: the send window is set without regard to what is on its way, so *)
(* that a response may overrun the peer's window, and then the peer takes  *)
(* no answer any more.                                                     *)
Overrun(p) ==
    \E b \in Blocks :
        /\ tcb[b].peer = p /\ tcb[b].conn = client[p].conn
        /\ Lt(Plus(client[p].rcv, PEER_WINDOW), tcb[b].NXT)

RequestArrives ==
    \A p \in Peers :
        client[p].state = "ESTABLISHED" ~>
            client[p].state # "ESTABLISHED" \/ client[p].una = REQUEST \/ Overrun(p)
=============================================================================
