------------------------------ MODULE TcpProofs ------------------------------
(***************************************************************************)
(* What is proved of the TCP server and its peers, for any number of them, *)
(* of blocks, connections and segments on the way, and any windows and     *)
(* width of numbers: a peer never has two control blocks, and there is     *)
(* always one for a segment; the types; the call-back gets the data of a   *)
(* connection in order and once; and what is acknowledged it has got.      *)
(***************************************************************************)
EXTENDS TcpPeers, FiniteSetTheorems, WellFoundedInduction, TLAPS

(* The fields of a block, and of what tcp_input and tcp_run work on. *)
IsTcb(t) ==
    t = [state |-> t.state, peer |-> t.peer, conn |-> t.conn, ISS |-> t.ISS,
         UNA |-> t.UNA, NXT |-> t.NXT, WND |-> t.WND, WL1 |-> t.WL1, WL2 |-> t.WL2,
         RCVNXT |-> t.RCVNXT, RCVWND |-> t.RCVWND]

AreTcbs(f) == f = [b \in Blocks |-> f[b]] /\ \A b \in Blocks : IsTcb(f[b])

IsServer(s) ==
    /\ s = [tcb |-> s.tcb, queue |-> s.queue, parts |-> s.parts, app |-> s.app, out |-> s.out]
    /\ AreTcbs(s.tcb)

(* Blocks in use have a peer each, and no two of them the same. *)
PeersDiffer(f) ==
    /\ \A b \in Blocks : f[b].state # "LISTEN" => f[b].peer \in Peers
    /\ \A b, c \in Blocks :
          (f[b].state # "LISTEN" /\ f[c].state # "LISTEN" /\ f[b].peer = f[c].peer) => b = c

FromPeers == \A seg \in toServer : seg.peer \in Peers

IInv == AreTcbs(tcb) /\ PeersDiffer(tcb) /\ FromPeers

(* The block t with other numbers. *)
SameTcb(t, u) == IsTcb(u) /\ u.state = t.state /\ u.peer = t.peer

(* The same blocks are in use, for the same peers. *)
SameUse(f, g) ==
    \A b \in Blocks : g[b].peer = f[b].peer /\ (g[b].state = "LISTEN" <=> f[b].state = "LISTEN")

Keeps(s, r) == IsServer(r) /\ SameUse(s.tcb, r.tcb)

-----------------------------------------------------------------------------
(* Blocks enough. *)

LEMMA Sizes == TCBS \in Nat /\ TCBS >= 1 /\ Blocks \subseteq Nat
  BY TcpAssumption DEF Blocks

LEMMA LeastType ==
    ASSUME NEW S \in SUBSET Blocks, S # {}
    PROVE  Least(S) \in S
<1> DEFINE upTo(b) == 0 .. b
           T == { upTo(b) : b \in S }
           R == StrictSubsetOrdering(Blocks)
<1>1. IsFiniteSet(Blocks)
  BY Sizes, FS_Interval DEF Blocks
<1>2. IsWellFoundedOn(R, SUBSET Blocks)
  BY <1>1, FS_StrictSubsetOrderingWellFounded, FS_FiniteSubsetsOfFinite
<1>3. \A b \in S : upTo(b) \subseteq Blocks
  BY Sizes DEF Blocks
<1>4. T \subseteq SUBSET Blocks /\ T # {}
  BY <1>3
<1>5. PICK x \in T : \A y \in T : <<y, x>> \notin R
  <2> HIDE DEF T, R
  <2> QED  BY <1>2, <1>4, WFMin
<1>6. PICK b \in S : x = upTo(b)
  BY <1>5
<1>7. ASSUME NEW c \in S, c < b PROVE FALSE
  <2>1. b \in Nat /\ c \in Nat
    BY Sizes
  <2>2. upTo(c) \subseteq upTo(b) /\ upTo(c) # upTo(b)
    BY <2>1, <1>7
  <2>3. <<upTo(c), x>> \in R
    BY <2>2, <1>3, <1>6 DEF StrictSubsetOrdering
  <2> QED  BY <2>3, <1>5
<1>8. \A c \in S : b <= c
  BY <1>7, Sizes
<1> QED  BY <1>8 DEF Least

(* There are blocks enough: the code never takes one behind the last.      *)
LEMMA RoomForPeer ==
    ASSUME PeersDiffer(tcb), NEW p \in Peers
    PROVE  /\ FindTcb(p) \in Blocks
           /\ tcb[FindTcb(p)].state = "LISTEN" =>
                 \A b \in Blocks : tcb[b].state # "LISTEN" => tcb[b].peer # p
<1> DEFINE active == { b \in Blocks : tcb[b].state # "LISTEN" /\ tcb[b].peer = p }
           listening == { b \in Blocks : tcb[b].state = "LISTEN" }
<1>1. CASE active # {}
  <2>1. Least(active) \in active
    BY <1>1, LeastType
  <2> QED  BY <1>1, <2>1 DEF FindTcb
<1>2. CASE active = {}
  <2>1. listening # {}
    <3> SUFFICES ASSUME listening = {} PROVE FALSE
      OBVIOUS
    <3> DEFINE f == [b \in Blocks |-> tcb[b].peer]
    <3>1. f \in [Blocks -> Peers \ {p}]
      BY <1>2 DEF PeersDiffer
    <3>2. IsFiniteSet(Blocks) /\ Cardinality(Blocks) = TCBS
      BY Sizes, FS_Interval DEF Blocks
    <3>3. IsFiniteSet(Peers \ {p}) /\ Cardinality(Peers \ {p}) = Cardinality(Peers) - 1
      BY TcpAssumption, FS_RemoveElement
    <3>4. Cardinality(Peers) \in Nat
      BY TcpAssumption, FS_CardinalityType
    <3>5. Cardinality(Peers \ {p}) < Cardinality(Blocks)
      BY <3>2, <3>3, <3>4, TcpAssumption, Sizes
    <3>6. \E b, c \in Blocks : b # c /\ f[b] = f[c]
      <4> HIDE DEF f
      <4> QED  BY <3>1, <3>2, <3>3, <3>5, FS_PigeonHole
    <3> QED  BY <3>6 DEF PeersDiffer
  <2>2. Least(listening) \in listening
    BY <2>1, LeastType
  <2> QED  BY <1>2, <2>2 DEF FindTcb
<1> QED  BY <1>1, <1>2
-----------------------------------------------------------------------------
(* What tcp_input and tcp_run do to a block in use leaves it in use and    *)
(* with its peer, until it is initialised again.                           *)

LEMMA TcbKeeps ==
    ASSUME NEW t, IsTcb(t), NEW v
    PROVE  /\ SameTcb(t, [t EXCEPT !.NXT = v]) /\ SameTcb(t, [t EXCEPT !.WND = v])
           /\ SameTcb(t, [t EXCEPT !.UNA = v]) /\ SameTcb(t, [t EXCEPT !.RCVNXT = v])
           /\ SameTcb(t, [t EXCEPT !.RCVWND = v])
           /\ SameTcb(t, [t EXCEPT !.WL1 = v]) /\ SameTcb(t, [t EXCEPT !.WL2 = v])
<1>1. SameTcb(t, [t EXCEPT !.NXT = v])
  BY DEF IsTcb, SameTcb
<1>2. SameTcb(t, [t EXCEPT !.WND = v])
  BY DEF IsTcb, SameTcb
<1>3. SameTcb(t, [t EXCEPT !.UNA = v])
  BY DEF IsTcb, SameTcb
<1>4. SameTcb(t, [t EXCEPT !.RCVNXT = v])
  BY DEF IsTcb, SameTcb
<1>5. SameTcb(t, [t EXCEPT !.RCVWND = v])
  BY DEF IsTcb, SameTcb
<1>6. SameTcb(t, [t EXCEPT !.WL1 = v])
  BY DEF IsTcb, SameTcb
<1>7. SameTcb(t, [t EXCEPT !.WL2 = v])
  BY DEF IsTcb, SameTcb
<1> QED  BY <1>1, <1>2, <1>3, <1>4, <1>5, <1>6, <1>7

LEMMA StateSet ==
    ASSUME NEW t, IsTcb(t), NEW v
    PROVE  LET u == [t EXCEPT !.state = v] IN IsTcb(u) /\ u.state = v /\ u.peer = t.peer
  BY DEF IsTcb

LEMMA KeepsTrans ==
    ASSUME NEW s, NEW r, NEW q, Keeps(s, r), Keeps(r, q)
    PROVE  Keeps(s, q)
  BY DEF Keeps, SameUse

LEMMA OutKeeps ==
    ASSUME NEW s, IsServer(s), NEW v
    PROVE  Keeps(s, s) /\ Keeps(s, [s EXCEPT !.out = v]) /\ Keeps(s, [s EXCEPT !.queue = v])
<1>1. Keeps(s, s)
  BY DEF Keeps, SameUse
<1>2. Keeps(s, [s EXCEPT !.out = v])
  BY DEF Keeps, SameUse, IsServer
<1>3. Keeps(s, [s EXCEPT !.queue = v])
  BY DEF Keeps, SameUse, IsServer
<1> QED  BY <1>1, <1>2, <1>3

LEMMA HandlerKeeps ==
    ASSUME NEW s, IsServer(s), NEW v, NEW w
    PROVE  Keeps(s, [s EXCEPT !.app = v, !.parts = w])
<1> DEFINE r == [s EXCEPT !.app = v]
<1>1. Keeps(s, r)
  BY DEF Keeps, SameUse, IsServer
<1>2. Keeps(r, [r EXCEPT !.parts = w])
  <2> HIDE DEF r
  <2> QED  BY <1>1 DEF Keeps, SameUse, IsServer
<1>3. [s EXCEPT !.app = v, !.parts = w] = [r EXCEPT !.parts = w]
  OBVIOUS
<1> HIDE DEF r
<1> QED  BY <1>1, <1>2, <1>3, KeepsTrans

LEMMA BlockKeeps ==
    ASSUME NEW s, IsServer(s), NEW b, NEW t,
           b \in Blocks => /\ IsTcb(t) /\ t.peer = s.tcb[b].peer
                           /\ t.state = "LISTEN" <=> s.tcb[b].state = "LISTEN"
    PROVE  Keeps(s, [s EXCEPT !.tcb[b] = t])
<1> DEFINE r == [s EXCEPT !.tcb[b] = t]
<1>1. /\ r = [tcb |-> r.tcb, queue |-> r.queue, parts |-> r.parts, app |-> r.app, out |-> r.out]
      /\ r.tcb = [s.tcb EXCEPT ![b] = t]
  BY DEF IsServer
<1>2. r.tcb = [c \in Blocks |-> IF c = b THEN t ELSE s.tcb[c]]
  BY <1>1 DEF IsServer, AreTcbs
<1> QED  BY <1>1, <1>2 DEF IsServer, AreTcbs, Keeps, SameUse

LEMMA SendManyKeeps ==
    ASSUME NEW s, IsServer(s), NEW b, NEW count
    PROVE  Keeps(s, SendMany(s, b, count))
<1> DEFINE t == s.tcb[b]
           x == Plus(t.NXT, count)
           y == t.WND - count
           u == [[t EXCEPT !.NXT = x] EXCEPT !.WND = y]
           sent == { Segment(t, {"ACK"}, Plus(t.NXT, n), t.RCVNXT, 1) : n \in 0 .. count - 1 }
           r == [s EXCEPT !.tcb[b] = u]
<1>1. b \in Blocks => SameTcb(t, u)
  <2> SUFFICES ASSUME b \in Blocks PROVE SameTcb(t, u)
    OBVIOUS
  <2>1. IsTcb(t)
    BY DEF IsServer, AreTcbs
  <2> HIDE DEF t, x, y
  <2>2. SameTcb(t, [t EXCEPT !.NXT = x])
    BY <2>1, TcbKeeps
  <2>3. SameTcb([t EXCEPT !.NXT = x], u)
    BY <2>2, TcbKeeps DEF SameTcb
  <2> QED  BY <2>2, <2>3 DEF SameTcb
<1>2. Keeps(s, r)
  <2> HIDE DEF u
  <2> QED  BY <1>1, BlockKeeps DEF SameTcb
<1>3. SendMany(s, b, count) = [r EXCEPT !.out = s.out \cup sent]
  <2>1. b \in Blocks => [t EXCEPT !.NXT = x, !.WND = y] = u
    OBVIOUS
  <2>2. SendMany(s, b, count) =
          [s EXCEPT !.tcb[b] = [t EXCEPT !.NXT = x, !.WND = y], !.out = s.out \cup sent]
    BY DEF SendMany
  <2> QED  BY <2>1, <2>2 DEF IsServer, AreTcbs
<1>4. Keeps(r, [r EXCEPT !.out = s.out \cup sent])
  <2> HIDE DEF r, sent
  <2> QED  BY <1>2, OutKeeps DEF Keeps
<1> QED  BY <1>2, <1>3, <1>4, KeepsTrans

LEMMA WriteKeeps ==
    ASSUME NEW s, IsServer(s), NEW b, NEW length
    PROVE  Keeps(s, Write(s, b, length))
  BY SendManyKeeps, OutKeeps DEF Write

LEMMA AbortKeeps ==
    ASSUME NEW s, IsServer(s), NEW b
    PROVE  Keeps(s, Abort(s, b))
  BY OutKeeps DEF Abort

LEMMA CallbackKeeps ==
    ASSUME NEW s, IsServer(s), NEW b, NEW data, NEW method
    PROVE  Keeps(s, Callback(s, b, data, method))
<1> DEFINE v == [since |-> [s.app.since EXCEPT ![b] = Append(@, data)],
                 ever |-> s.app.ever \cup {data}]
           read == [s EXCEPT !.app = v, !.parts[b] = Read(@, method)]
<1>1. Keeps(s, read)
  <2> DEFINE w == [s.parts EXCEPT ![b] = Read(@, method)]
  <2>1. read = [s EXCEPT !.app = v, !.parts = w]
    OBVIOUS
  <2> HIDE DEF v, w
  <2> QED  BY <2>1, HandlerKeeps
<1> HIDE DEF v, read
<1>2. IsServer(read)
  BY <1>1 DEF Keeps
<1>3. Keeps(read, read) /\ Keeps(read, Abort(read, b))
  BY <1>2, OutKeeps, AbortKeeps
<1>4. Keeps(read, Write(Write(read, b, HEADER), b, CONTENT))
  <2>1. Keeps(read, Write(read, b, HEADER))
    BY <1>2, WriteKeeps
  <2>2. Keeps(Write(read, b, HEADER), Write(Write(read, b, HEADER), b, CONTENT))
    BY <2>1, WriteKeeps DEF Keeps
  <2> QED  BY <2>1, <2>2, KeepsTrans
<1>5. Callback(s, b, data, method) \in {read, Abort(read, b), Write(Write(read, b, HEADER), b, CONTENT)}
  BY DEF Callback, read, v
<1> QED  BY <1>1, <1>3, <1>4, <1>5, KeepsTrans

LEMMA TextKeeps ==
    ASSUME NEW s, IsServer(s), NEW b \in Blocks, NEW seg, NEW method
    PROVE  Keeps(s, Text(s, b, seg, method))
<1> DEFINE t == s.tcb[b]
           u == [[t EXCEPT !.RCVNXT = Plus(@, 1)] EXCEPT !.RCVWND = @ - 1]
           counted == [s EXCEPT !.tcb[b] = u]
           data == [conn |-> seg.conn, unit |-> seg.unit]
           read == Callback(counted, b, data, method)
<1>1. SameTcb(t, u)
  <2>1. IsTcb(t)
    BY DEF IsServer, AreTcbs
  <2> DEFINE v == [t EXCEPT !.RCVNXT = Plus(@, 1)]
  <2> HIDE DEF t
  <2>2. SameTcb(t, v)
    BY <2>1, TcbKeeps
  <2>3. SameTcb(v, [v EXCEPT !.RCVWND = @ - 1])
    <3> HIDE DEF v
    <3> QED  BY <2>2, TcbKeeps DEF SameTcb
  <2> QED  BY <2>2, <2>3 DEF SameTcb
<1>2. Keeps(s, counted)
  <2> HIDE DEF u
  <2> QED  BY <1>1, BlockKeeps DEF SameTcb
<1>3. Keeps(counted, read)
  <2> HIDE DEF counted, data
  <2> QED  BY <1>2, CallbackKeeps DEF Keeps
<1>4. Keeps(read, [read EXCEPT !.out = @ \cup { Ack(read.tcb[b]) }])
  <2> HIDE DEF read
  <2> QED  BY <1>3, OutKeeps DEF Keeps
<1>5. Text(s, b, seg, method) = [read EXCEPT !.out = @ \cup { Ack(read.tcb[b]) }]
  <2>1. [t EXCEPT !.RCVNXT = Plus(@, 1), !.RCVWND = @ - 1] = u
    BY DEF IsServer, AreTcbs, IsTcb
  <2> QED  BY <2>1 DEF Text
<1> QED  BY <1>2, <1>3, <1>4, <1>5, KeepsTrans

LEMMA FinKeeps ==
    ASSUME NEW s, IsServer(s), NEW b \in Blocks, NEW seg
    PROVE  Keeps(s, Fin(s, b, seg))
<1> DEFINE t == s.tcb[b]
           v == Plus(t.RCVNXT, 1)
           w == IF t.state \in {"SYN_RECEIVED", "ESTABLISHED"} THEN "CLOSE_WAIT" ELSE t.state
           u == [[t EXCEPT !.RCVNXT = v] EXCEPT !.state = w]
           r == [s EXCEPT !.tcb[b] = u]
<1>1. IsTcb(t)
  BY DEF IsServer, AreTcbs
<1>2. IsTcb(u) /\ u.peer = t.peer /\ u.state = w
  <2> DEFINE x == [t EXCEPT !.RCVNXT = v]
  <2>1. SameTcb(t, x)
    <3> HIDE DEF t, v
    <3> QED  BY <1>1, TcbKeeps
  <2> HIDE DEF x, w
  <2>2. IsTcb([x EXCEPT !.state = w]) /\ [x EXCEPT !.state = w].state = w
        /\ [x EXCEPT !.state = w].peer = x.peer
    BY <2>1, StateSet DEF SameTcb
  <2> QED  BY <2>1, <2>2 DEF x, SameTcb
<1>3. Keeps(s, r)
  <2> HIDE DEF u
  <2>1. w = "LISTEN" <=> t.state = "LISTEN"
    OBVIOUS
  <2> QED  BY <1>2, <2>1, BlockKeeps
<1>4. Keeps(r, [r EXCEPT !.out = s.out \cup { Ack(u) }])
  <2> HIDE DEF r, u
  <2> QED  BY <1>3, OutKeeps DEF Keeps
<1>5. "FIN" \in seg.ctl => Fin(s, b, seg) = [r EXCEPT !.out = s.out \cup { Ack(u) }]
  <2>1. [t EXCEPT !.RCVNXT = v, !.state = w] = u
    BY <1>1 DEF IsTcb
  <2> QED  BY <2>1 DEF Fin, IsServer
<1>6. "FIN" \notin seg.ctl => Fin(s, b, seg) = s
  BY DEF Fin
<1>7. CASE "FIN" \in seg.ctl
  <2> HIDE DEF r
  <2> QED  BY <1>3, <1>4, <1>5, <1>7, KeepsTrans
<1>8. CASE "FIN" \notin seg.ctl
  BY <1>6, <1>8, OutKeeps
<1> QED  BY <1>7, <1>8

LEMMA AcknowledgedKeeps ==
    ASSUME NEW t, IsTcb(t), NEW seg
    PROVE  SameTcb(t, Acknowledged(t, seg))
<1>1. ASSUME NEW u, IsTcb(u) PROVE SameTcb(u, WindowUpdate(u, seg))
  <2> DEFINE u1 == [u EXCEPT !.WND = PEER_WINDOW]
             u2 == [u1 EXCEPT !.WL1 = seg.seq]
             u3 == [u2 EXCEPT !.WL2 = seg.ack]
  <2>1. SameTcb(u, u1)
    BY <1>1, TcbKeeps
  <2>2. SameTcb(u1, u2)
    <3> HIDE DEF u1
    <3> QED  BY <2>1, TcbKeeps DEF SameTcb
  <2>3. SameTcb(u2, u3)
    <3> HIDE DEF u2
    <3> QED  BY <2>2, TcbKeeps DEF SameTcb
  <2>4. SameTcb(u, u3)
    BY <2>1, <2>2, <2>3 DEF SameTcb
  <2>5. [u EXCEPT !.WND = PEER_WINDOW, !.WL1 = seg.seq, !.WL2 = seg.ack] = u3
    BY <1>1 DEF IsTcb
  <2>6. SameTcb(u, u)
    BY <1>1 DEF SameTcb
  <2> QED  BY <2>4, <2>5, <2>6 DEF WindowUpdate
<1> DEFINE v == [t EXCEPT !.UNA = seg.ack]
<1>2. SameTcb(t, v)
  BY TcbKeeps
<1>3. SameTcb(t, WindowUpdate(v, seg)) /\ SameTcb(t, WindowUpdate(t, seg)) /\ SameTcb(t, t)
  <2> HIDE DEF v
  <2> QED  BY <1>1, <1>2 DEF SameTcb
<1> QED  BY <1>3 DEF Acknowledged

LEMMA RunKeeps ==
    ASSUME NEW s, IsServer(s)
    PROVE  Keeps(s, Run(s))
<1> DEFINE closing == { b \in Blocks : s.tcb[b].state = "CLOSE_WAIT" }
           fin(t) == Segment(t, {"FIN", "ACK"}, t.NXT, t.RCVNXT, 0)
           f == [b \in Blocks |-> IF b \notin closing THEN s.tcb[b]
                   ELSE [s.tcb[b] EXCEPT !.state = "LAST_ACK", !.NXT = Plus(@, 1)]]
           sent == { fin(s.tcb[b]) : b \in closing }
           closed == [s EXCEPT !.tcb = f, !.out = @ \cup sent]
           block == s.queue.block
           count == Smaller(s.queue.count, closed.tcb[block].WND)
           rest == SendMany(closed, block, count)
<1>1. \A b \in Blocks : /\ IsTcb(f[b]) /\ f[b].peer = s.tcb[b].peer
                        /\ f[b].state = "LISTEN" <=> s.tcb[b].state = "LISTEN"
  <2> SUFFICES ASSUME NEW b \in Blocks
               PROVE  /\ IsTcb(f[b]) /\ f[b].peer = s.tcb[b].peer
                      /\ f[b].state = "LISTEN" <=> s.tcb[b].state = "LISTEN"
    OBVIOUS
  <2> DEFINE t == s.tcb[b]
             x == Plus(t.NXT, 1)
             u == [[t EXCEPT !.state = "LAST_ACK"] EXCEPT !.NXT = x]
  <2>1. IsTcb(t)
    BY DEF IsServer, AreTcbs
  <2>2. IsTcb(u) /\ u.peer = t.peer /\ u.state = "LAST_ACK"
    <3> DEFINE v == [t EXCEPT !.state = "LAST_ACK"]
    <3> HIDE DEF t, x
    <3>1. IsTcb(v) /\ v.state = "LAST_ACK" /\ v.peer = t.peer
      BY <2>1, StateSet
    <3> HIDE DEF v
    <3>2. SameTcb(v, [v EXCEPT !.NXT = x])
      BY <3>1, TcbKeeps
    <3> QED  BY <3>1, <3>2 DEF SameTcb, v
  <2>3. [t EXCEPT !.state = "LAST_ACK", !.NXT = Plus(@, 1)] = u
    BY <2>1 DEF IsTcb
  <2>4. CASE b \in closing
    <3>1. f[b] = u
      BY <2>3, <2>4
    <3>2. t.state # "LISTEN"
      BY <2>4
    <3> HIDE DEF f, u
    <3> QED  BY <2>2, <3>1, <3>2
  <2>5. CASE b \notin closing
    BY <2>1, <2>5
  <2> QED  BY <2>4, <2>5
<1>2. Keeps(s, closed)
  <2> DEFINE r == [s EXCEPT !.tcb = f]
             v == s.out \cup sent
  <2>1. r.tcb = f /\ f = [b \in Blocks |-> f[b]]
        /\ r = [tcb |-> r.tcb, queue |-> r.queue, parts |-> r.parts, app |-> r.app, out |-> r.out]
    <3>1. f = [b \in Blocks |-> f[b]]
      OBVIOUS
    <3> HIDE DEF f
    <3> QED  BY <3>1 DEF IsServer
  <2>2. Keeps(s, r)
    <3> HIDE DEF f, r
    <3> QED  BY <1>1, <2>1 DEF Keeps, SameUse, IsServer, AreTcbs
  <2>3. closed = [r EXCEPT !.out = v]
    <3> HIDE DEF f, sent
    <3> QED  OBVIOUS
  <2> HIDE DEF r, v, closed
  <2> QED  BY <2>2, <2>3, OutKeeps, KeepsTrans DEF Keeps
<1>3. Keeps(closed, rest)
  <2> HIDE DEF closed, count
  <2> QED  BY <1>2, SendManyKeeps DEF Keeps
<1>4. Keeps(rest, [rest EXCEPT !.queue.count = @ - count])
  <2> DEFINE v == [rest.queue EXCEPT !.count = @ - count]
  <2>1. [rest EXCEPT !.queue.count = @ - count] = [rest EXCEPT !.queue = v]
    <3> HIDE DEF rest, count
    <3> QED  OBVIOUS
  <2> HIDE DEF v, rest
  <2> QED  BY <1>3, <2>1, OutKeeps DEF Keeps
<1>5. Run(s) = [rest EXCEPT !.queue.count = @ - count]
  BY DEF Run
<1> HIDE DEF closed, rest, count
<1> QED  BY <1>2, <1>3, <1>4, <1>5, KeepsTrans

-----------------------------------------------------------------------------
(* A segment.                                                              *)

LEMMA SameUseKeeps ==
    ASSUME NEW f, NEW g, PeersDiffer(f), SameUse(f, g)
    PROVE  PeersDiffer(g)
  BY DEF PeersDiffer, SameUse

(* What is true of the blocks before tcp_run is true after it. *)
LEMMA BecomesInv ==
    ASSUME NEW s, IsServer(s), PeersDiffer(s.tcb), Becomes(s)
    PROVE  AreTcbs(tcb') /\ PeersDiffer(tcb')
<1>1. Keeps(s, Run(s)) /\ tcb' = Run(s).tcb
  BY RunKeeps DEF Becomes
<1> QED  BY <1>1, SameUseKeeps DEF Keeps, IsServer

LEMMA KeepsInv ==
    ASSUME NEW s, IInv, Keeps(Server, s), Becomes(s)
    PROVE  AreTcbs(tcb') /\ PeersDiffer(tcb')
<1>1. Server.tcb = tcb
  BY DEF Server
<1>2. IsServer(s) /\ PeersDiffer(s.tcb)
  BY <1>1, SameUseKeeps DEF IInv, Keeps
<1> QED  BY <1>2, BecomesInv

LEMMA ServerIsOne ==
    ASSUME IInv
    PROVE  IsServer(Server) /\ Server.tcb = tcb
  BY DEF IInv, IsServer, Server

LEMMA AnswerInv ==
    ASSUME IInv, NEW out, Answer(out)
    PROVE  AreTcbs(tcb') /\ PeersDiffer(tcb')
  BY ServerIsOne, OutKeeps, KeepsInv DEF Answer

LEMMA FreedInv ==
    ASSUME IInv, NEW b \in Blocks, NEW out, FreedAfter(b, out)
    PROVE  AreTcbs(tcb') /\ PeersDiffer(tcb')
<1> DEFINE v == [app EXCEPT !.since[b] = <<>>]
<1>1. PICK iss \in Clock :
         Becomes([Server EXCEPT !.tcb[b] = Listening(iss), !.app.since[b] = <<>>, !.out = out])
  BY DEF FreedAfter
<1> DEFINE f == [tcb EXCEPT ![b] = Listening(iss)]
           s == [Server EXCEPT !.tcb = f, !.app = v, !.out = out]
<1>2. [Server EXCEPT !.tcb[b] = Listening(iss), !.app.since[b] = <<>>, !.out = out] = s
  BY DEF Server
<1> HIDE DEF v
<1>3. f = [c \in Blocks |-> IF c = b THEN Listening(iss) ELSE tcb[c]]
  BY DEF IInv, AreTcbs
<1>4. IsTcb(Listening(iss)) /\ Listening(iss).state = "LISTEN"
  BY DEF IsTcb, Listening
<1>5. AreTcbs(f) /\ PeersDiffer(f)
  <2> HIDE DEF f
  <2> QED  BY <1>3, <1>4 DEF AreTcbs, PeersDiffer, IInv
<1>6. IsServer(s) /\ s.tcb = f
  <2> HIDE DEF f
  <2> DEFINE x == [Server EXCEPT !.tcb = f]
  <2>1. s = [tcb |-> f, queue |-> queue, parts |-> parts, app |-> v, out |-> out]
    <3>1. x = [tcb |-> f, queue |-> queue, parts |-> parts, app |-> app, out |-> {}]
      BY DEF Server
    <3>2. s = [x EXCEPT !.app = v, !.out = out]
      OBVIOUS
    <3> HIDE DEF x, s
    <3> QED  BY <3>1, <3>2
  <2> HIDE DEF s
  <2>2. s = [tcb |-> s.tcb, queue |-> s.queue, parts |-> s.parts, app |-> s.app, out |-> s.out]
        /\ s.tcb = f
    BY <2>1
  <2> QED  BY <1>5, <2>2 DEF IsServer
<1> HIDE DEF f, s
<1> QED  BY <1>1, <1>2, <1>5, <1>6, BecomesInv

(* The block of a new connection was not in use, and no block has its peer. *)
LEMMA ListenSynInv ==
    ASSUME IInv, NEW seg, seg.peer \in Peers, NEW b, b = FindTcb(seg.peer), ListenSyn(b, seg)
    PROVE  AreTcbs(tcb') /\ PeersDiffer(tcb')
<1> DEFINE t == [tcb[b] EXCEPT !.peer = seg.peer, !.conn = seg.conn, !.RCVNXT = Plus(seg.seq, 1)]
           u == [t EXCEPT !.state = "SYN_RECEIVED", !.NXT = Plus(t.ISS, 1), !.UNA = t.ISS]
           f == [tcb EXCEPT ![b] = u]
           v == { Segment(t, {"SYN", "ACK"}, t.ISS, t.RCVNXT, 0) }
           r == [Server EXCEPT !.tcb = f]
           s == [r EXCEPT !.out = v]
<1>1. b \in Blocks /\ tcb[b].state = "LISTEN"
      /\ \A c \in Blocks : tcb[c].state # "LISTEN" => tcb[c].peer # seg.peer
  BY RoomForPeer DEF IInv, ListenSyn
<1>2. IsTcb(u) /\ u.state = "SYN_RECEIVED" /\ u.peer = seg.peer
  <2> DEFINE t1 == [tcb[b] EXCEPT !.peer = seg.peer]
             t2 == [t1 EXCEPT !.conn = seg.conn]
             x == Plus(seg.seq, 1)
             t3 == [t2 EXCEPT !.RCVNXT = x]
             u1 == [t EXCEPT !.state = "SYN_RECEIVED"]
             y == Plus(t.ISS, 1)
             z == t.ISS
             u2 == [u1 EXCEPT !.NXT = y]
             u3 == [u2 EXCEPT !.UNA = z]
  <2>1. IsTcb(tcb[b])
    BY <1>1 DEF IInv, AreTcbs
  <2>2. IsTcb(t1) /\ t1.peer = seg.peer
    BY <2>1 DEF IsTcb
  <2>3. IsTcb(t2) /\ t2.peer = seg.peer
    <3> HIDE DEF t1
    <3> QED  BY <2>2 DEF IsTcb
  <2>4. SameTcb(t2, t3)
    <3> HIDE DEF t2, x
    <3> QED  BY <2>3, TcbKeeps
  <2>5. t = t3
    OBVIOUS
  <2>6. IsTcb(t) /\ t.peer = seg.peer
    <3> HIDE DEF t, t2, t3
    <3> QED  BY <2>3, <2>4, <2>5 DEF SameTcb
  <2> HIDE DEF t, y, z
  <2>7. IsTcb(u1) /\ u1.state = "SYN_RECEIVED" /\ u1.peer = t.peer
    BY <2>6, StateSet
  <2>8. SameTcb(u1, u2)
    <3> HIDE DEF u1
    <3> QED  BY <2>7, TcbKeeps
  <2>9. SameTcb(u2, u3)
    <3> HIDE DEF u2
    <3> QED  BY <2>8, TcbKeeps DEF SameTcb
  <2>10. u = u3
    BY DEF y, z
  <2> HIDE DEF u, u1, u2, u3
  <2> QED  BY <2>6, <2>7, <2>8, <2>9, <2>10 DEF SameTcb
<1>3. f = [c \in Blocks |-> IF c = b THEN u ELSE tcb[c]]
  <2> HIDE DEF u
  <2> QED  BY DEF IInv, AreTcbs
<1>4. AreTcbs(f) /\ PeersDiffer(f)
  <2> HIDE DEF f, u
  <2>1. AreTcbs(f)
    BY <1>2, <1>3 DEF AreTcbs, IInv
  <2>2. PeersDiffer(f)
    BY <1>1, <1>2, <1>3 DEF PeersDiffer, IInv
  <2> QED  BY <2>1, <2>2
<1>5. IsServer(r) /\ r.tcb = f
  <2> HIDE DEF f
  <2> QED  BY <1>4 DEF IsServer, Server
<1>6. IsServer(s) /\ PeersDiffer(s.tcb)
  <2> HIDE DEF r, v
  <2>1. Keeps(r, s)
    BY <1>5, OutKeeps
  <2> QED  BY <1>4, <1>5, <2>1, SameUseKeeps DEF Keeps
<1>7. Becomes(s)
  <2>1. Becomes([Server EXCEPT !.tcb[b] = u, !.out = v])
    BY DEF ListenSyn
  <2>2. [Server EXCEPT !.tcb[b] = u, !.out = v] = s
    <3> HIDE DEF u, v
    <3> QED  BY ServerIsOne
  <2> QED  BY <2>1, <2>2
<1> HIDE DEF s
<1> QED  BY <1>6, <1>7, BecomesInv

LEMMA HandshakeAckInv ==
    ASSUME IInv, NEW seg, NEW b \in Blocks, HandshakeAck(b, seg)
    PROVE  AreTcbs(tcb') /\ PeersDiffer(tcb')
<1> DEFINE t == tcb[b]
           u1 == [t EXCEPT !.state = "ESTABLISHED"]
           u2 == [u1 EXCEPT !.UNA = seg.ack]
           u3 == [u2 EXCEPT !.WND = PEER_WINDOW]
           u4 == [u3 EXCEPT !.WL1 = seg.seq]
           u5 == [u4 EXCEPT !.WL2 = seg.ack]
           u == [t EXCEPT !.state = "ESTABLISHED", !.UNA = seg.ack, !.WND = PEER_WINDOW,
                          !.WL1 = seg.seq, !.WL2 = seg.ack]
           s == [Server EXCEPT !.tcb[b] = u]
<1>1. IsTcb(t) /\ t.state = "SYN_RECEIVED"
  BY DEF IInv, AreTcbs, HandshakeAck
<1>2. IsTcb(u1) /\ u1.state = "ESTABLISHED" /\ u1.peer = t.peer
  <2> HIDE DEF t
  <2> QED  BY <1>1, StateSet
<1>3. SameTcb(u1, u2)
  <2> HIDE DEF u1
  <2> QED  BY <1>2, TcbKeeps
<1>4. SameTcb(u2, u3)
  <2> HIDE DEF u2
  <2> QED  BY <1>3, TcbKeeps DEF SameTcb
<1>5. SameTcb(u3, u4)
  <2> HIDE DEF u3
  <2> QED  BY <1>4, TcbKeeps DEF SameTcb
<1>6. SameTcb(u4, u5)
  <2> HIDE DEF u4
  <2> QED  BY <1>5, TcbKeeps DEF SameTcb
<1>7. u = u5
  <2> HIDE DEF t
  <2> QED  OBVIOUS
<1>8. IsTcb(u) /\ u.state = "ESTABLISHED" /\ u.peer = t.peer
  <2> HIDE DEF t, u, u1, u2, u3, u4, u5
  <2> QED  BY <1>2, <1>3, <1>4, <1>5, <1>6, <1>7 DEF SameTcb
<1>9. Becomes(s)
  BY DEF HandshakeAck
<1>10. Keeps(Server, s)
  <2> HIDE DEF u
  <2> QED  BY <1>1, <1>8, ServerIsOne, BlockKeeps
<1> HIDE DEF s
<1> QED  BY <1>9, <1>10, KeepsInv

LEMMA AfterKeeps ==
    ASSUME IInv, NEW seg, NEW b \in Blocks
    PROVE  Keeps(Server, After(b, seg))
<1> DEFINE t == Acknowledged(tcb[b], seg)
           v == Strayed(b, seg)
           r == [Server EXCEPT !.tcb[b] = t]
<1>1. SameTcb(tcb[b], t)
  BY AcknowledgedKeeps DEF IInv, AreTcbs
<1>2. Keeps(Server, r)
  <2> HIDE DEF t
  <2> QED  BY <1>1, ServerIsOne, BlockKeeps DEF SameTcb
<1>3. After(b, seg) = [r EXCEPT !.out = v]
  BY ServerIsOne DEF After
<1> HIDE DEF r, v
<1> QED  BY <1>2, <1>3, OutKeeps, KeepsTrans DEF Keeps

LEMMA ReceiveInv ==
    ASSUME IInv, NEW seg, seg.peer \in Peers, Receive(seg)
    PROVE  AreTcbs(tcb') /\ PeersDiffer(tcb')
<1> DEFINE b == FindTcb(seg.peer)
<1>1. b \in Blocks
  BY RoomForPeer DEF IInv
<1>2. TcpInput(b, seg)
  BY DEF Receive
<1>3. ListenSyn(b, seg) => AreTcbs(tcb') /\ PeersDiffer(tcb')
  BY ListenSynInv
<1> HIDE DEF b
<1>4. CASE ListenIgnored(b, seg)
  BY <1>4, AnswerInv DEF ListenIgnored
<1>5. CASE ListenAck(b, seg)
  BY <1>5, AnswerInv DEF ListenAck
<1>6. CASE Unacceptable(b, seg)
  BY <1>1, <1>6, AnswerInv, FreedInv DEF Unacceptable, Freed
<1>7. CASE AcceptedReset(b, seg)
  BY <1>1, <1>7, FreedInv DEF AcceptedReset, Freed
<1>8. CASE SynAgain(b, seg)
  BY <1>1, <1>8, FreedInv DEF SynAgain, Freed
<1>9. CASE NoAck(b, seg)
  BY <1>9, AnswerInv DEF NoAck
<1>10. CASE HandshakeAck(b, seg)
  BY <1>1, <1>10, HandshakeAckInv
<1>11. ASSUME NEW out, Becomes(Fin([Server EXCEPT !.out = out], b, seg))
       PROVE  AreTcbs(tcb') /\ PeersDiffer(tcb')
  <2> DEFINE s == [Server EXCEPT !.out = out]
  <2>1. Keeps(Server, s)
    BY ServerIsOne, OutKeeps
  <2> HIDE DEF s
  <2>2. Keeps(Server, Fin(s, b, seg))
    BY <1>1, <2>1, FinKeeps, KeepsTrans DEF Keeps
  <2>3. Becomes(Fin(s, b, seg))
    BY <1>11 DEF s
  <2> QED  BY <2>2, <2>3, KeepsInv
<1>12. CASE HandshakeReset(b, seg)
  BY <1>11, <1>12 DEF HandshakeReset
<1>13. CASE AckAhead(b, seg)
  BY <1>13, AnswerInv DEF AckAhead
<1>14. Keeps(Server, After(b, seg)) /\ IsServer(After(b, seg))
  BY <1>1, AfterKeeps DEF Keeps
<1>15. CASE OutOfOrder(b, seg)
  <2> DEFINE s == After(b, seg)
             v == s.out \cup { Ack(s.tcb[b]) }
  <2>1. Becomes([s EXCEPT !.out = v])
    BY <1>15 DEF OutOfOrder
  <2> HIDE DEF s, v
  <2>2. Keeps(Server, [s EXCEPT !.out = v])
    BY <1>14, OutKeeps, KeepsTrans DEF s
  <2> QED  BY <2>1, <2>2, KeepsInv
<1>16. CASE InOrder(b, seg)
  <2>1. PICK method \in Methods : Becomes(Fin(Text(After(b, seg), b, seg, method), b, seg))
    BY <1>16 DEF InOrder
  <2> DEFINE s == After(b, seg)
             r == Text(s, b, seg, method)
  <2>2. Keeps(s, r)
    BY <1>1, <1>14, TextKeeps
  <2> HIDE DEF r
  <2>3. Keeps(r, Fin(r, b, seg))
    BY <1>1, <2>2, FinKeeps DEF Keeps
  <2>4. Keeps(Server, Fin(r, b, seg))
    BY <1>14, <2>2, <2>3, KeepsTrans
  <2> QED  BY <2>1, <2>4, KeepsInv DEF r
<1>17. CASE NoText(b, seg)
  <2>1. Keeps(After(b, seg), Fin(After(b, seg), b, seg))
    BY <1>1, <1>14, FinKeeps
  <2>2. Keeps(Server, Fin(After(b, seg), b, seg))
    BY <1>14, <2>1, KeepsTrans
  <2> QED  BY <1>17, <2>2, KeepsInv DEF NoText
<1>18. CASE LastAck(b, seg)
  BY <1>1, <1>11, <1>18, FreedInv DEF LastAck
<1> QED
  BY <1>2, <1>3, <1>4, <1>5, <1>6, <1>7, <1>8, <1>9, <1>10, <1>12, <1>13, <1>15, <1>16,
     <1>17, <1>18 DEF TcpInput, b

-----------------------------------------------------------------------------
(* The whole system.                                                       *)

LEMMA InitInv == Init => IInv
<1> SUFFICES ASSUME Init PROVE IInv
  OBVIOUS
<1>1. tcb \in [Blocks -> {Listening(iss) : iss \in Clock}]
  BY DEF Init, TcpInit
<1>2. \A iss \in Clock : IsTcb(Listening(iss)) /\ Listening(iss).state = "LISTEN"
  BY DEF IsTcb, Listening
<1>3. AreTcbs(tcb) /\ \A b \in Blocks : tcb[b].state = "LISTEN"
  BY <1>1, <1>2 DEF AreTcbs
<1> QED  BY <1>3 DEF IInv, PeersDiffer, FromPeers, Init

LEMMA FromPeerType ==
    ASSUME NEW p, NEW c, NEW ctl, NEW seq, NEW ack, NEW unit
    PROVE  FromPeer(p, c, ctl, seq, ack, unit).peer = p
  BY DEF FromPeer

(* What a peer does is not about the blocks, and it sends in its own name. *)
LEMMA PeersInv ==
    ASSUME IInv, NEW p \in Peers,
           \/ \E n \in Connections : Connect(p, n)
           \/ RepeatSyn(p)
           \/ \E n \in 1 .. REQUEST : SendUnit(p, n)
           \/ Close(p)
           \/ GiveUp(p)
           \/ \E seg \in toPeer : Arrives(p, seg)
    PROVE  IInv'
<1> DEFINE mine(out) == \A seg \in out : seg.peer = p
<1>1. ASSUME NEW c, NEW out, PeerBecomes(p, c, out), mine(out)
      PROVE  FromPeers'
  BY <1>1 DEF PeerBecomes, FromPeers, IInv
<1>2. /\ \A c : mine({Syn(p, c)}) /\ mine({PeerAck(p, c)}) /\ mine({PeerFin(p, c)})
      /\ \A c, n : mine({Unit(p, c, n)})
      /\ \A seq : mine({PeerReset(p, seq)})
      /\ mine({})
  BY FromPeerType DEF Syn, PeerAck, PeerFin, Unit, PeerReset
<1> HIDE DEF mine
<1>3. ASSUME tcb' = tcb, FromPeers' PROVE IInv'
  BY <1>3 DEF IInv, AreTcbs, PeersDiffer
<1>4. ASSUME NEW n \in Connections, Connect(p, n) PROVE IInv'
  BY <1>1, <1>2, <1>3, <1>4 DEF Connect, UNCHANGED_Server
<1>5. CASE RepeatSyn(p)
  BY <1>2, <1>3, <1>5 DEF RepeatSyn, UNCHANGED_Server, FromPeers, IInv, mine
<1>6. ASSUME NEW n \in 1 .. REQUEST, SendUnit(p, n) PROVE IInv'
  BY <1>2, <1>3, <1>6 DEF SendUnit, UNCHANGED_Server, FromPeers, IInv, mine
<1>7. CASE Close(p)
  BY <1>2, <1>3, <1>7 DEF Close, UNCHANGED_Server, FromPeers, IInv, mine
<1>8. CASE GiveUp(p)
  BY <1>1, <1>2, <1>3, <1>8 DEF GiveUp, UNCHANGED_Server
<1>9. ASSUME NEW seg \in toPeer, InClosed(p, seg) PROVE IInv'
  BY <1>1, <1>2, <1>3, <1>9 DEF InClosed, Takes, UNCHANGED_Server
<1>10. ASSUME NEW seg \in toPeer, InSynSent(p, seg) PROVE IInv'
  BY <1>1, <1>2, <1>3, <1>10 DEF InSynSent, Takes, UNCHANGED_Server
<1>11. ASSUME NEW seg \in toPeer, InConnection(p, seg) PROVE IInv'
  BY <1>1, <1>2, <1>3, <1>11 DEF InConnection, Takes, UNCHANGED_Server
<1> QED
  BY <1>4, <1>5, <1>6, <1>7, <1>8, <1>9, <1>10, <1>11 DEF Arrives

LEMMA NextInv == IInv /\ [Next]_vars => IInv'
<1> SUFFICES ASSUME IInv, [Next]_vars PROVE IInv'
  OBVIOUS
<1>1. CASE UNCHANGED vars
  BY <1>1 DEF vars, IInv, AreTcbs, PeersDiffer, FromPeers
<1>2. ASSUME NEW seg \in Arriving, ServerReceives(seg) PROVE IInv'
  <2>1. seg.peer \in Peers
    BY PeersAssumption DEF Arriving, IInv, FromPeers
  <2>2. Receive(seg) /\ toServer' = toServer \ {seg}
    BY <1>2 DEF ServerReceives, Receive
  <2>3. AreTcbs(tcb') /\ PeersDiffer(tcb')
    BY <2>1, <2>2, ReceiveInv
  <2>4. FromPeers'
    BY <2>2 DEF FromPeers, IInv
  <2> QED  BY <2>3, <2>4 DEF IInv, AreTcbs, PeersDiffer
<1> QED  BY <1>1, <1>2, PeersInv DEF Next

(* A peer never has two blocks: find_tcb finds the block of the peer, or   *)
(* there is none, and then it takes one that is free (net/core/tcp.cpp).   *)
THEOREM OneBlockEach == Spec => []OneBlockPerPeer
<1>1. IInv => OneBlockPerPeer
  BY DEF IInv, PeersDiffer, OneBlockPerPeer, Synchronized
<1> QED  BY InitInv, NextInv, <1>1, PTL DEF Spec

(* There is a block for each segment that comes, as long as there are as   *)
(* many blocks as peers: find_tcb never goes behind the last.              *)
THEOREM BlockForEachSegment == Spec => [](\A p \in Peers : FindTcb(p) \in Blocks)
<1>1. IInv => \A p \in Peers : FindTcb(p) \in Blocks
  BY RoomForPeer DEF IInv
<1> QED  BY InitInv, NextInv, <1>1, PTL DEF Spec

-----------------------------------------------------------------------------
(* The types.  In the middle of a step a block may be in CLOSE_WAIT.       *)

Tcbs(states) ==
    [state : states, peer : Peers \cup {Nobody}, conn : Connections \cup {0},
     ISS : SequenceNumbers, UNA : SequenceNumbers, NXT : SequenceNumbers,
     WND : 0 .. PEER_WINDOW, WL1 : SequenceNumbers, WL2 : SequenceNumbers,
     RCVNXT : SequenceNumbers, RCVWND : 0 .. WINDOW]

States == {"LISTEN", "SYN_RECEIVED", "ESTABLISHED", "LAST_ACK"}
Busy == States \cup {"CLOSE_WAIT"}

Queues == [block : Blocks, count : 0 .. QUEUE]

IsFromPeer(seg) ==
    seg \in [peer : Peers, ctl : SUBSET Flags, seq : SequenceNumbers, ack : SequenceNumbers,
             conn : Connections \cup {0}, unit : 0 .. REQUEST]

Answers ==
    [peer : Peers \cup {Nobody}, ctl : SUBSET Flags, seq : SequenceNumbers,
     ack : SequenceNumbers, len : {0, 1}, wnd : 0 .. WINDOW]

IsTyped(s, states) ==
    /\ s = [tcb |-> s.tcb, queue |-> s.queue, parts |-> s.parts, app |-> s.app, out |-> s.out]
    /\ s.tcb \in [Blocks -> Tcbs(states)]
    /\ s.queue \in Queues
    /\ s.parts \in [Blocks -> 0 .. (REQUEST - 1)]
    /\ s.out \in SUBSET Answers

LEMMA TcpNumbers ==
    /\ MODULUS \in Nat /\ MODULUS > 1
    /\ WINDOW \in Nat /\ PEER_WINDOW \in Nat
    /\ REQUEST \in Nat /\ REQUEST >= 1 /\ QUEUE \in Nat /\ HEADER \in Nat /\ CONTENT \in Nat
    /\ 0 \in SequenceNumbers /\ Clock \subseteq SequenceNumbers
<1>1. {WINDOW, PEER_WINDOW} \subseteq 1 .. (MODULUS \div 2 - 1)
  BY TcpAssumption
<1>2. {QUEUE, REQUEST, HEADER, CONTENT} \subseteq Nat \ {0} /\ MODULUS \in Nat \ {0, 1}
  BY TcpAssumption
<1> QED  BY <1>1, <1>2, TcpAssumption DEF SequenceNumbers

LEMMA PlusType ==
    ASSUME NEW x \in Int, NEW n \in Int
    PROVE  Plus(x, n) \in SequenceNumbers
<1>1. x + n \in Int /\ MODULUS \in Nat /\ MODULUS > 0
  BY TcpNumbers
<1>2. (x + n) % MODULUS \in 0 .. (MODULUS - 1)
  BY <1>1
<1> QED  BY <1>2 DEF Plus, SequenceNumbers

LEMMA NumberIsInt == SequenceNumbers \subseteq Int
  BY TcpNumbers DEF SequenceNumbers

LEMMA SegmentTyped ==
    ASSUME NEW states, NEW t \in Tcbs(states), NEW ctl \in SUBSET Flags,
           NEW seq \in SequenceNumbers, NEW ack \in SequenceNumbers, NEW len \in {0, 1}
    PROVE  Segment(t, ctl, seq, ack, len) \in Answers
  BY DEF Segment, Tcbs, Answers

LEMMA AckTyped ==
    ASSUME NEW states, NEW t \in Tcbs(states)
    PROVE  Ack(t) \in Answers
<1>1. t.NXT \in SequenceNumbers /\ t.RCVNXT \in SequenceNumbers
  BY DEF Tcbs
<1> QED  BY <1>1, SegmentTyped DEF Ack, Flags

LEMMA ResetTyped ==
    ASSUME NEW states, NEW t \in Tcbs(states), NEW seg, IsFromPeer(seg)
    PROVE  Reset(t, seg) \in SUBSET Answers
<1> DEFINE u == [t EXCEPT !.peer = seg.peer]
           used == Cardinality(seg.ctl \cap {"SYN", "FIN"})
<1>1. u \in Tcbs(states)
  BY DEF Tcbs, IsFromPeer
<1>2. used \in Int
  <2>1. IsFiniteSet({"SYN"}) /\ IsFiniteSet({"SYN"} \cup {"FIN"})
    BY FS_Singleton, FS_AddElement
  <2>2. IsFiniteSet(seg.ctl \cap ({"SYN"} \cup {"FIN"}))
    BY <2>1, FS_Subset
  <2>3. seg.ctl \cap ({"SYN"} \cup {"FIN"}) = seg.ctl \cap {"SYN", "FIN"}
    OBVIOUS
  <2> QED  BY <2>2, <2>3, FS_CardinalityType
<1>3. seg.seq \in SequenceNumbers /\ seg.ack \in SequenceNumbers
  BY DEF IsFromPeer
<1> HIDE DEF u, used
<1>4. Plus(seg.seq, used) \in SequenceNumbers
  BY <1>2, <1>3, NumberIsInt, PlusType
<1>5. /\ Segment(u, {"RST"}, seg.ack, Plus(seg.seq, used), 0) \in Answers
      /\ Segment(u, {"RST", "ACK"}, 0, Plus(seg.seq, used), 0) \in Answers
  BY <1>1, <1>3, <1>4, SegmentTyped, TcpNumbers DEF Flags
<1> QED  BY <1>5 DEF Reset, u, used

LEMMA BlockTyped ==
    ASSUME NEW states, NEW s, IsTyped(s, states), NEW b, NEW t \in Tcbs(states)
    PROVE  /\ IsTyped([s EXCEPT !.tcb[b] = t], states)
           /\ b \in Blocks => [s EXCEPT !.tcb[b] = t].tcb[b] = t
           /\ [s EXCEPT !.tcb[b] = t].queue = s.queue
           /\ [s EXCEPT !.tcb[b] = t].out = s.out
<1> DEFINE r == [s EXCEPT !.tcb[b] = t]
           f == [s.tcb EXCEPT ![b] = t]
<1>1. f \in [Blocks -> Tcbs(states)] /\ (b \in Blocks => f[b] = t)
  BY DEF IsTyped
<1>2. r = [tcb |-> f, queue |-> s.queue, parts |-> s.parts, app |-> s.app, out |-> s.out]
  BY DEF IsTyped
<1> HIDE DEF f, r
<1>3. r.tcb = f /\ r.queue = s.queue /\ r.parts = s.parts /\ r.app = s.app /\ r.out = s.out
  BY <1>2
<1>4. IsTyped(r, states)
  BY <1>1, <1>2, <1>3 DEF IsTyped
<1> QED  BY <1>1, <1>3, <1>4 DEF r

LEMMA OutTyped ==
    ASSUME NEW states, NEW s, IsTyped(s, states), NEW out \in SUBSET Answers
    PROVE  /\ IsTyped([s EXCEPT !.out = out], states)
           /\ [s EXCEPT !.out = out].tcb = s.tcb /\ [s EXCEPT !.out = out].out = out
           /\ [s EXCEPT !.out = out].queue = s.queue
  BY DEF IsTyped

LEMMA QueueTyped ==
    ASSUME NEW states, NEW s, IsTyped(s, states), NEW q \in Queues
    PROVE  IsTyped([s EXCEPT !.queue = q], states) /\ [s EXCEPT !.queue = q].tcb = s.tcb
  BY DEF IsTyped

LEMMA SendManyTyped ==
    ASSUME NEW states, NEW s, IsTyped(s, states), NEW b \in Blocks, NEW count \in Nat,
           count <= s.tcb[b].WND
    PROVE  IsTyped(SendMany(s, b, count), states) /\ SendMany(s, b, count).queue = s.queue
<1> DEFINE t == s.tcb[b]
           x == Plus(t.NXT, count)
           y == t.WND - count
           u == [t EXCEPT !.NXT = x, !.WND = y]
           sent == { Segment(t, {"ACK"}, Plus(t.NXT, n), t.RCVNXT, 1) : n \in 0 .. count - 1 }
           r == [s EXCEPT !.tcb[b] = u]
           v == s.out \cup sent
<1>1. t \in Tcbs(states)
  BY DEF IsTyped
<1>2. /\ t.NXT \in SequenceNumbers /\ t.RCVNXT \in SequenceNumbers
      /\ t.WND \in 0 .. PEER_WINDOW /\ t.NXT \in Int
  BY <1>1, NumberIsInt DEF Tcbs
<1>3. x \in SequenceNumbers /\ y \in 0 .. PEER_WINDOW
  <2> HIDE DEF t
  <2>1. x \in SequenceNumbers
    BY <1>2, PlusType
  <2>2. count <= t.WND
    BY DEF t
  <2> QED  BY <1>2, <2>1, <2>2, TcpNumbers
<1>4. u \in Tcbs(states)
  <2> HIDE DEF t, x, y
  <2> QED  BY <1>1, <1>3 DEF Tcbs
<1>5. v \in SUBSET Answers
  <2>1. \A n \in 0 .. count - 1 : Plus(t.NXT, n) \in SequenceNumbers
    <3> HIDE DEF t
    <3> QED  BY <1>2, PlusType
  <2> HIDE DEF t
  <2>2. \A n \in 0 .. count - 1 : Segment(t, {"ACK"}, Plus(t.NXT, n), t.RCVNXT, 1) \in Answers
    BY <1>1, <1>2, <2>1, SegmentTyped DEF Flags
  <2>3. sent \in SUBSET Answers
    BY <2>2
  <2> QED  BY <2>3 DEF IsTyped
<1>6. SendMany(s, b, count) = [r EXCEPT !.out = v]
  <2>1. SendMany(s, b, count) = [s EXCEPT !.tcb[b] = [t EXCEPT !.NXT = x, !.WND = y], !.out = v]
    BY DEF SendMany
  <2> HIDE DEF t, x, y, v
  <2> QED  BY <2>1 DEF IsTyped
<1> HIDE DEF u, v
<1>7. IsTyped(r, states) /\ r.queue = s.queue
  BY <1>4, BlockTyped
<1> HIDE DEF r
<1> QED  BY <1>5, <1>6, <1>7, OutTyped

LEMMA WriteTyped ==
    ASSUME NEW states, NEW s, IsTyped(s, states), NEW b \in Blocks, NEW length \in Nat
    PROVE  IsTyped(Write(s, b, length), states)
<1> DEFINE q == [block |-> b, count |-> Smaller(QUEUE, s.queue.count + length)]
<1>1. q \in Queues
  <2>1. s.queue.count \in 0 .. QUEUE
    BY DEF IsTyped, Queues
  <2>2. Smaller(QUEUE, s.queue.count + length) \in 0 .. QUEUE
    BY <2>1, TcpNumbers DEF Smaller
  <2> QED  BY <2>2 DEF Queues
<1> HIDE DEF q
<1>2. IsTyped([s EXCEPT !.queue = q], states)
  BY <1>1, QueueTyped
<1>3. CASE length <= s.tcb[b].WND
  BY <1>3, SendManyTyped DEF Write
<1>4. CASE ~(length <= s.tcb[b].WND)
  BY <1>2, <1>4 DEF Write, q
<1> QED  BY <1>3, <1>4

LEMMA AbortTyped ==
    ASSUME NEW states, NEW s, IsTyped(s, states), NEW b \in Blocks
    PROVE  IsTyped(Abort(s, b), states)
<1> DEFINE t == s.tcb[b]
           v == s.out \cup { Segment(t, {"RST"}, t.NXT, t.RCVNXT, 0) }
<1>1. t \in Tcbs(states)
  BY DEF IsTyped
<1>2. t.NXT \in SequenceNumbers /\ t.RCVNXT \in SequenceNumbers
  BY <1>1 DEF Tcbs
<1>3. Segment(t, {"RST"}, t.NXT, t.RCVNXT, 0) \in Answers
  <2> HIDE DEF t
  <2> QED  BY <1>1, <1>2, SegmentTyped DEF Flags
<1>4. v \in SUBSET Answers
  BY <1>3 DEF IsTyped
<1> HIDE DEF v
<1> QED  BY <1>4, OutTyped DEF Abort, v

LEMMA HandlerTyped ==
    ASSUME NEW states, NEW s, IsTyped(s, states), NEW v,
           NEW w \in [Blocks -> 0 .. (REQUEST - 1)]
    PROVE  IsTyped([s EXCEPT !.app = v, !.parts = w], states)
<1> DEFINE r == [s EXCEPT !.app = v]
<1>1. IsTyped(r, states)
  BY DEF IsTyped
<1>2. IsTyped([r EXCEPT !.parts = w], states)
  <2> HIDE DEF r
  <2> QED  BY <1>1 DEF IsTyped
<1>3. [s EXCEPT !.app = v, !.parts = w] = [r EXCEPT !.parts = w]
  OBVIOUS
<1> QED  BY <1>2, <1>3

LEMMA ReadTyped ==
    ASSUME NEW n \in 0 .. (REQUEST - 1), NEW method
    PROVE  Read(n, method) \in 0 .. (REQUEST - 1)
<1>1. n + 1 \in Int /\ 0 \in 0 .. (REQUEST - 1)
  BY TcpNumbers
<1>2. (n + 1) % REQUEST \in 0 .. (REQUEST - 1)
  BY <1>1, TcpNumbers
<1> QED  BY <1>1, <1>2 DEF Read

LEMMA CallbackTyped ==
    ASSUME NEW states, NEW s, IsTyped(s, states), NEW b \in Blocks, NEW data,
           NEW method
    PROVE  IsTyped(Callback(s, b, data, method), states)
<1> DEFINE v == [since |-> [s.app.since EXCEPT ![b] = Append(@, data)],
                 ever |-> s.app.ever \cup {data}]
           w == [s.parts EXCEPT ![b] = Read(@, method)]
           read == [s EXCEPT !.app = v, !.parts[b] = Read(@, method)]
<1>1. w \in [Blocks -> 0 .. (REQUEST - 1)]
  <2>1. s.parts \in [Blocks -> 0 .. (REQUEST - 1)]
    BY DEF IsTyped
  <2>2. Read(s.parts[b], method) \in 0 .. (REQUEST - 1)
    BY <2>1, ReadTyped
  <2> QED  BY <2>1, <2>2
<1>2. read = [s EXCEPT !.app = v, !.parts = w]
  OBVIOUS
<1>3. IsTyped(read, states)
  <2> HIDE DEF v, w
  <2> QED  BY <1>1, <1>2, HandlerTyped
<1> HIDE DEF v, read
<1>4. IsTyped(Abort(read, b), states)
  BY <1>3, AbortTyped
<1>5. IsTyped(Write(Write(read, b, HEADER), b, CONTENT), states)
  <2>1. IsTyped(Write(read, b, HEADER), states)
    BY <1>3, WriteTyped, TcpNumbers
  <2> QED  BY <2>1, WriteTyped, TcpNumbers
<1>6. Callback(s, b, data, method) \in {read, Abort(read, b), Write(Write(read, b, HEADER), b, CONTENT)}
  BY DEF Callback, read, v
<1> QED  BY <1>3, <1>4, <1>5, <1>6

LEMMA TextTyped ==
    ASSUME NEW states, NEW s, IsTyped(s, states), NEW b \in Blocks, NEW seg,
           NEW method, s.tcb[b].RCVWND > 0
    PROVE  IsTyped(Text(s, b, seg, method), states)
<1> DEFINE t == s.tcb[b]
           x == Plus(t.RCVNXT, 1)
           y == t.RCVWND - 1
           u == [t EXCEPT !.RCVNXT = x, !.RCVWND = y]
           counted == [s EXCEPT !.tcb[b] = u]
           data == [conn |-> seg.conn, unit |-> seg.unit]
           read == Callback(counted, b, data, method)
           v == read.out \cup { Ack(read.tcb[b]) }
<1>1. t \in Tcbs(states)
  BY DEF IsTyped
<1>2. t.RCVNXT \in Int /\ t.RCVWND \in 0 .. WINDOW /\ t.RCVWND > 0
  BY <1>1, NumberIsInt DEF Tcbs
<1>3. x \in SequenceNumbers
  <2> HIDE DEF t
  <2> QED  BY <1>2, PlusType
<1>4. y \in 0 .. WINDOW
  BY <1>2, TcpNumbers
<1>5. u \in Tcbs(states)
  <2> HIDE DEF t, x, y
  <2> QED  BY <1>1, <1>3, <1>4 DEF Tcbs
<1>6. IsTyped(counted, states)
  <2> HIDE DEF u
  <2> QED  BY <1>5, BlockTyped
<1>7. IsTyped(read, states)
  <2> HIDE DEF counted, data
  <2> QED  BY <1>6, CallbackTyped
<1>8. Text(s, b, seg, method) = [read EXCEPT !.out = v]
  BY DEF Text
<1> HIDE DEF read
<1>9. Ack(read.tcb[b]) \in Answers
  <2>1. read.tcb[b] \in Tcbs(states)
    BY <1>7 DEF IsTyped
  <2> QED  BY <2>1, AckTyped
<1>10. v \in SUBSET Answers
  BY <1>7, <1>9 DEF IsTyped
<1> HIDE DEF v
<1> QED  BY <1>7, <1>8, <1>10, OutTyped

LEMMA FinTyped ==
    ASSUME NEW s, IsTyped(s, Busy), NEW b \in Blocks, NEW seg
    PROVE  IsTyped(Fin(s, b, seg), Busy)
<1> DEFINE t == s.tcb[b]
           x == Plus(t.RCVNXT, 1)
           y == IF t.state \in {"SYN_RECEIVED", "ESTABLISHED"} THEN "CLOSE_WAIT" ELSE t.state
           u == [t EXCEPT !.RCVNXT = x, !.state = y]
           r == [s EXCEPT !.tcb[b] = u]
           v == s.out \cup { Ack(u) }
<1>1. t \in Tcbs(Busy)
  BY DEF IsTyped
<1>2. t.RCVNXT \in Int /\ y \in Busy
  BY <1>1, NumberIsInt DEF Tcbs, Busy
<1>3. x \in SequenceNumbers
  <2> HIDE DEF t
  <2> QED  BY <1>2, PlusType
<1>4. u \in Tcbs(Busy)
  <2> HIDE DEF t, x, y
  <2> QED  BY <1>1, <1>2, <1>3 DEF Tcbs
<1>5. v \in SUBSET Answers
  <2> HIDE DEF u
  <2> QED  BY <1>4, AckTyped DEF IsTyped
<1>6. "FIN" \in seg.ctl => Fin(s, b, seg) = [r EXCEPT !.out = v]
  <2>1. "FIN" \in seg.ctl => Fin(s, b, seg) = [s EXCEPT !.tcb[b] = u, !.out = v]
    BY DEF Fin
  <2> HIDE DEF u, v
  <2> QED  BY <2>1 DEF IsTyped
<1>7. "FIN" \notin seg.ctl => Fin(s, b, seg) = s
  BY DEF Fin
<1> HIDE DEF u, v
<1>8. IsTyped(r, Busy)
  BY <1>4, BlockTyped
<1> HIDE DEF r
<1>9. IsTyped([r EXCEPT !.out = v], Busy)
  BY <1>5, <1>8, OutTyped
<1> QED  BY <1>6, <1>7, <1>9

LEMMA AcknowledgedTyped ==
    ASSUME NEW states, NEW t \in Tcbs(states), NEW seg, IsFromPeer(seg)
    PROVE  /\ Acknowledged(t, seg) \in Tcbs(states)
           /\ Acknowledged(t, seg).RCVWND = t.RCVWND
<1>1. seg.seq \in SequenceNumbers /\ seg.ack \in SequenceNumbers
  BY DEF IsFromPeer
<1>2. ASSUME NEW u \in Tcbs(states)
      PROVE  WindowUpdate(u, seg) \in Tcbs(states) /\ WindowUpdate(u, seg).RCVWND = u.RCVWND
  <2> DEFINE w == [u EXCEPT !.WND = PEER_WINDOW, !.WL1 = seg.seq, !.WL2 = seg.ack]
  <2>1. PEER_WINDOW \in 0 .. PEER_WINDOW
    BY TcpNumbers
  <2>3. w \in Tcbs(states) /\ w.RCVWND = u.RCVWND
    BY <1>1, <1>2, <2>1 DEF Tcbs
  <2>2. WindowUpdate(u, seg) \in {w, u}
    BY DEF WindowUpdate
  <2> HIDE DEF w
  <2> QED  BY <2>2, <2>3
<1> DEFINE u == [t EXCEPT !.UNA = seg.ack]
<1>3. u \in Tcbs(states) /\ u.RCVWND = t.RCVWND
  BY <1>1 DEF Tcbs
<1> HIDE DEF u
<1>4. Acknowledged(t, seg) \in {WindowUpdate(u, seg), WindowUpdate(t, seg), t}
  BY DEF Acknowledged, u
<1> QED  BY <1>2, <1>3, <1>4

(* After tcp_run no block is in CLOSE_WAIT.                                *)
LEMMA RunTyped ==
    ASSUME NEW s, IsTyped(s, Busy)
    PROVE  IsTyped(Run(s), States)
<1> DEFINE closing == { b \in Blocks : s.tcb[b].state = "CLOSE_WAIT" }
           fin(t) == Segment(t, {"FIN", "ACK"}, t.NXT, t.RCVNXT, 0)
           f == [b \in Blocks |-> IF b \notin closing THEN s.tcb[b]
                   ELSE [s.tcb[b] EXCEPT !.state = "LAST_ACK", !.NXT = Plus(@, 1)]]
           sent == { fin(s.tcb[b]) : b \in closing }
           v == s.out \cup sent
           closed == [s EXCEPT !.tcb = f, !.out = @ \cup sent]
           block == s.queue.block
           count == Smaller(s.queue.count, closed.tcb[block].WND)
           rest == SendMany(closed, block, count)
           q == [rest.queue EXCEPT !.count = @ - count]
<1>1. \A b \in Blocks : s.tcb[b] \in Tcbs(Busy)
  BY DEF IsTyped
<1>2. f \in [Blocks -> Tcbs(States)]
  <2> SUFFICES ASSUME NEW b \in Blocks PROVE f[b] \in Tcbs(States)
    OBVIOUS
  <2> DEFINE t == s.tcb[b]
             x == Plus(t.NXT, 1)
             u == [t EXCEPT !.state = "LAST_ACK", !.NXT = x]
  <2>1. t \in Tcbs(Busy) /\ t.NXT \in Int
    BY <1>1, NumberIsInt DEF Tcbs
  <2>2. x \in SequenceNumbers
    <3> HIDE DEF t
    <3> QED  BY <2>1, PlusType
  <2>3. u \in Tcbs(States)
    <3> HIDE DEF t, x
    <3> QED  BY <2>1, <2>2 DEF Tcbs, States
  <2>4. CASE b \in closing
    <3>1. f[b] = u
      BY <2>4
    <3> HIDE DEF f, u
    <3> QED  BY <2>3, <3>1
  <2>5. CASE b \notin closing
    <3>1. f[b] = t /\ t.state # "CLOSE_WAIT"
      BY <2>5
    <3> HIDE DEF f, t
    <3> QED  BY <2>1, <3>1 DEF Tcbs, Busy
  <2> QED  BY <2>4, <2>5
<1>3. v \in SUBSET Answers
  <2>1. ASSUME NEW b \in closing PROVE fin(s.tcb[b]) \in Answers
    <3> DEFINE t == s.tcb[b]
    <3>1. t \in Tcbs(Busy) /\ t.NXT \in SequenceNumbers /\ t.RCVNXT \in SequenceNumbers
      BY <1>1 DEF Tcbs
    <3> HIDE DEF t
    <3>2. Segment(t, {"FIN", "ACK"}, t.NXT, t.RCVNXT, 0) \in Answers
      BY <3>1, SegmentTyped DEF Flags
    <3> QED  BY <3>2 DEF t
  <2> HIDE DEF fin, closing
  <2> QED  BY <2>1 DEF IsTyped
<1>4. IsTyped(closed, States) /\ closed.queue = s.queue
  <2>1. closed = [s EXCEPT !.tcb = f, !.out = v]
    OBVIOUS
  <2> DEFINE r == [s EXCEPT !.tcb = f]
  <2>2. IsTyped(r, States) /\ r.queue = s.queue
    <3> HIDE DEF f
    <3> QED  BY <1>2 DEF IsTyped
  <2>3. closed = [r EXCEPT !.out = v]
    <3> HIDE DEF f, v
    <3> QED  BY <2>1
  <2> HIDE DEF r, v, closed
  <2> QED  BY <1>3, <2>2, <2>3, OutTyped
<1> HIDE DEF closed, v
<1>5. /\ block \in Blocks /\ s.queue.count \in 0 .. QUEUE
      /\ closed.tcb[block].WND \in 0 .. PEER_WINDOW
  <2>1. s.queue \in Queues
    BY DEF IsTyped
  <2>2. block \in Blocks /\ s.queue.count \in 0 .. QUEUE
    BY <2>1 DEF Queues
  <2>3. closed.tcb[block] \in Tcbs(States)
    BY <1>4, <2>2 DEF IsTyped
  <2> QED  BY <2>2, <2>3 DEF Tcbs
<1>6. count \in Nat /\ count <= closed.tcb[block].WND /\ count <= s.queue.count
  BY <1>5, TcpNumbers DEF Smaller
<1> HIDE DEF count
<1>7. IsTyped(rest, States) /\ rest.queue = s.queue
  BY <1>4, <1>5, <1>6, SendManyTyped
<1> HIDE DEF rest
<1>8. q \in Queues
  <2>1. s.queue \in Queues
    BY DEF IsTyped
  <2>2. s.queue.count - count \in 0 .. QUEUE
    BY <1>5, <1>6, TcpNumbers
  <2> QED  BY <1>7, <2>1, <2>2 DEF Queues
<1>9. Run(s) = [rest EXCEPT !.queue = q]
  <2>1. Run(s) = [rest EXCEPT !.queue.count = @ - count]
    BY DEF Run, rest, count, closed
  <2> QED  BY <2>1
<1> HIDE DEF q
<1> QED  BY <1>7, <1>8, <1>9, QueueTyped

-----------------------------------------------------------------------------
(* The types of a segment's step.                                          *)

ServerTyped ==
    /\ tcb \in [Blocks -> Tcbs(States)]
    /\ queue \in Queues
    /\ parts \in [Blocks -> 0 .. (REQUEST - 1)]
    /\ toPeer \subseteq Answers

LEMMA MoreStates ==
    ASSUME NEW s, IsTyped(s, States)
    PROVE  IsTyped(s, Busy)
<1>1. Tcbs(States) \subseteq Tcbs(Busy)
  BY DEF Tcbs, Busy
<1>2. s.tcb \in [Blocks -> Tcbs(Busy)]
  BY <1>1 DEF IsTyped
<1> QED  BY <1>2 DEF IsTyped

LEMMA ServerIsTyped ==
    ASSUME ServerTyped
    PROVE  IsTyped(Server, States) /\ IsTyped(Server, Busy) /\ Server.tcb = tcb
<1>1. IsTyped(Server, States)
  BY DEF IsTyped, Server, ServerTyped
<1> QED  BY <1>1, MoreStates DEF Server

LEMMA BecomesTyped ==
    ASSUME ServerTyped, NEW s, IsTyped(s, Busy), Becomes(s)
    PROVE  ServerTyped'
<1>1. IsTyped(Run(s), States)
  BY RunTyped
<1>2. /\ tcb' = Run(s).tcb /\ queue' = Run(s).queue /\ parts' = Run(s).parts
      /\ toPeer' \subseteq toPeer \cup Run(s).out
  BY DEF Becomes
<1> QED  BY <1>1, <1>2 DEF IsTyped, ServerTyped, Tcbs, Queues, Answers, States, SequenceNumbers

LEMMA AnswerTyped ==
    ASSUME ServerTyped, NEW out \in SUBSET Answers, Answer(out)
    PROVE  ServerTyped'
  BY ServerIsTyped, OutTyped, BecomesTyped DEF Answer

LEMMA ListeningTyped ==
    ASSUME NEW iss \in Clock
    PROVE  Listening(iss) \in Tcbs(States) /\ Listening(iss) \in Tcbs(Busy)
<1>1. iss \in SequenceNumbers /\ 0 \in SequenceNumbers /\ 0 \in 0 .. PEER_WINDOW
      /\ WINDOW \in 0 .. WINDOW
  BY TcpNumbers
<1> QED  BY <1>1 DEF Listening, Tcbs, Busy, States

LEMMA FreedTyped ==
    ASSUME ServerTyped, NEW b \in Blocks, NEW out \in SUBSET Answers, FreedAfter(b, out)
    PROVE  ServerTyped'
<1> DEFINE v == [app EXCEPT !.since[b] = <<>>]
<1>1. PICK iss \in Clock :
         Becomes([Server EXCEPT !.tcb[b] = Listening(iss), !.app.since[b] = <<>>, !.out = out])
  BY DEF FreedAfter
<1> DEFINE r == [Server EXCEPT !.tcb[b] = Listening(iss)]
<1>2. [Server EXCEPT !.tcb[b] = Listening(iss), !.app.since[b] = <<>>, !.out = out] = [r EXCEPT !.app = v, !.out = out]
  BY DEF Server
<1>3. IsTyped(r, Busy)
  BY ServerIsTyped, ListeningTyped, BlockTyped
<1> HIDE DEF v, r
<1>4. IsTyped([r EXCEPT !.app = v, !.out = out], Busy)
  <2> DEFINE q == [r EXCEPT !.app = v]
  <2>1. IsTyped(q, Busy)
    BY <1>3 DEF IsTyped
  <2>2. [r EXCEPT !.app = v, !.out = out] = [q EXCEPT !.out = out]
    OBVIOUS
  <2> HIDE DEF q
  <2> QED  BY <2>1, <2>2, OutTyped
<1> QED  BY <1>1, <1>2, <1>4, BecomesTyped

LEMMA ListenSynTyped ==
    ASSUME ServerTyped, NEW seg, IsFromPeer(seg), NEW b \in Blocks, ListenSyn(b, seg)
    PROVE  ServerTyped'
<1> DEFINE x == Plus(seg.seq, 1)
           t == [tcb[b] EXCEPT !.peer = seg.peer, !.conn = seg.conn, !.RCVNXT = x]
           y == Plus(t.ISS, 1)
           u == [t EXCEPT !.state = "SYN_RECEIVED", !.NXT = y, !.UNA = t.ISS]
           v == { Segment(t, {"SYN", "ACK"}, t.ISS, t.RCVNXT, 0) }
           r == [Server EXCEPT !.tcb[b] = u]
<1>1. tcb[b] \in Tcbs(Busy)
  BY DEF ServerTyped, Tcbs, Busy
<1>2. seg.peer \in Peers /\ seg.conn \in Connections \cup {0} /\ seg.seq \in Int
  BY NumberIsInt DEF IsFromPeer
<1>3. x \in SequenceNumbers
  BY <1>2, PlusType
<1>4. t \in Tcbs(Busy)
  <2> HIDE DEF x
  <2> QED  BY <1>1, <1>2, <1>3 DEF Tcbs
<1> HIDE DEF t
<1>5. t.ISS \in SequenceNumbers /\ t.RCVNXT \in SequenceNumbers /\ t.ISS \in Int
  BY <1>4, NumberIsInt DEF Tcbs
<1>6. y \in SequenceNumbers
  BY <1>5, PlusType
<1>7. u \in Tcbs(Busy)
  <2> HIDE DEF y
  <2> QED  BY <1>4, <1>5, <1>6 DEF Tcbs, Busy, States
<1>8. v \in SUBSET Answers
  BY <1>4, <1>5, SegmentTyped DEF Flags
<1> HIDE DEF u, v
<1>9. IsTyped(r, Busy)
  BY <1>7, ServerIsTyped, BlockTyped
<1>10. Becomes([r EXCEPT !.out = v])
  <2>1. Becomes([Server EXCEPT !.tcb[b] = u, !.out = v])
    BY DEF ListenSyn, t, u, v, x, y
  <2>2. [Server EXCEPT !.tcb[b] = u, !.out = v] = [r EXCEPT !.out = v]
    BY DEF Server
  <2> QED  BY <2>1, <2>2
<1> HIDE DEF r
<1>11. IsTyped([r EXCEPT !.out = v], Busy)
  BY <1>8, <1>9, OutTyped
<1> QED  BY <1>10, <1>11, BecomesTyped

LEMMA HandshakeAckTyped ==
    ASSUME ServerTyped, NEW seg, IsFromPeer(seg), NEW b \in Blocks, HandshakeAck(b, seg)
    PROVE  ServerTyped'
<1> DEFINE t == tcb[b]
           w == PEER_WINDOW
           u1 == [t EXCEPT !.state = "ESTABLISHED", !.UNA = seg.ack]
           u2 == [u1 EXCEPT !.WND = w, !.WL1 = seg.seq, !.WL2 = seg.ack]
           u == [t EXCEPT !.state = "ESTABLISHED", !.UNA = seg.ack, !.WND = w,
                          !.WL1 = seg.seq, !.WL2 = seg.ack]
<1>1. t \in Tcbs(Busy)
  BY DEF ServerTyped, Tcbs, Busy
<1>2. /\ seg.seq \in SequenceNumbers /\ seg.ack \in SequenceNumbers
      /\ w \in 0 .. PEER_WINDOW
  BY TcpNumbers DEF IsFromPeer
<1>3. u = u2
  <2> HIDE DEF t, w
  <2> QED  OBVIOUS
<1> HIDE DEF t, w
<1>4. u1 \in Tcbs(Busy)
  BY <1>1, <1>2 DEF Tcbs, Busy, States
<1>5. u2 \in Tcbs(Busy)
  <2> HIDE DEF u1
  <2> QED  BY <1>2, <1>4 DEF Tcbs
<1>6. Becomes([Server EXCEPT !.tcb[b] = u])
  BY DEF HandshakeAck, t, w
<1> HIDE DEF u, u2
<1>7. IsTyped([Server EXCEPT !.tcb[b] = u], Busy)
  BY <1>3, <1>5, ServerIsTyped, BlockTyped
<1> QED  BY <1>6, <1>7, BecomesTyped

LEMMA StrayedTyped ==
    ASSUME ServerTyped, NEW seg, IsFromPeer(seg), NEW b \in Blocks
    PROVE  Strayed(b, seg) \in SUBSET Answers
<1>1. tcb[b] \in Tcbs(States)
  BY DEF ServerTyped
<1> QED  BY <1>1, ResetTyped DEF Strayed

LEMMA AfterTyped ==
    ASSUME ServerTyped, NEW seg, IsFromPeer(seg), NEW b \in Blocks
    PROVE  /\ IsTyped(After(b, seg), Busy)
           /\ After(b, seg).tcb[b].RCVWND = tcb[b].RCVWND
<1> DEFINE t == Acknowledged(tcb[b], seg)
           v == Strayed(b, seg)
           r == [Server EXCEPT !.tcb[b] = t]
<1>1. tcb[b] \in Tcbs(Busy)
  BY DEF ServerTyped, Tcbs, Busy
<1>2. t \in Tcbs(Busy) /\ t.RCVWND = tcb[b].RCVWND
  BY <1>1, AcknowledgedTyped
<1>3. v \in SUBSET Answers
  BY StrayedTyped
<1>4. After(b, seg) = [r EXCEPT !.out = v]
  BY DEF After, Server
<1> HIDE DEF t, v
<1>5. IsTyped(r, Busy) /\ r.tcb[b] = t
  BY <1>2, ServerIsTyped, BlockTyped
<1> HIDE DEF r
<1>6. IsTyped([r EXCEPT !.out = v], Busy) /\ [r EXCEPT !.out = v].tcb = r.tcb
  BY <1>3, <1>5, OutTyped
<1> QED  BY <1>2, <1>4, <1>5, <1>6

LEMMA ReceiveTyped ==
    ASSUME IInv, ServerTyped, NEW seg, IsFromPeer(seg), Receive(seg)
    PROVE  ServerTyped'
<1> DEFINE b == FindTcb(seg.peer)
<1>1. b \in Blocks
  BY RoomForPeer DEF IInv, IsFromPeer
<1>2. TcpInput(b, seg)
  BY DEF Receive
<1> HIDE DEF b
<1>3. tcb[b] \in Tcbs(States)
  BY <1>1 DEF ServerTyped
<1>4. /\ {} \in SUBSET Answers /\ { Ack(tcb[b]) } \in SUBSET Answers
      /\ Reset(tcb[b], seg) \in SUBSET Answers
      /\ Strayed(b, seg) \in SUBSET Answers
      /\ Strayed(b, seg) \cup { Ack(tcb[b]) } \in SUBSET Answers
  BY <1>1, <1>3, AckTyped, ResetTyped, StrayedTyped
<1>5. CASE ListenIgnored(b, seg)
  BY <1>4, <1>5, AnswerTyped DEF ListenIgnored
<1>6. CASE ListenAck(b, seg)
  BY <1>4, <1>6, AnswerTyped DEF ListenAck
<1>7. CASE ListenSyn(b, seg)
  BY <1>1, <1>7, ListenSynTyped
<1>8. CASE Unacceptable(b, seg)
  BY <1>1, <1>4, <1>8, AnswerTyped, FreedTyped DEF Unacceptable, Freed
<1>9. CASE AcceptedReset(b, seg)
  BY <1>1, <1>4, <1>9, FreedTyped DEF AcceptedReset, Freed
<1>10. CASE SynAgain(b, seg)
  BY <1>1, <1>4, <1>10, FreedTyped DEF SynAgain, Freed
<1>11. CASE NoAck(b, seg)
  BY <1>4, <1>11, AnswerTyped DEF NoAck
<1>12. CASE HandshakeAck(b, seg)
  BY <1>1, <1>12, HandshakeAckTyped
<1>13. ASSUME NEW out \in SUBSET Answers, Becomes(Fin([Server EXCEPT !.out = out], b, seg))
       PROVE  ServerTyped'
  <2>1. IsTyped([Server EXCEPT !.out = out], Busy)
    BY <1>13, ServerIsTyped, OutTyped
  <2>2. IsTyped(Fin([Server EXCEPT !.out = out], b, seg), Busy)
    BY <1>1, <2>1, FinTyped
  <2> QED  BY <1>13, <2>2, BecomesTyped
<1>14. CASE HandshakeReset(b, seg)
  BY <1>4, <1>13, <1>14 DEF HandshakeReset
<1>15. CASE AckAhead(b, seg)
  BY <1>4, <1>15, AnswerTyped DEF AckAhead
<1>16. IsTyped(After(b, seg), Busy) /\ After(b, seg).tcb[b].RCVWND = tcb[b].RCVWND
  BY <1>1, AfterTyped
<1>17. CASE OutOfOrder(b, seg)
  <2> DEFINE s == After(b, seg)
             v == s.out \cup { Ack(s.tcb[b]) }
  <2>1. Becomes([s EXCEPT !.out = v])
    BY <1>17 DEF OutOfOrder
  <2>2. s.tcb[b] \in Tcbs(Busy) /\ s.out \in SUBSET Answers
    BY <1>1, <1>16 DEF IsTyped
  <2> HIDE DEF s
  <2>3. v \in SUBSET Answers
    BY <2>2, AckTyped
  <2> HIDE DEF v
  <2>4. IsTyped([s EXCEPT !.out = v], Busy)
    BY <1>16, <2>3, OutTyped DEF s
  <2> QED  BY <2>1, <2>4, BecomesTyped
<1>18. CASE InOrder(b, seg)
  <2>1. PICK method \in Methods : Becomes(Fin(Text(After(b, seg), b, seg, method), b, seg))
    BY <1>18 DEF InOrder
  <2>2. tcb[b].RCVWND > 0
    <3>1. tcb[b].RCVWND # 0
      BY <1>18 DEF InOrder, Established, Proper, Acceptable
    <3>2. tcb[b].RCVWND \in 0 .. WINDOW
      BY <1>3 DEF Tcbs
    <3> QED  BY <3>1, <3>2, TcpNumbers
  <2>3. IsTyped(Text(After(b, seg), b, seg, method), Busy)
    BY <1>1, <1>16, <2>2, TextTyped
  <2>4. IsTyped(Fin(Text(After(b, seg), b, seg, method), b, seg), Busy)
    BY <1>1, <2>3, FinTyped
  <2> QED  BY <2>1, <2>4, BecomesTyped
<1>19. CASE NoText(b, seg)
  <2>1. IsTyped(Fin(After(b, seg), b, seg), Busy)
    BY <1>1, <1>16, FinTyped
  <2> QED  BY <1>19, <2>1, BecomesTyped DEF NoText
<1>20. CASE LastAck(b, seg)
  BY <1>1, <1>4, <1>13, <1>20, FreedTyped DEF LastAck
<1> QED
  BY <1>2, <1>5, <1>6, <1>7, <1>8, <1>9, <1>10, <1>11, <1>12, <1>14, <1>15, <1>17, <1>18,
     <1>19, <1>20 DEF TcpInput

-----------------------------------------------------------------------------
(* The types of the peers.                                                 *)

Clients ==
    [state : {"CLOSED", "SYN_SENT", "ESTABLISHED", "FIN_WAIT", "TIME_WAIT"},
     conn : Connections \cup {0}, una : 0 .. (REQUEST + 1), sent : 0 .. (REQUEST + 1),
     rcv : SequenceNumbers, wnd : 0 .. WINDOW]

(* Only a peer without a connection has no initial sequence number. *)
Connected(c) == c \in Clients /\ (c.state # "CLOSED" => c.conn \in Connections)

PeersTyped ==
    /\ opened \subseteq Connections
    /\ client \in [Peers -> Clients] /\ \A p \in Peers : Connected(client[p])
    /\ \A seg \in toServer : IsFromPeer(seg)

TInv == IInv /\ ServerTyped /\ PeersTyped

LEMMA ClosedConnected == Connected(Closed)
<1>1. 0 \in 0 .. (REQUEST + 1) /\ 0 \in SequenceNumbers /\ 0 \in 0 .. WINDOW
  BY TcpNumbers
<1> QED  BY <1>1 DEF Connected, Clients, Closed

LEMMA IsFromPeerd ==
    ASSUME NEW p \in Peers, NEW c, c.conn \in Connections \cup {0}, NEW ctl \in SUBSET Flags,
           NEW seq \in SequenceNumbers, NEW ack \in SequenceNumbers, NEW unit \in 0 .. REQUEST
    PROVE  IsFromPeer(FromPeer(p, c, ctl, seq, ack, unit))
  BY DEF FromPeer, IsFromPeer

LEMMA ResetFromPeer ==
    ASSUME NEW p \in Peers, NEW seq \in SequenceNumbers
    PROVE  IsFromPeer(PeerReset(p, seq))
<1>1. Closed.conn = 0 /\ 0 \in 0 .. REQUEST /\ {"RST"} \in SUBSET Flags
  BY TcpNumbers DEF Closed, Flags
<1> QED  BY <1>1, IsFromPeerd, TcpNumbers DEF PeerReset

LEMMA ConnectedSends ==
    ASSUME NEW p \in Peers, NEW c, Connected(c), c.state # "CLOSED"
    PROVE  /\ First(c) \in SequenceNumbers
           /\ IsFromPeer(Syn(p, c)) /\ IsFromPeer(PeerAck(p, c)) /\ IsFromPeer(PeerFin(p, c))
           /\ \A n \in 1 .. REQUEST : IsFromPeer(Unit(p, c, n))
           /\ IsFromPeer(PeerReset(p, Plus(First(c), c.sent)))
<1>1. /\ c.conn \in Connections /\ c.conn \in Connections \cup {0}
      /\ c.rcv \in SequenceNumbers /\ c.sent \in 0 .. (REQUEST + 1)
  BY DEF Connected, Clients
<1>2. /\ Isn[c.conn] \in SequenceNumbers /\ Isn[c.conn] \in Int /\ c.sent \in Int
      /\ 0 \in SequenceNumbers /\ 0 \in 0 .. REQUEST /\ REQUEST \in Int
  <2>1. Isn[c.conn] \in SequenceNumbers
    BY <1>1, PeersAssumption
  <2>2. c.sent \in Int /\ 0 \in 0 .. REQUEST
    BY <1>1, TcpNumbers
  <2>3. Isn[c.conn] \in Int /\ 0 \in SequenceNumbers
    BY <2>1, NumberIsInt, TcpNumbers
  <2>4. REQUEST \in Int
    BY TcpNumbers
  <2> QED  BY <2>1, <2>2, <2>3, <2>4
<1>3. First(c) \in SequenceNumbers
  BY <1>2, PlusType DEF First
<1>4. First(c) \in Int
  BY <1>3, NumberIsInt
<1>5. /\ Plus(First(c), c.sent) \in SequenceNumbers
      /\ Plus(First(c), REQUEST) \in SequenceNumbers
  BY <1>2, <1>4, PlusType
<1>6. \A n \in 1 .. REQUEST : Plus(Isn[c.conn], n) \in SequenceNumbers /\ n \in 0 .. REQUEST
  BY <1>2, PlusType
<1>7. {"SYN"} \in SUBSET Flags /\ {"ACK"} \in SUBSET Flags /\ {"FIN", "ACK"} \in SUBSET Flags
  BY DEF Flags
<1>8. IsFromPeer(Syn(p, c))
  BY <1>1, <1>2, <1>7, IsFromPeerd DEF Syn
<1>9. IsFromPeer(PeerAck(p, c))
  BY <1>1, <1>2, <1>5, <1>7, IsFromPeerd DEF PeerAck
<1>10. IsFromPeer(PeerFin(p, c))
  BY <1>1, <1>2, <1>5, <1>7, IsFromPeerd DEF PeerFin
<1>11. ASSUME NEW n \in 1 .. REQUEST PROVE IsFromPeer(Unit(p, c, n))
  BY <1>1, <1>6, <1>7, IsFromPeerd DEF Unit
<1>12. IsFromPeer(PeerReset(p, Plus(First(c), c.sent)))
  BY <1>5, ResetFromPeer
<1> QED  BY <1>3, <1>8, <1>9, <1>10, <1>11, <1>12

LEMMA PeerBecomesTyped ==
    ASSUME PeersTyped, NEW p \in Peers, NEW c, Connected(c),
           NEW out, \A seg \in out : IsFromPeer(seg),
           PeerBecomes(p, c, out), opened' \subseteq Connections
    PROVE  PeersTyped'
<1>1. client' = [client EXCEPT ![p] = c]
  BY DEF PeerBecomes
<1>2. client' \in [Peers -> Clients] /\ \A q \in Peers : Connected(client'[q])
  BY <1>1 DEF PeersTyped, Connected
<1>3. \A seg \in toServer' : IsFromPeer(seg)
  BY DEF PeerBecomes, PeersTyped
<1> QED  BY <1>2, <1>3 DEF PeersTyped, Connected, Clients, IsFromPeer, Flags, SequenceNumbers

LEMMA PeerSendsTyped ==
    ASSUME PeersTyped, NEW p \in Peers, NEW c, Connected(c),
           NEW seg, IsFromPeer(seg),
           client' = [client EXCEPT ![p] = c], toServer' = toServer \cup {seg}, UNCHANGED opened
    PROVE  PeersTyped'
<1>1. client' \in [Peers -> Clients] /\ \A q \in Peers : Connected(client'[q])
  BY DEF PeersTyped, Connected
<1>2. \A s \in toServer' : IsFromPeer(s)
  BY DEF PeersTyped
<1> QED  BY <1>1, <1>2 DEF PeersTyped, Connected, Clients, IsFromPeer, Flags, SequenceNumbers

LEMMA RunsTyped ==
    ASSUME PeersTyped, ServerTyped, NEW p \in Peers, NEW seg \in toPeer,
           seg \in Answers, Arrives(p, seg)
    PROVE  PeersTyped'
<1> DEFINE c == client[p]
<1>1. Connected(c)
  BY DEF PeersTyped
<1>2. /\ seg.seq \in SequenceNumbers /\ seg.ack \in SequenceNumbers /\ seg.len \in {0, 1}
      /\ seg.wnd \in 0 .. WINDOW /\ seg.seq \in Int
  BY NumberIsInt DEF Answers
<1>3. opened' \subseteq Connections /\ \A seq \in SequenceNumbers : IsFromPeer(PeerReset(p, seq))
  BY ResetFromPeer DEF Arrives, InClosed, InSynSent, InConnection, Takes, PeersTyped
<1>4. ASSUME NEW d, Connected(d), PeerBecomes(p, d, {}) PROVE PeersTyped'
  BY <1>3, <1>4, PeerBecomesTyped
<1>5. ASSUME NEW d, Connected(d), NEW s, IsFromPeer(s), PeerBecomes(p, d, {s}) PROVE PeersTyped'
  BY <1>3, <1>5, PeerBecomesTyped
<1>6. CASE InClosed(p, seg)
  BY <1>2, <1>3, <1>4, <1>5, <1>6, ClosedConnected DEF InClosed
<1>7. CASE InSynSent(p, seg)
  <2> DEFINE r == Plus(seg.seq, 1)
             open == [c EXCEPT !.state = "ESTABLISHED", !.rcv = r, !.wnd = seg.wnd]
  <2>1. c.state = "SYN_SENT"
    BY <1>7 DEF InSynSent
  <2>2. r \in SequenceNumbers
    BY <1>2, PlusType
  <2>3. Connected(open) /\ open.state = "ESTABLISHED"
    <3> HIDE DEF c, r
    <3> QED  BY <1>1, <1>2, <2>1, <2>2 DEF Connected, Clients
  <2>4. \/ PeerBecomes(p, c, {}) \/ PeerBecomes(p, c, {PeerReset(p, seg.ack)})
        \/ PeerBecomes(p, Closed, {}) \/ PeerBecomes(p, open, {PeerAck(p, open)})
    BY <1>7 DEF InSynSent
  <2> HIDE DEF open, c
  <2>5. IsFromPeer(PeerAck(p, open))
    BY <2>3, ConnectedSends
  <2> QED  BY <1>1, <1>2, <1>3, <1>4, <1>5, <2>3, <2>4, <2>5, ClosedConnected
<1>8. CASE InConnection(p, seg)
  <2> DEFINE u == Updated(c, seg)
             after == Advanced(u, seg)
  <2>1. c.state \in {"ESTABLISHED", "FIN_WAIT", "TIME_WAIT"}
    BY <1>8 DEF InConnection
  <2> HIDE DEF c
  <2>2. Connected(u) /\ u.state = c.state
    <3> DEFINE n == Acked(c, seg)
               d == [c EXCEPT !.una = n, !.wnd = seg.wnd]
    <3>1. ASSUME n \in c.una .. c.sent PROVE n \in 0 .. (REQUEST + 1)
      <4>1. c.una \in 0 .. (REQUEST + 1) /\ c.sent \in 0 .. (REQUEST + 1)
        BY <1>1 DEF Connected, Clients
      <4> HIDE DEF n
      <4> QED  BY <3>1, <4>1, TcpNumbers
    <3> HIDE DEF n
    <3>2. ASSUME n \in 0 .. (REQUEST + 1) PROVE Connected(d) /\ d.state = c.state
      BY <1>1, <1>2, <3>2 DEF Connected, Clients
    <3>3. u = IF n \in c.una .. c.sent THEN d ELSE c
      BY DEF Updated, n
    <3> HIDE DEF d, u
    <3> QED  BY <1>1, <3>1, <3>2, <3>3
  <2> HIDE DEF u
  <2>3. Connected(after) /\ after.state # "CLOSED"
    <3> DEFINE x == Plus(u.rcv, seg.len + 1)
               y == Plus(u.rcv, seg.len)
               d == [u EXCEPT !.rcv = x, !.state = "TIME_WAIT"]
               e == [u EXCEPT !.rcv = y]
    <3>1. u.rcv \in Int /\ seg.len + 1 \in Int /\ seg.len \in Int
      <4>1. u.rcv \in SequenceNumbers
        BY <2>2 DEF Connected, Clients
      <4>2. u.rcv \in Int
        BY <4>1, NumberIsInt
      <4>3. seg.len + 1 \in Int /\ seg.len \in Int
        BY <1>2
      <4> QED  BY <4>2, <4>3
    <3>2. x \in SequenceNumbers /\ y \in SequenceNumbers
      BY <3>1, PlusType
    <3>3. after \in {u, d, e}
      BY DEF Advanced
    <3> HIDE DEF x, y, after
    <3>4. Connected(d) /\ d.state # "CLOSED"
      BY <2>1, <2>2, <3>2 DEF Connected, Clients
    <3>5. Connected(e) /\ e.state # "CLOSED"
      BY <2>1, <2>2, <3>2 DEF Connected, Clients
    <3> HIDE DEF d, e
    <3> QED  BY <2>1, <2>2, <3>3, <3>4, <3>5
  <2>4. \/ PeerBecomes(p, c, {}) \/ PeerBecomes(p, Closed, {}) \/ PeerBecomes(p, c, {PeerAck(p, c)})
        \/ PeerBecomes(p, after, {}) \/ PeerBecomes(p, after, {PeerAck(p, after)})
    BY <1>8 DEF InConnection, c, u
  <2> HIDE DEF after
  <2>5. IsFromPeer(PeerAck(p, c)) /\ IsFromPeer(PeerAck(p, after))
    BY <1>1, <2>1, <2>3, ConnectedSends
  <2> QED  BY <1>1, <1>4, <1>5, <2>3, <2>4, <2>5, ClosedConnected
<1> QED  BY <1>6, <1>7, <1>8 DEF Arrives

(* A peer does not touch the server, and only takes segments off the way. *)
LEMMA PeersTInv ==
    ASSUME TInv, NEW p \in Peers,
           \/ \E n \in Connections : Connect(p, n)
           \/ RepeatSyn(p)
           \/ \E n \in 1 .. REQUEST : SendUnit(p, n)
           \/ Close(p)
           \/ GiveUp(p)
           \/ \E seg \in toPeer : Arrives(p, seg)
    PROVE  ServerTyped' /\ PeersTyped'
<1> DEFINE c == client[p]
<1>1. PeersTyped /\ ServerTyped /\ Connected(c)
  BY DEF TInv, PeersTyped
<1>2. UNCHANGED <<tcb, queue, parts>> /\ toPeer' \subseteq toPeer
  BY DEF Connect, RepeatSyn, SendUnit, Close, GiveUp, Arrives, InClosed, InSynSent,
         InConnection, Takes, UNCHANGED_Server
<1>3. ServerTyped'
  BY <1>1, <1>2 DEF ServerTyped, Tcbs, Queues, Answers, States, SequenceNumbers
<1>4. ASSUME NEW n \in Connections, Connect(p, n) PROVE PeersTyped'
  <2> DEFINE d == [Closed EXCEPT !.state = "SYN_SENT", !.conn = n]
  <2>1. Connected(d) /\ d.state # "CLOSED"
    BY <1>4, ClosedConnected DEF Connected, Clients, Closed
  <2>2. PeerBecomes(p, d, {Syn(p, d)}) /\ opened' = opened \cup {n}
    BY <1>4 DEF Connect
  <2> HIDE DEF d
  <2>3. IsFromPeer(Syn(p, d)) /\ opened' \subseteq Connections
    BY <1>1, <2>1, <2>2, ConnectedSends DEF PeersTyped
  <2> QED  BY <1>1, <2>1, <2>2, <2>3, PeerBecomesTyped
<1>5. ASSUME RepeatSyn(p) PROVE PeersTyped'
  <2>1. IsFromPeer(Syn(p, c))
    BY <1>1, <1>5, ConnectedSends DEF RepeatSyn
  <2>2. client' = [client EXCEPT ![p] = c]
    BY <1>1, <1>5 DEF RepeatSyn, PeersTyped
  <2> QED  BY <1>1, <1>5, <2>1, <2>2, PeerSendsTyped DEF RepeatSyn
<1>6. ASSUME NEW n \in 1 .. REQUEST, SendUnit(p, n) PROVE PeersTyped'
  <2> DEFINE m == IF n > c.sent THEN n ELSE c.sent
             d == [c EXCEPT !.sent = m]
  <2>1. c.state = "ESTABLISHED"
    BY <1>6 DEF SendUnit
  <2>2. client' = [client EXCEPT ![p] = d]
    BY <1>1, <1>6 DEF SendUnit, PeersTyped
  <2>3. toServer' = toServer \cup {Unit(p, c, n)} /\ UNCHANGED opened
    BY <1>6 DEF SendUnit
  <2>4. m \in 0 .. (REQUEST + 1)
    <3>1. c.sent \in 0 .. (REQUEST + 1)
      BY <1>1 DEF Connected, Clients
    <3> QED  BY <3>1, TcpNumbers
  <2> HIDE DEF c, m
  <2>5. Connected(d)
    BY <1>1, <2>1, <2>4 DEF Connected, Clients
  <2>6. IsFromPeer(Unit(p, c, n))
    BY <1>1, <2>1, ConnectedSends
  <2> HIDE DEF d
  <2> QED  BY <1>1, <2>2, <2>3, <2>5, <2>6, PeerSendsTyped
<1>7. ASSUME Close(p) PROVE PeersTyped'
  <2> DEFINE m == REQUEST + 1
             d == [c EXCEPT !.state = "FIN_WAIT", !.sent = m]
  <2>1. c.state \in {"ESTABLISHED", "FIN_WAIT"}
    BY <1>7 DEF Close
  <2>2. client' = [client EXCEPT ![p] = d]
    BY <1>1, <1>7 DEF Close, PeersTyped
  <2>3. toServer' = toServer \cup {PeerFin(p, c)} /\ UNCHANGED opened
    BY <1>7 DEF Close
  <2>4. m \in 0 .. (REQUEST + 1)
    BY TcpNumbers
  <2> HIDE DEF c, m
  <2>5. Connected(d)
    BY <1>1, <2>1, <2>4 DEF Connected, Clients
  <2>6. IsFromPeer(PeerFin(p, c))
    BY <1>1, <2>1, ConnectedSends
  <2> HIDE DEF d
  <2> QED  BY <1>1, <2>2, <2>3, <2>5, <2>6, PeerSendsTyped
<1>8. ASSUME GiveUp(p) PROVE PeersTyped'
  <2>1. c.state # "CLOSED" /\ opened' = opened
    BY <1>8 DEF GiveUp
  <2>2. IsFromPeer(PeerReset(p, Plus(First(c), c.sent)))
    BY <1>1, <2>1, ConnectedSends
  <2>3. \/ PeerBecomes(p, Closed, {})
        \/ PeerBecomes(p, Closed, {PeerReset(p, Plus(First(c), c.sent))})
    BY <1>8 DEF GiveUp
  <2> HIDE DEF c
  <2> QED  BY <1>1, <2>1, <2>2, <2>3, ClosedConnected, PeerBecomesTyped DEF PeersTyped
<1>9. ASSUME NEW seg \in toPeer, Arrives(p, seg) PROVE PeersTyped'
  BY <1>1, <1>9, RunsTyped DEF ServerTyped
<1> QED  BY <1>3, <1>4, <1>5, <1>6, <1>7, <1>8, <1>9

LEMMA InitTInv == Init => TInv
<1> SUFFICES ASSUME Init PROVE TInv
  OBVIOUS
<1>1. tcb \in [Blocks -> Tcbs(States)]
  BY ListeningTyped DEF Init, TcpInit
<1>2. queue \in Queues /\ parts \in [Blocks -> 0 .. (REQUEST - 1)]
  <2>1. 0 \in Blocks /\ 0 \in 0 .. QUEUE /\ 0 \in 0 .. (REQUEST - 1)
    BY Sizes, TcpNumbers DEF Blocks
  <2> QED  BY <2>1 DEF Init, TcpInit, Queues
<1>3. ServerTyped
  BY <1>1, <1>2 DEF ServerTyped, Init
<1>4. client \in [Peers -> Clients] /\ \A p \in Peers : Connected(client[p])
  BY ClosedConnected DEF Init, Connected
<1>5. PeersTyped
  BY <1>4 DEF PeersTyped, Init
<1> QED  BY <1>3, <1>5, InitInv DEF TInv

LEMMA NextTInv == TInv /\ [Next]_vars => TInv'
<1> SUFFICES ASSUME TInv, [Next]_vars PROVE TInv'
  OBVIOUS
<1>1. IInv'
  BY NextInv DEF TInv
<1>2. CASE UNCHANGED vars
  <2>1. ServerTyped'
    BY <1>2 DEF vars, TInv, ServerTyped, Tcbs, Queues, Answers, States, SequenceNumbers
  <2>2. PeersTyped'
    BY <1>2 DEF vars, TInv, PeersTyped, Connected, Clients, IsFromPeer, Flags, SequenceNumbers
  <2> QED  BY <1>1, <2>1, <2>2 DEF TInv
<1>3. ASSUME NEW seg \in Arriving, ServerReceives(seg) PROVE ServerTyped' /\ PeersTyped'
  <2>1. IsFromPeer(seg)
    <3>1. ASSUME seg \in Strays PROVE IsFromPeer(seg)
      BY <3>1, PeersAssumption, TcpNumbers DEF IsFromPeer
    <3> QED  BY <3>1 DEF Arriving, TInv, PeersTyped
  <2>2. ServerTyped'
    BY <1>3, <2>1, ReceiveTyped DEF ServerReceives, TInv
  <2>3. PeersTyped'
    BY <1>3 DEF ServerReceives, Receive, TInv, PeersTyped, Connected, Clients, IsFromPeer,
                Flags, SequenceNumbers
  <2> QED  BY <2>2, <2>3
<1> QED  BY <1>1, <1>2, <1>3, PeersTInv DEF Next, TInv

(* The window that the server offers and the rest of the peer's window are *)
(* never negative, the queue never holds more than it has room for, a      *)
(* block rests in no other state than these four, and all numbers stay in  *)
(* range, whatever comes in whatever order (net/core/tcp.cpp).             *)
THEOREM TcpTypeCorrect == Spec => []TypeOK
<1>1. TInv => TypeOK
  BY DEF TInv, ServerTyped, PeersTyped, TypeOK, Tcbs, States, Queues, Clients
<1> QED  BY InitTInv, NextTInv, <1>1, PTL DEF Spec

-----------------------------------------------------------------------------
(* Arithmetic modulo MODULUS.                                              *)

LEMMA Quotient ==
    ASSUME NEW M \in Nat, M > 0, NEW q \in Int, NEW r \in 0 .. (M - 1), NEW x \in Int,
           x = M * q + r
    PROVE  x % M = r
  OBVIOUS

LEMMA ModCases ==
    ASSUME NEW M \in Nat, M > 0, NEW x \in Int
    PROVE  /\ x \in 0 .. (M - 1) => x % M = x
           /\ x - M \in 0 .. (M - 1) => x % M = x - M
           /\ x + M \in 0 .. (M - 1) => x % M = x + M
  OBVIOUS

LEMMA DivMod ==
    ASSUME NEW M \in Nat, M > 0, NEW x \in Int
    PROVE  x % M \in 0 .. (M - 1) /\ \E q \in Int : x = M * q + (x % M)
<1>1. x = M * (x \div M) + (x % M) /\ x % M \in 0 .. (M - 1) /\ x \div M \in Int
  OBVIOUS
<1> QED  BY <1>1

LEMMA ModSum ==
    ASSUME NEW M \in Nat, M > 0, NEW x \in Int, NEW j \in Int
    PROVE  ((x % M) + j) % M = (x + j) % M
<1> DEFINE r == x % M
           s == (r + j) % M
           y == x + j
<1>1. r \in 0 .. (M - 1) /\ \E q \in Int : x = M * q + r
  BY DivMod
<1> HIDE DEF r
<1>2. r + j \in Int /\ r \in Int
  BY <1>1
<1>3. s \in 0 .. (M - 1) /\ \E q \in Int : r + j = M * q + s
  BY <1>2, DivMod
<1> HIDE DEF s
<1>4. PICK q \in Int : x = M * q + r
  BY <1>1
<1>5. PICK p \in Int : r + j = M * p + s
  BY <1>3
<1> DEFINE k == q + p
<1>6. y = M * k + s /\ k \in Int /\ y \in Int
  <2>1. M * (q + p) = M * q + M * p
    OBVIOUS
  <2> QED  BY <1>2, <1>3, <1>4, <1>5, <2>1
<1> HIDE DEF k, y
<1>7. y % M = s
  BY <1>3, <1>6, Quotient
<1> QED  BY <1>7 DEF r, s, y

LEMMA Rest ==
    ASSUME NEW x \in Int
    PROVE  x % MODULUS \in 0 .. (MODULUS - 1) /\ \E q \in Int : x = MODULUS * q + (x % MODULUS)
<1>1. MODULUS \in Nat /\ MODULUS > 0
  BY TcpNumbers
<1> QED  BY <1>1, DivMod

LEMMA PlusPlus ==
    ASSUME NEW x \in Int, NEW m \in Int, NEW n \in Int
    PROVE  Plus(Plus(x, m), n) = Plus(x, m + n)
<1>1. x + m \in Int /\ MODULUS \in Nat /\ MODULUS > 0
  BY TcpNumbers
<1>2. (((x + m) % MODULUS) + n) % MODULUS = ((x + m) + n) % MODULUS
  BY <1>1, ModSum
<1>3. (x + m) + n = x + (m + n)
  OBVIOUS
<1> QED  BY <1>2, <1>3 DEF Plus

(* What is so far ahead of x. *)
LEMMA Difference ==
    ASSUME NEW x \in SequenceNumbers, NEW y \in SequenceNumbers
    PROVE  /\ (y - x) % MODULUS \in SequenceNumbers
           /\ y = Plus(x, (y - x) % MODULUS)
<1>1. MODULUS \in Nat /\ MODULUS > 0 /\ x \in 0 .. (MODULUS - 1) /\ y \in 0 .. (MODULUS - 1)
      /\ x \in Int /\ y \in Int /\ y - x \in Int
  BY TcpNumbers DEF SequenceNumbers
<1>2. CASE y >= x
  <2>1. y - x \in 0 .. (MODULUS - 1)
    BY <1>1, <1>2
  <2>2. (y - x) % MODULUS = y - x
    BY <1>1, <2>1, ModCases
  <2>3. x + (y - x) = y /\ y % MODULUS = y
    BY <1>1, ModCases
  <2> QED  BY <2>1, <2>2, <2>3 DEF Plus, SequenceNumbers
<1>3. CASE y < x
  <2>1. (y - x) + MODULUS \in 0 .. (MODULUS - 1)
    BY <1>1, <1>3
  <2>2. (y - x) % MODULUS = (y - x) + MODULUS
    BY <1>1, <2>1, ModCases
  <2>3. x + ((y - x) + MODULUS) = y + MODULUS /\ (y + MODULUS) - MODULUS = y /\ y + MODULUS \in Int
    BY <1>1
  <2>4. (y + MODULUS) % MODULUS = y
    BY <1>1, <2>3, ModCases
  <2> QED  BY <2>1, <2>2, <2>3, <2>4 DEF Plus, SequenceNumbers
<1> QED  BY <1>1, <1>2, <1>3

(* What is in the window is less than the window ahead. *)
LEMMA WindowAhead ==
    ASSUME NEW t, t.RCVNXT \in SequenceNumbers, t.RCVWND \in 1 .. WINDOW,
           NEW seq \in SequenceNumbers, InWindow(t, seq)
    PROVE  \E d \in 0 .. (WINDOW - 1) : seq = Plus(t.RCVNXT, d)
<1> DEFINE x == t.RCVNXT
           w == t.RCVWND
           d == (seq - x) % MODULUS
           half == MODULUS \div 2
<1>1. d \in SequenceNumbers /\ seq = Plus(x, d)
  BY Difference
<1>2. MODULUS \in Nat /\ MODULUS > 1 /\ MODULUS = 2 * half /\ half \in Nat
      /\ WINDOW \in 1 .. (half - 1)
  <2>1. MODULUS \in Nat \ {0, 1} /\ MODULUS % 2 = 0
        /\ {WINDOW, PEER_WINDOW} \subseteq 1 .. (half - 1)
    BY TcpAssumption
  <2>2. MODULUS = 2 * half + (MODULUS % 2) /\ half \in Nat
    BY <2>1
  <2> QED  BY <2>1, <2>2
<1>3. x \in Int /\ w \in Int /\ seq \in Int /\ w \in 1 .. WINDOW /\ d \in 0 .. (MODULUS - 1)
      /\ x \in 0 .. (MODULUS - 1) /\ seq \in 0 .. (MODULUS - 1)
  BY <1>1, TcpNumbers DEF SequenceNumbers
<1>4. (x = seq \/ (x - seq) % MODULUS >= half) /\ (seq - ((x + w) % MODULUS)) % MODULUS >= half
  BY DEF InWindow, Leq, Lt, Plus
<1> HIDE DEF half
<1>5. d <= half
  <2>1. CASE x = seq
    <3>1. seq - x = 0 /\ 0 \in 0 .. (MODULUS - 1)
      BY <1>2, <1>3, <2>1
    <3>2. d = 0
      BY <1>2, <3>1, ModCases
    <3> QED  BY <1>2, <3>2
  <2>2. CASE x < seq
    <3>1. seq - x \in 0 .. (MODULUS - 1) /\ (x - seq) + MODULUS \in 0 .. (MODULUS - 1)
          /\ x - seq \in Int /\ seq - x \in Int
      BY <1>2, <1>3, <2>2
    <3>2. d = seq - x /\ (x - seq) % MODULUS = (x - seq) + MODULUS
      BY <1>2, <3>1, ModCases
    <3> QED  BY <1>2, <1>3, <1>4, <2>2, <3>2
  <2>3. CASE x > seq
    <3>1. x - seq \in 0 .. (MODULUS - 1) /\ (seq - x) + MODULUS \in 0 .. (MODULUS - 1)
          /\ x - seq \in Int /\ seq - x \in Int
      BY <1>2, <1>3, <2>3
    <3>2. (seq - x) % MODULUS = (seq - x) + MODULUS
      <4> DEFINE z == seq - x
      <4>1. z \in Int /\ z + MODULUS \in 0 .. (MODULUS - 1) /\ MODULUS \in Nat /\ MODULUS > 0
        BY <1>2, <3>1
      <4> HIDE DEF z
      <4>2. z % MODULUS = z + MODULUS
        BY <4>1, ModCases
      <4> QED  BY <4>2 DEF z
    <3>3. (x - seq) % MODULUS = x - seq
      BY <1>2, <3>1, ModCases
    <3> QED  BY <1>2, <1>3, <1>4, <2>3, <3>2, <3>3
  <2> QED  BY <1>3, <2>1, <2>2, <2>3
<1>6. (d - w) % MODULUS >= half
  <2> DEFINE e == (x + w) % MODULUS
             r == (d - w) % MODULUS
             y == seq - e
  <2>1. (seq - e) % MODULUS >= half
    BY <1>4
  <2>2. d = (seq - x) % MODULUS
    OBVIOUS
  <2> HIDE DEF d, x, w
  <2>3. x + w \in Int /\ seq - x \in Int /\ d - w \in Int
    BY <1>3
  <2>4. e \in 0 .. (MODULUS - 1) /\ \E q \in Int : x + w = MODULUS * q + e
    BY <2>3, Rest
  <2>5. \E q \in Int : seq - x = MODULUS * q + d
    BY <2>2, <2>3, Rest
  <2>6. r \in 0 .. (MODULUS - 1) /\ \E q \in Int : d - w = MODULUS * q + r
    BY <2>3, Rest
  <2> HIDE DEF e, r
  <2>7. PICK p \in Int : x + w = MODULUS * p + e
    BY <2>4
  <2>8. PICK q \in Int : seq - x = MODULUS * q + d
    BY <2>5
  <2>9. PICK k \in Int : d - w = MODULUS * k + r
    BY <2>6
  <2> DEFINE n == q + k + p
  <2>10. y = MODULUS * n + r /\ n \in Int /\ y \in Int
    <3>1. MODULUS * (q + k + p) = MODULUS * q + MODULUS * k + MODULUS * p
      BY <1>2
    <3>2. MODULUS * q \in Int /\ MODULUS * k \in Int /\ MODULUS * p \in Int
      BY <1>2
    <3>3. e \in Int /\ r \in Int
      BY <2>4, <2>6
    <3> DEFINE a == MODULUS * q
               b == MODULUS * k
               c == MODULUS * p
    <3> HIDE DEF a, b, c
    <3>4. seq - e = a + b + c + r
      <4>1. x + w = c + e /\ seq - x = a + d /\ d - w = b + r
            /\ a \in Int /\ b \in Int /\ c \in Int
        BY <2>7, <2>8, <2>9, <3>2 DEF a, b, c
      <4> QED  BY <1>3, <3>3, <4>1
    <3>5. seq - e \in Int /\ n \in Int
      BY <1>3, <3>3
    <3> QED  BY <3>1, <3>4, <3>5 DEF a, b, c
  <2>11. y % MODULUS >= half
    BY <2>1
  <2> HIDE DEF n, y
  <2>12. y % MODULUS = r
    BY <1>2, <2>6, <2>10, Quotient
  <2> QED  BY <2>11, <2>12 DEF r
<1>7. d < w
  <2> SUFFICES ASSUME d >= w PROVE FALSE
    BY <1>3
  <2>1. d - w \in 0 .. (MODULUS - 1) /\ d - w \in Int
    BY <1>2, <1>3
  <2> HIDE DEF d, w
  <2>2. (d - w) % MODULUS = d - w
    BY <1>2, <2>1, ModCases
  <2> QED  BY <1>2, <1>3, <1>5, <1>6, <2>2
<1>8. d \in 0 .. (WINDOW - 1)
  <2> HIDE DEF d, w
  <2> QED  BY <1>2, <1>3, <1>7
<1> QED  BY <1>1, <1>8

-----------------------------------------------------------------------------
(* The data of the connections.  The numbers of two connections that peers *)
(* try do not meet: what RFC 9293 asks of them, when it chooses the        *)
(* initial sequence numbers by a clock.                                    *)
NumbersApart ==
    \A m, n \in Connections : \A i, j \in 0 .. (REQUEST + 1 + WINDOW) :
        Plus(Isn[m], i) = Plus(Isn[n], j) => m = n /\ i = j

(* No stray carries a FIN, which would count whatever it belongs to.       *)
NoFin == \A seg \in Strays : "FIN" \notin seg.ctl

Data == [conn : Connections, unit : 1 .. REQUEST]

(* The call-back once got the first k units of the connection n; the FIN   *)
(* is behind the last.                                                     *)
Delivered(ever, n, k) ==
    \A u \in 1 .. Smaller(k, REQUEST) : [conn |-> n, unit |-> u] \in ever

(* The number x acknowledges nothing else of n.                            *)
Acks(ever, n, x) ==
    \E k \in 0 .. (REQUEST + 1) : x = Plus(Isn[n], 1 + k) /\ Delivered(ever, n, k)

(* What the call-back of a block got since its SYN is what the block has   *)
(* counted.                                                                *)
BlockGood(t, since, ever) ==
    /\ since \in Seq(Data)
    /\ \A i \in 1 .. Len(since) : since[i] = [conn |-> t.conn, unit |-> i] /\ since[i] \in ever
    /\ t.state = "LISTEN" => since = <<>> /\ t.WND = 0
    /\ t.state # "LISTEN" => t.conn \in Connections
    /\ t.state \in {"SYN_RECEIVED", "ESTABLISHED"} =>
          Len(since) <= REQUEST /\ t.RCVNXT = Plus(Isn[t.conn], 1 + Len(since))
    /\ t.state = "SYN_RECEIVED" => since = <<>>
    /\ NoFin /\ t.state # "LISTEN" => Acks(ever, t.conn, t.RCVNXT)

AnswerGood(seg, ever) ==
    NoFin /\ "RST" \notin seg.ctl => \E n \in Connections : Acks(ever, n, seg.ack)

IsApp(a) == a = [since |-> a.since, ever |-> a.ever] /\ a.since = [b \in Blocks |-> a.since[b]]

IsGood(s) ==
    /\ IsTyped(s, Busy)
    /\ IsApp(s.app) /\ app.ever \subseteq s.app.ever
    /\ \A b \in Blocks : BlockGood(s.tcb[b], s.app.since[b], s.app.ever)
    /\ \A seg \in s.out : AnswerGood(seg, s.app.ever)

LEMMA MoreEver ==
    ASSUME NEW ever, NEW more, ever \subseteq more
    PROVE  /\ \A n, k : Delivered(ever, n, k) => Delivered(more, n, k)
           /\ \A n, x : Acks(ever, n, x) => Acks(more, n, x)
           /\ \A seg : AnswerGood(seg, ever) => AnswerGood(seg, more)
           /\ \A t, since : BlockGood(t, since, ever) => BlockGood(t, since, more)
<1>1. \A n, k : Delivered(ever, n, k) => Delivered(more, n, k)
  BY DEF Delivered
<1>2. \A n, x : Acks(ever, n, x) => Acks(more, n, x)
  BY <1>1 DEF Acks
<1>3. \A seg : AnswerGood(seg, ever) => AnswerGood(seg, more)
  BY <1>2 DEF AnswerGood
<1>4. \A t, since : BlockGood(t, since, ever) => BlockGood(t, since, more)
  BY <1>2 DEF BlockGood
<1> QED  BY <1>1, <1>2, <1>3, <1>4

(* The block with other numbers of its own. *)
LEMMA KeptGood ==
    ASSUME NEW t, NEW u, NEW since, NEW ever, BlockGood(t, since, ever),
           u.state = t.state, u.conn = t.conn, u.RCVNXT = t.RCVNXT,
           t.state = "LISTEN" => u.WND = 0
    PROVE  BlockGood(u, since, ever)
  BY DEF BlockGood

(* A block that closes. *)
LEMMA ClosingGood ==
    ASSUME NEW t, NEW u, NEW since, NEW ever, BlockGood(t, since, ever), t.state # "LISTEN",
           u.state \in {"CLOSE_WAIT", "LAST_ACK"}, u.conn = t.conn,
           NoFin => Acks(ever, u.conn, u.RCVNXT)
    PROVE  BlockGood(u, since, ever)
  BY DEF BlockGood

LEMMA SegmentGood ==
    ASSUME NEW t, NEW since, NEW ever, BlockGood(t, since, ever), t.state # "LISTEN",
           NEW ctl, NEW seq, NEW len
    PROVE  /\ AnswerGood(Segment(t, ctl, seq, t.RCVNXT, len), ever)
           /\ AnswerGood(Ack(t), ever)
  BY DEF BlockGood, AnswerGood, Segment, Ack

LEMMA RstGood ==
    ASSUME NEW seg, "RST" \in seg.ctl, NEW ever
    PROVE  AnswerGood(seg, ever)
  BY DEF AnswerGood

LEMMA ResetGood ==
    ASSUME NEW t, NEW seg, NEW ever
    PROVE  \A x \in Reset(t, seg) : AnswerGood(x, ever)
  BY RstGood DEF Reset, Segment

LEMMA BlockSet ==
    ASSUME NEW s, IsGood(s), NEW b \in Blocks, NEW t \in Tcbs(Busy),
           BlockGood(t, s.app.since[b], s.app.ever)
    PROVE  LET r == [s EXCEPT !.tcb[b] = t]
           IN  /\ IsGood(r) /\ r.app = s.app /\ r.out = s.out /\ r.tcb[b] = t
               /\ r.queue = s.queue
<1> DEFINE r == [s EXCEPT !.tcb[b] = t]
           f == [s.tcb EXCEPT ![b] = t]
<1>1. IsTyped(r, Busy) /\ r.tcb[b] = t /\ r.out = s.out /\ r.queue = s.queue
  BY BlockTyped DEF IsGood
<1>2. r.tcb = f /\ r.app = s.app
  <2> HIDE DEF f
  <2>1. s = [tcb |-> s.tcb, queue |-> s.queue, parts |-> s.parts, app |-> s.app, out |-> s.out]
    BY DEF IsGood, IsTyped
  <2>2. r = [tcb |-> f, queue |-> s.queue, parts |-> s.parts, app |-> s.app, out |-> s.out]
    BY <2>1 DEF f
  <2> HIDE DEF r
  <2> QED  BY <2>2
<1>3. \A c \in Blocks : c # b => f[c] = s.tcb[c]
  BY DEF IsGood, IsTyped
<1> HIDE DEF f, r
<1>4. \A c \in Blocks : BlockGood(r.tcb[c], r.app.since[c], r.app.ever)
  BY <1>1, <1>2, <1>3 DEF IsGood
<1>5. IsGood(r)
  BY <1>1, <1>2, <1>4 DEF IsGood
<1> QED  BY <1>1, <1>2, <1>5 DEF r

LEMMA OutSet ==
    ASSUME NEW s, IsGood(s), NEW out \in SUBSET Answers,
           \A seg \in out : AnswerGood(seg, s.app.ever)
    PROVE  LET r == [s EXCEPT !.out = out]
           IN  IsGood(r) /\ r.app = s.app /\ r.tcb = s.tcb /\ r.queue = s.queue
<1> DEFINE r == [s EXCEPT !.out = out]
<1>1. IsTyped(r, Busy) /\ r.tcb = s.tcb /\ r.out = out /\ r.queue = s.queue
  BY OutTyped DEF IsGood
<1>2. r.app = s.app
  OBVIOUS
<1> HIDE DEF r
<1>3. IsGood(r)
  BY <1>1, <1>2 DEF IsGood
<1> QED  BY <1>1, <1>2, <1>3 DEF r

LEMMA QueueSet ==
    ASSUME NEW s, IsGood(s), NEW q \in Queues
    PROVE  LET r == [s EXCEPT !.queue = q]
           IN  IsGood(r) /\ r.app = s.app /\ r.tcb = s.tcb
<1> DEFINE r == [s EXCEPT !.queue = q]
<1>1. IsTyped(r, Busy) /\ r.tcb = s.tcb
  BY QueueTyped DEF IsGood
<1>2. r.app = s.app /\ r.out = s.out
  OBVIOUS
<1> HIDE DEF r
<1>3. IsGood(r)
  BY <1>1, <1>2 DEF IsGood
<1> QED  BY <1>1, <1>2, <1>3 DEF r

LEMMA SendManyGood ==
    ASSUME NEW s, IsGood(s), NEW b \in Blocks, NEW count \in Nat, count <= s.tcb[b].WND
    PROVE  /\ IsGood(SendMany(s, b, count)) /\ SendMany(s, b, count).app = s.app
           /\ SendMany(s, b, count).queue = s.queue
<1> DEFINE t == s.tcb[b]
           x == Plus(t.NXT, count)
           y == t.WND - count
           u == [t EXCEPT !.NXT = x, !.WND = y]
           sent == { Segment(t, {"ACK"}, Plus(t.NXT, n), t.RCVNXT, 1) : n \in 0 .. count - 1 }
           r == [s EXCEPT !.tcb[b] = u]
           v == s.out \cup sent
<1>1. t \in Tcbs(Busy) /\ IsTyped(s, Busy) /\ BlockGood(t, s.app.since[b], s.app.ever)
  BY DEF IsTyped, IsGood
<1>2. /\ t.NXT \in SequenceNumbers /\ t.RCVNXT \in SequenceNumbers
      /\ t.WND \in 0 .. PEER_WINDOW /\ t.NXT \in Int
  BY <1>1, NumberIsInt DEF Tcbs
<1>3. x \in SequenceNumbers /\ y \in 0 .. PEER_WINDOW
  <2> HIDE DEF t
  <2>1. x \in SequenceNumbers
    BY <1>2, PlusType
  <2>2. count <= t.WND
    BY DEF t
  <2> QED  BY <1>2, <2>1, <2>2, TcpNumbers
<1>4. /\ u \in Tcbs(Busy) /\ u.state = t.state /\ u.conn = t.conn /\ u.RCVNXT = t.RCVNXT
      /\ u.WND = y
  <2> HIDE DEF t, x, y
  <2> QED  BY <1>1, <1>3 DEF Tcbs
<1>5. t.state = "LISTEN" => t.WND = 0 /\ count = 0 /\ y = 0 /\ sent = {}
  <2> SUFFICES ASSUME t.state = "LISTEN" PROVE t.WND = 0 /\ count = 0 /\ y = 0 /\ sent = {}
    OBVIOUS
  <2>1. t.WND = 0
    <3> HIDE DEF t
    <3> QED  BY <1>1 DEF BlockGood
  <2>2. count = 0 /\ y = 0
    BY <2>1
  <2>3. 0 .. count - 1 = {}
    BY <2>2
  <2> QED  BY <2>1, <2>2, <2>3
<1>6. v \in SUBSET Answers /\ \A seg \in v : AnswerGood(seg, s.app.ever)
  <2>1. \A n \in 0 .. count - 1 : Plus(t.NXT, n) \in SequenceNumbers
    <3> HIDE DEF t
    <3> QED  BY <1>2, PlusType
  <2> HIDE DEF t
  <2>2. ASSUME NEW n \in 0 .. count - 1
        PROVE  /\ Segment(t, {"ACK"}, Plus(t.NXT, n), t.RCVNXT, 1) \in Answers
               /\ AnswerGood(Segment(t, {"ACK"}, Plus(t.NXT, n), t.RCVNXT, 1), s.app.ever)
    <3>1. t.state # "LISTEN"
      BY <1>5, <2>2
    <3>2. Segment(t, {"ACK"}, Plus(t.NXT, n), t.RCVNXT, 1) \in Answers
      BY <1>1, <1>2, <2>1, SegmentTyped DEF Flags
    <3> QED  BY <1>1, <3>1, <3>2, SegmentGood
  <2>3. \A seg \in sent : seg \in Answers /\ AnswerGood(seg, s.app.ever)
    BY <2>2
  <2> HIDE DEF sent
  <2> QED  BY <2>3 DEF IsTyped, IsGood
<1>7. SendMany(s, b, count) = [r EXCEPT !.out = v]
  <2>1. SendMany(s, b, count) = [s EXCEPT !.tcb[b] = [t EXCEPT !.NXT = x, !.WND = y], !.out = v]
    BY DEF SendMany
  <2> HIDE DEF t, x, y, v
  <2> QED  BY <2>1, <1>1 DEF IsTyped
<1> HIDE DEF u, v, y, t
<1>8. BlockGood(u, s.app.since[b], s.app.ever)
  BY <1>1, <1>4, <1>5, KeptGood
<1>9. IsGood(r) /\ r.app = s.app /\ r.queue = s.queue
  BY <1>4, <1>8, BlockSet
<1> HIDE DEF r
<1>10. IsGood([r EXCEPT !.out = v]) /\ [r EXCEPT !.out = v].app = r.app
       /\ [r EXCEPT !.out = v].queue = r.queue
  BY <1>6, <1>9, OutSet
<1> QED  BY <1>7, <1>9, <1>10

LEMMA WriteGood ==
    ASSUME NEW s, IsGood(s), NEW b \in Blocks, NEW length \in Nat
    PROVE  IsGood(Write(s, b, length)) /\ Write(s, b, length).app = s.app
<1> DEFINE q == [block |-> b, count |-> Smaller(QUEUE, s.queue.count + length)]
<1>1. q \in Queues
  <2>1. s.queue.count \in 0 .. QUEUE
    BY DEF IsGood, IsTyped, Queues
  <2>2. Smaller(QUEUE, s.queue.count + length) \in 0 .. QUEUE
    BY <2>1, TcpNumbers DEF Smaller
  <2> QED  BY <2>2 DEF Queues
<1> HIDE DEF q
<1>2. IsGood([s EXCEPT !.queue = q]) /\ [s EXCEPT !.queue = q].app = s.app
  BY <1>1, QueueSet
<1>3. CASE length <= s.tcb[b].WND
  BY <1>3, SendManyGood DEF Write
<1>4. CASE ~(length <= s.tcb[b].WND)
  BY <1>2, <1>4 DEF Write, q
<1> QED  BY <1>3, <1>4

LEMMA AbortGood ==
    ASSUME NEW s, IsGood(s), NEW b \in Blocks
    PROVE  IsGood(Abort(s, b)) /\ Abort(s, b).app = s.app
<1> DEFINE t == s.tcb[b]
           x == Segment(t, {"RST"}, t.NXT, t.RCVNXT, 0)
           v == s.out \cup { x }
<1>1. t \in Tcbs(Busy)
  BY DEF IsGood, IsTyped
<1>2. t.NXT \in SequenceNumbers /\ t.RCVNXT \in SequenceNumbers
  BY <1>1 DEF Tcbs
<1>3. x \in Answers
  <2> HIDE DEF t
  <2> QED  BY <1>1, <1>2, SegmentTyped DEF Flags
<1>4. AnswerGood(x, s.app.ever)
  BY RstGood DEF Segment
<1> HIDE DEF x
<1>5. v \in SUBSET Answers /\ \A seg \in v : AnswerGood(seg, s.app.ever)
  BY <1>3, <1>4 DEF IsGood, IsTyped
<1> HIDE DEF v
<1> QED  BY <1>5, OutSet DEF Abort, v, x

LEMMA Apart ==
    ASSUME NumbersApart, NEW m \in Connections, NEW n \in Connections,
           NEW i \in 0 .. (REQUEST + 1 + WINDOW), NEW j \in 0 .. (REQUEST + 1 + WINDOW),
           Plus(Isn[m], i) = Plus(Isn[n], j)
    PROVE  m = n /\ i = j
  BY DEF NumbersApart

LEMMA IsnIsInt ==
    ASSUME NEW n \in Connections
    PROVE  Isn[n] \in SequenceNumbers /\ Isn[n] \in Int
<1>1. Isn[n] \in SequenceNumbers
  BY PeersAssumption
<1> QED  BY <1>1, NumberIsInt

LEMMA PlusNext ==
    ASSUME NEW x \in Int, NEW k \in Int
    PROVE  Plus(Plus(x, 1 + k), 1) = Plus(x, 1 + (k + 1))
<1> DEFINE i == 1 + k
<1>1. i \in Int /\ i + 1 = 1 + (k + 1) /\ 1 \in Int
  OBVIOUS
<1> HIDE DEF i
<1>2. Plus(Plus(x, i), 1) = Plus(x, i + 1)
  BY <1>1, PlusPlus
<1> QED  BY <1>1, <1>2 DEF i

(* The next unit of a block: what the call-back gets is what is counted.   *)
LEMMA NextUnitGood ==
    ASSUME NumbersApart,
           NEW t \in Tcbs(Busy), NEW since, NEW ever, BlockGood(t, since, ever),
           t.state = "ESTABLISHED", t.RCVWND > 0,
           NEW conn \in Connections, NEW unit \in 1 .. REQUEST,
           t.RCVNXT = Plus(Isn[conn], unit)
    PROVE  LET u == [t EXCEPT !.RCVNXT = Plus(@, 1), !.RCVWND = @ - 1]
               data == [conn |-> conn, unit |-> unit]
           IN  u \in Tcbs(Busy) /\ BlockGood(u, Append(since, data), ever \cup {data})
<1> DEFINE x == Plus(t.RCVNXT, 1)
           y == t.RCVWND - 1
           u == [t EXCEPT !.RCVNXT = x, !.RCVWND = y]
           data == [conn |-> conn, unit |-> unit]
           more == ever \cup {data}
           new == Append(since, data)
           k == Len(since)
<1>1. since \in Seq(Data) /\ k \in 0 .. REQUEST /\ t.conn \in Connections
      /\ t.RCVNXT = Plus(Isn[t.conn], 1 + k)
  <2>1. since \in Seq(Data) /\ k <= REQUEST /\ t.conn \in Connections
        /\ t.RCVNXT = Plus(Isn[t.conn], 1 + k)
    BY DEF BlockGood
  <2>2. k \in Nat
    BY <2>1
  <2> QED  BY <2>1, <2>2, TcpNumbers
<1>2. conn = t.conn /\ unit = 1 + k
  <2> DEFINE i == 1 + k
  <2>1. i \in 0 .. (REQUEST + 1 + WINDOW) /\ unit \in 0 .. (REQUEST + 1 + WINDOW)
    <3> HIDE DEF k
    <3> QED  BY <1>1, TcpNumbers
  <2>2. Plus(Isn[conn], unit) = Plus(Isn[t.conn], i)
    BY <1>1
  <2> HIDE DEF i
  <2>3. conn = t.conn /\ unit = i
    BY <1>1, <2>1, <2>2, Apart
  <2> QED  BY <2>3 DEF i
<1>3. x = Plus(Isn[t.conn], 1 + (k + 1)) /\ x \in SequenceNumbers
  <2> HIDE DEF k
  <2>1. Isn[t.conn] \in Int /\ k \in Int /\ t.RCVNXT \in Int
    <3>1. t.RCVNXT \in SequenceNumbers
      BY DEF Tcbs
    <3>2. t.RCVNXT \in Int
      BY <3>1, NumberIsInt
    <3> QED  BY <1>1, <3>2, IsnIsInt
  <2>2. x = Plus(Isn[t.conn], 1 + (k + 1))
    BY <1>1, <2>1, PlusNext
  <2>3. x \in SequenceNumbers
    BY <2>1, PlusType
  <2> QED  BY <2>2, <2>3
<1>4. y \in 0 .. WINDOW
  <2>1. t.RCVWND \in 0 .. WINDOW
    BY DEF Tcbs
  <2> QED  BY <2>1, TcpNumbers
<1>5. u \in Tcbs(Busy) /\ u.state = "ESTABLISHED" /\ u.conn = t.conn /\ u.RCVNXT = x
  <2> HIDE DEF x, y
  <2> QED  BY <1>3, <1>4 DEF Tcbs
<1>6. data \in Data
  BY DEF Data
<1>7. new \in Seq(Data) /\ Len(new) = k + 1 /\ new[k + 1] = data
      /\ \A i \in 1 .. k : new[i] = since[i]
  <2> HIDE DEF data
  <2> QED  BY <1>1, <1>6
<1>8. \A i \in 1 .. Len(new) : new[i] = [conn |-> t.conn, unit |-> i] /\ new[i] \in more
  <2> HIDE DEF new
  <2> SUFFICES ASSUME NEW i \in 1 .. Len(new)
               PROVE  new[i] = [conn |-> t.conn, unit |-> i] /\ new[i] \in more
    OBVIOUS
  <2>1. CASE i = k + 1
    BY <1>1, <1>2, <1>7, <2>1
  <2>2. CASE i # k + 1
    <3>1. i \in 1 .. k
      BY <1>1, <1>7, <2>2
    <3>2. since[i] = [conn |-> t.conn, unit |-> i] /\ since[i] \in ever
      BY <3>1 DEF BlockGood
    <3> QED  BY <1>7, <3>1, <3>2
  <2> QED  BY <2>1, <2>2
<1>9. Acks(more, t.conn, x)
  <2>1. k + 1 \in 0 .. (REQUEST + 1)
    <3> HIDE DEF k
    <3> QED  BY <1>1, TcpNumbers
  <2>2. Delivered(more, t.conn, k + 1)
    <3> SUFFICES ASSUME NEW n \in 1 .. Smaller(k + 1, REQUEST)
                 PROVE  [conn |-> t.conn, unit |-> n] \in more
      BY DEF Delivered
    <3>1. n \in 1 .. Len(new)
      <4> HIDE DEF new, k
      <4> QED  BY <1>1, <1>7, TcpNumbers DEF Smaller
    <3> HIDE DEF new, more
    <3> QED  BY <1>8, <3>1
  <2> HIDE DEF k, x, more
  <2> QED  BY <1>3, <2>1, <2>2 DEF Acks
<1>10. Len(new) <= REQUEST
  <2> HIDE DEF k, new
  <2> QED  BY <1>1, <1>2, <1>7, TcpNumbers
<1>11. BlockGood(u, new, more)
  <2> HIDE DEF u, new, more, x, k
  <2> QED  BY <1>1, <1>3, <1>5, <1>7, <1>8, <1>9, <1>10 DEF BlockGood
<1> QED  BY <1>5, <1>11

(* The call-back reads the unit that the block has just counted.           *)
LEMMA ReadGood ==
    ASSUME NEW s, IsGood(s), NEW b \in Blocks, NEW u \in Tcbs(Busy), NEW data, NEW w,
           w \in [Blocks -> 0 .. (REQUEST - 1)],
           BlockGood(u, Append(s.app.since[b], data), s.app.ever \cup {data})
    PROVE  LET got == [since |-> [s.app.since EXCEPT ![b] = Append(@, data)],
                       ever |-> s.app.ever \cup {data}]
           IN  IsGood([[s EXCEPT !.tcb[b] = u] EXCEPT !.app = got, !.parts = w])
<1> DEFINE new == Append(s.app.since[b], data)
           more == s.app.ever \cup {data}
           since == [s.app.since EXCEPT ![b] = new]
           got == [since |-> since, ever |-> more]
           f == [s.tcb EXCEPT ![b] = u]
           r == [s EXCEPT !.tcb[b] = u]
           q == [r EXCEPT !.app = got, !.parts = w]
<1>1. IsTyped(r, Busy)
  BY BlockTyped DEF IsGood
<1>2. r = [tcb |-> f, queue |-> s.queue, parts |-> s.parts, app |-> s.app, out |-> s.out]
  <2>1. s = [tcb |-> s.tcb, queue |-> s.queue, parts |-> s.parts, app |-> s.app, out |-> s.out]
    BY DEF IsGood, IsTyped
  <2> QED  BY <2>1
<1> HIDE DEF r
<1>3. IsTyped(q, Busy)
  <2> HIDE DEF got
  <2> QED  BY <1>1, HandlerTyped
<1>4. q.tcb = f /\ q.app = got /\ q.out = s.out
  <2> HIDE DEF got, f
  <2> DEFINE x == [r EXCEPT !.app = got]
  <2>1. x = [tcb |-> f, queue |-> s.queue, parts |-> s.parts, app |-> got, out |-> s.out]
    BY <1>2
  <2>2. q = [x EXCEPT !.parts = w]
    OBVIOUS
  <2> HIDE DEF x
  <2> QED  BY <2>1, <2>2
<1> HIDE DEF q
<1>5. f[b] = u /\ \A c \in Blocks : c # b => f[c] = s.tcb[c]
  BY DEF IsGood, IsTyped
<1>6. /\ since = [c \in Blocks |-> since[c]] /\ since[b] = new
      /\ \A c \in Blocks : c # b => since[c] = s.app.since[c]
  <2> HIDE DEF new
  <2>1. s.app.since = [c \in Blocks |-> s.app.since[c]]
    BY DEF IsGood, IsApp
  <2> QED  BY <2>1
<1> HIDE DEF f, since
<1>7. got.since = since /\ got.ever = more
  OBVIOUS
<1> HIDE DEF got, new
<1>8. IsApp(got)
  <2>1. got = [since |-> got.since, ever |-> got.ever]
    BY <1>7 DEF got
  <2> QED  BY <1>6, <1>7, <2>1 DEF IsApp
<1>9. s.app.ever \subseteq more
  OBVIOUS
<1> HIDE DEF more
<1>10. ASSUME NEW c \in Blocks PROVE BlockGood(f[c], since[c], more)
  <2>1. CASE c = b
    BY <1>5, <1>6, <2>1 DEF new, more
  <2>2. CASE c # b
    <3>1. BlockGood(s.tcb[c], s.app.since[c], s.app.ever)
      BY DEF IsGood
    <3>2. BlockGood(s.tcb[c], s.app.since[c], more)
      BY <1>9, <3>1, MoreEver
    <3> QED  BY <1>5, <1>6, <2>2, <3>2
  <2> QED  BY <2>1, <2>2
<1>11. \A seg \in s.out : AnswerGood(seg, more)
  BY <1>9, MoreEver DEF IsGood
<1>12. app.ever \subseteq more
  BY <1>9 DEF IsGood
<1>13. IsGood(q)
  BY <1>3, <1>4, <1>7, <1>8, <1>10, <1>11, <1>12 DEF IsGood
<1> QED  BY <1>13 DEF q, r, got, since, more, new

LEMMA TypedIsServer ==
    ASSUME NEW s, IsTyped(s, Busy)
    PROVE  IsServer(s)
<1>1. \A t \in Tcbs(Busy) : IsTcb(t)
  BY DEF Tcbs, IsTcb
<1>2. AreTcbs(s.tcb)
  BY <1>1 DEF IsTyped, AreTcbs
<1> QED  BY <1>2 DEF IsTyped, IsServer

(* The block acknowledges what it has counted.                             *)
LEMMA AckGood ==
    ASSUME NEW s, IsGood(s), NEW b \in Blocks, s.tcb[b].state # "LISTEN"
    PROVE  LET r == [s EXCEPT !.out = @ \cup { Ack(s.tcb[b]) }]
           IN  IsGood(r) /\ r.app = s.app /\ r.tcb = s.tcb
<1> DEFINE t == s.tcb[b]
           v == s.out \cup { Ack(t) }
<1>1. t \in Tcbs(Busy) /\ BlockGood(t, s.app.since[b], s.app.ever) /\ t.state # "LISTEN"
  BY DEF IsGood, IsTyped
<1> HIDE DEF t
<1>2. Ack(t) \in Answers /\ AnswerGood(Ack(t), s.app.ever)
  BY <1>1, AckTyped, SegmentGood
<1>3. v \in SUBSET Answers /\ \A seg \in v : AnswerGood(seg, s.app.ever)
  BY <1>2 DEF IsGood, IsTyped
<1> HIDE DEF v
<1>4. LET r == [s EXCEPT !.out = v] IN IsGood(r) /\ r.app = s.app /\ r.tcb = s.tcb
  BY <1>3, OutSet
<1> QED  BY <1>4 DEF v, t

LEMMA TextGood ==
    ASSUME NumbersApart,
           NEW s, IsGood(s), NEW b \in Blocks, NEW method,
           s.tcb[b].state = "ESTABLISHED", s.tcb[b].RCVWND > 0,
           NEW seg, seg.conn \in Connections, seg.unit \in 1 .. REQUEST,
           s.tcb[b].RCVNXT = Plus(Isn[seg.conn], seg.unit)
    PROVE  IsGood(Text(s, b, seg, method))
<1> DEFINE t == s.tcb[b]
           u == [t EXCEPT !.RCVNXT = Plus(@, 1), !.RCVWND = @ - 1]
           data == [conn |-> seg.conn, unit |-> seg.unit]
           counted == [s EXCEPT !.tcb[b] = u]
           got == [since |-> [s.app.since EXCEPT ![b] = Append(@, data)],
                   ever |-> s.app.ever \cup {data}]
           w == [s.parts EXCEPT ![b] = Read(@, method)]
           read == [counted EXCEPT !.app = got, !.parts = w]
           called == Callback(counted, b, data, method)
<1>1. t \in Tcbs(Busy) /\ BlockGood(t, s.app.since[b], s.app.ever)
  BY DEF IsGood, IsTyped
<1>2. u \in Tcbs(Busy) /\ BlockGood(u, Append(s.app.since[b], data), s.app.ever \cup {data})
  <2>1. t.state = "ESTABLISHED" /\ t.RCVWND > 0 /\ t.RCVNXT = Plus(Isn[seg.conn], seg.unit)
    OBVIOUS
  <2> HIDE DEF t
  <2> QED  BY <1>1, <2>1, NextUnitGood
<1>3. w \in [Blocks -> 0 .. (REQUEST - 1)]
  <2>1. s.parts \in [Blocks -> 0 .. (REQUEST - 1)]
    BY DEF IsGood, IsTyped
  <2>2. Read(s.parts[b], method) \in 0 .. (REQUEST - 1)
    BY <2>1, ReadTyped
  <2> QED  BY <2>1, <2>2
<1>4. IsGood(read)
  <2> HIDE DEF u, w, data
  <2> QED  BY <1>2, <1>3, ReadGood
<1>5. counted.app = s.app /\ counted.parts = s.parts /\ counted.tcb[b] = u
  <2> HIDE DEF u
  <2> QED  BY <1>2, BlockTyped DEF IsGood, IsTyped
<1>6. Callback(counted, b, data, method) =
         IF read.parts[b] # 0 THEN read
         ELSE IF counted.parts[b] = 0 /\ method = "UNKNOWN" THEN Abort(read, b)
         ELSE Write(Write(read, b, HEADER), b, CONTENT)
  <2> HIDE DEF counted, data
  <2>1. read = [counted EXCEPT !.app = got, !.parts[b] = Read(@, method)]
    BY <1>5
  <2> HIDE DEF read
  <2> QED  BY <1>5, <2>1 DEF Callback
<1> HIDE DEF read
<1>7. IsGood(Abort(read, b))
  BY <1>4, AbortGood
<1>8. IsGood(Write(Write(read, b, HEADER), b, CONTENT))
  <2>1. IsGood(Write(read, b, HEADER))
    BY <1>4, WriteGood, TcpNumbers
  <2> QED  BY <2>1, WriteGood, TcpNumbers
<1>9. IsGood(called)
  BY <1>4, <1>6, <1>7, <1>8
<1>10. Text(s, b, seg, method) = [called EXCEPT !.out = @ \cup { Ack(called.tcb[b]) }]
  BY DEF Text
<1>11. called.tcb[b].state # "LISTEN"
  <2>1. IsTyped(counted, Busy) /\ counted.tcb[b] = u
    <3> HIDE DEF u
    <3> QED  BY <1>2, BlockTyped DEF IsGood
  <2>2. u.state # "LISTEN"
    <3>1. t.state = "ESTABLISHED"
      OBVIOUS
    <3> HIDE DEF t
    <3> QED  BY <1>1, <3>1 DEF Tcbs
  <2> HIDE DEF counted, u, data
  <2>3. Keeps(counted, called)
    BY <2>1, TypedIsServer, CallbackKeeps
  <2> QED  BY <2>1, <2>2, <2>3 DEF Keeps, SameUse
<1> HIDE DEF called
<1> QED  BY <1>9, <1>10, <1>11, AckGood

(* With one more the block acknowledges nothing else than what is read.    *)
MayAckNext(t, ever) ==
    \E k \in 0 .. REQUEST : t.RCVNXT = Plus(Isn[t.conn], 1 + k) /\ Delivered(ever, t.conn, k + 1)

LEMMA FinGood ==
    ASSUME NEW s, IsGood(s), NEW b \in Blocks, s.tcb[b].state # "LISTEN", NEW seg,
           NoFin /\ "FIN" \in seg.ctl => MayAckNext(s.tcb[b], s.app.ever)
    PROVE  IsGood(Fin(s, b, seg))
<1> DEFINE t == s.tcb[b]
           x == Plus(t.RCVNXT, 1)
           y == IF t.state \in {"SYN_RECEIVED", "ESTABLISHED"} THEN "CLOSE_WAIT" ELSE t.state
           u == [t EXCEPT !.RCVNXT = x, !.state = y]
           r == [s EXCEPT !.tcb[b] = u]
<1> SUFFICES ASSUME "FIN" \in seg.ctl PROVE IsGood(Fin(s, b, seg))
  BY DEF Fin
<1>1. t \in Tcbs(Busy) /\ BlockGood(t, s.app.since[b], s.app.ever) /\ t.state # "LISTEN"
      /\ (NoFin => MayAckNext(t, s.app.ever))
  BY DEF IsGood, IsTyped
<1>2. t.RCVNXT \in Int /\ t.conn \in Connections
  <2> HIDE DEF t
  <2>1. t.RCVNXT \in SequenceNumbers /\ t.conn \in Connections
    BY <1>1 DEF Tcbs, BlockGood
  <2> QED  BY <2>1, NumberIsInt
<1>3. y \in {"CLOSE_WAIT", "LAST_ACK"} /\ y \in Busy
  <2> HIDE DEF t
  <2> QED  BY <1>1 DEF Tcbs, Busy, States
<1>4. x \in SequenceNumbers
  <2> HIDE DEF t
  <2> QED  BY <1>2, PlusType
<1>5. NoFin => Acks(s.app.ever, t.conn, x)
  <2> HIDE DEF t
  <2> SUFFICES ASSUME NoFin PROVE Acks(s.app.ever, t.conn, x)
    OBVIOUS
  <2>1. PICK k \in 0 .. REQUEST : /\ t.RCVNXT = Plus(Isn[t.conn], 1 + k)
                                  /\ Delivered(s.app.ever, t.conn, k + 1)
    BY <1>1 DEF MayAckNext
  <2>2. k \in Int /\ k + 1 \in 0 .. (REQUEST + 1)
    BY TcpNumbers
  <2>3. x = Plus(Isn[t.conn], 1 + (k + 1))
    BY <1>2, <2>1, <2>2, IsnIsInt, PlusNext
  <2> HIDE DEF x
  <2> QED  BY <2>1, <2>2, <2>3 DEF Acks
<1>6. u \in Tcbs(Busy) /\ u.state = y /\ u.conn = t.conn /\ u.RCVNXT = x
  <2> HIDE DEF t, x, y
  <2> QED  BY <1>1, <1>3, <1>4 DEF Tcbs
<1>7. Fin(s, b, seg) = [r EXCEPT !.out = @ \cup { Ack(u) }]
  <2>1. Fin(s, b, seg) = [s EXCEPT !.tcb[b] = u, !.out = s.out \cup { Ack(u) }]
    BY DEF Fin
  <2> HIDE DEF u
  <2> QED  BY <2>1 DEF IsGood, IsTyped
<1> HIDE DEF t, u, x, y
<1>8. BlockGood(u, s.app.since[b], s.app.ever)
  BY <1>1, <1>3, <1>5, <1>6, ClosingGood
<1>9. IsGood(r) /\ r.tcb[b] = u
  BY <1>6, <1>8, BlockSet
<1> HIDE DEF r
<1>10. u.state # "LISTEN"
  BY <1>3, <1>6
<1> QED  BY <1>7, <1>9, <1>10, AckGood

LEMMA AcknowledgedGood ==
    ASSUME NEW t \in Tcbs(Busy), NEW seg, IsFromPeer(seg)
    PROVE  LET u == Acknowledged(t, seg)
           IN  /\ u \in Tcbs(Busy) /\ u.state = t.state /\ u.conn = t.conn
               /\ u.RCVNXT = t.RCVNXT /\ u.RCVWND = t.RCVWND
<1> DEFINE same(u, v) == /\ v.state = u.state /\ v.conn = u.conn
                         /\ v.RCVNXT = u.RCVNXT /\ v.RCVWND = u.RCVWND
<1>1. seg.seq \in SequenceNumbers /\ seg.ack \in SequenceNumbers
  BY DEF IsFromPeer
<1>2. ASSUME NEW u \in Tcbs(Busy) PROVE same(u, WindowUpdate(u, seg))
  <2> DEFINE w == [u EXCEPT !.WND = PEER_WINDOW, !.WL1 = seg.seq, !.WL2 = seg.ack]
  <2>1. same(u, w)
    BY <1>2 DEF Tcbs
  <2>2. WindowUpdate(u, seg) \in {w, u}
    BY DEF WindowUpdate
  <2> HIDE DEF w
  <2> QED  BY <2>1, <2>2
<1> DEFINE u == [t EXCEPT !.UNA = seg.ack]
<1>3. u \in Tcbs(Busy) /\ same(t, u)
  BY <1>1 DEF Tcbs
<1> HIDE DEF u
<1>4. Acknowledged(t, seg) \in {WindowUpdate(u, seg), WindowUpdate(t, seg), t}
  BY DEF Acknowledged, u
<1>5. same(u, WindowUpdate(u, seg)) /\ same(t, WindowUpdate(t, seg))
  BY <1>2, <1>3
<1>6. same(t, Acknowledged(t, seg))
  BY <1>3, <1>4, <1>5
<1> QED  BY <1>6, AcknowledgedTyped

LEMMA RunGood ==
    ASSUME NEW s, IsGood(s)
    PROVE  IsGood(Run(s)) /\ Run(s).app = s.app
<1> DEFINE closing == { b \in Blocks : s.tcb[b].state = "CLOSE_WAIT" }
           fin(t) == Segment(t, {"FIN", "ACK"}, t.NXT, t.RCVNXT, 0)
           f == [b \in Blocks |-> IF b \notin closing THEN s.tcb[b]
                   ELSE [s.tcb[b] EXCEPT !.state = "LAST_ACK", !.NXT = Plus(@, 1)]]
           sent == { fin(s.tcb[b]) : b \in closing }
           v == s.out \cup sent
           closed == [s EXCEPT !.tcb = f, !.out = @ \cup sent]
           block == s.queue.block
           count == Smaller(s.queue.count, closed.tcb[block].WND)
           rest == SendMany(closed, block, count)
           q == [rest.queue EXCEPT !.count = @ - count]
<1>1. \A b \in Blocks : s.tcb[b] \in Tcbs(Busy)
                         /\ BlockGood(s.tcb[b], s.app.since[b], s.app.ever)
  BY DEF IsGood, IsTyped
<1>2. f \in [Blocks -> Tcbs(Busy)] /\ \A b \in Blocks : BlockGood(f[b], s.app.since[b], s.app.ever)
  <2> SUFFICES ASSUME NEW b \in Blocks
               PROVE  f[b] \in Tcbs(Busy) /\ BlockGood(f[b], s.app.since[b], s.app.ever)
    OBVIOUS
  <2> DEFINE t == s.tcb[b]
             x == Plus(t.NXT, 1)
             u == [t EXCEPT !.state = "LAST_ACK", !.NXT = x]
  <2>1. t \in Tcbs(Busy) /\ BlockGood(t, s.app.since[b], s.app.ever) /\ t.NXT \in Int
    BY <1>1, NumberIsInt DEF Tcbs
  <2>2. x \in SequenceNumbers
    <3> HIDE DEF t
    <3> QED  BY <2>1, PlusType
  <2>3. /\ u \in Tcbs(Busy) /\ u.state = "LAST_ACK" /\ u.conn = t.conn /\ u.RCVNXT = t.RCVNXT
    <3> HIDE DEF t, x
    <3> QED  BY <2>1, <2>2 DEF Tcbs, States, Busy
  <2>4. CASE b \in closing
    <3>1. f[b] = u /\ t.state = "CLOSE_WAIT"
      BY <2>4
    <3> HIDE DEF f, u, t
    <3>2. NoFin => Acks(s.app.ever, u.conn, u.RCVNXT)
      BY <2>1, <2>3, <3>1 DEF BlockGood
    <3> QED  BY <2>1, <2>3, <3>1, <3>2, ClosingGood
  <2>5. CASE b \notin closing
    <3>1. f[b] = t
      BY <2>5
    <3> HIDE DEF f, t
    <3> QED  BY <2>1, <3>1
  <2> QED  BY <2>4, <2>5
<1>3. v \in SUBSET Answers /\ \A seg \in v : AnswerGood(seg, s.app.ever)
  <2>1. ASSUME NEW b \in closing
        PROVE  fin(s.tcb[b]) \in Answers /\ AnswerGood(fin(s.tcb[b]), s.app.ever)
    <3> DEFINE t == s.tcb[b]
    <3>1. /\ t \in Tcbs(Busy) /\ t.NXT \in SequenceNumbers /\ t.RCVNXT \in SequenceNumbers
          /\ BlockGood(t, s.app.since[b], s.app.ever) /\ t.state # "LISTEN"
      BY <1>1 DEF Tcbs
    <3> HIDE DEF t
    <3>2. Segment(t, {"FIN", "ACK"}, t.NXT, t.RCVNXT, 0) \in Answers
      BY <3>1, SegmentTyped DEF Flags
    <3>3. AnswerGood(Segment(t, {"FIN", "ACK"}, t.NXT, t.RCVNXT, 0), s.app.ever)
      BY <3>1, SegmentGood
    <3> QED  BY <3>2, <3>3 DEF t
  <2>2. \A seg \in sent : seg \in Answers /\ AnswerGood(seg, s.app.ever)
    <3> HIDE DEF fin, closing
    <3> QED  BY <2>1
  <2> HIDE DEF sent
  <2> QED  BY <2>2 DEF IsGood, IsTyped
<1>4. IsGood(closed) /\ closed.queue = s.queue /\ closed.app = s.app
  <2> DEFINE r == [s EXCEPT !.tcb = f]
  <2>1. IsTyped(r, Busy) /\ r.queue = s.queue /\ r.tcb = f /\ r.app = s.app /\ r.out = s.out
    <3> HIDE DEF f
    <3> QED  BY <1>2 DEF IsGood, IsTyped
  <2>2. closed = [r EXCEPT !.out = v]
    <3> HIDE DEF f, sent
    <3> QED  OBVIOUS
  <2> HIDE DEF r, v, closed, f
  <2>3. IsGood(r)
    BY <1>2, <2>1 DEF IsGood
  <2> QED  BY <1>3, <2>1, <2>2, <2>3, OutSet
<1> HIDE DEF closed, v
<1>5. /\ block \in Blocks /\ s.queue.count \in 0 .. QUEUE
      /\ closed.tcb[block].WND \in 0 .. PEER_WINDOW
  <2>1. s.queue \in Queues
    BY DEF IsGood, IsTyped
  <2>2. block \in Blocks /\ s.queue.count \in 0 .. QUEUE
    BY <2>1 DEF Queues
  <2>3. closed.tcb[block] \in Tcbs(Busy)
    BY <1>4, <2>2 DEF IsGood, IsTyped
  <2> QED  BY <2>2, <2>3 DEF Tcbs
<1>6. count \in Nat /\ count <= closed.tcb[block].WND /\ count <= s.queue.count
  BY <1>5, TcpNumbers DEF Smaller
<1> HIDE DEF count
<1>7. IsGood(rest) /\ rest.queue = s.queue /\ rest.app = s.app
  BY <1>4, <1>5, <1>6, SendManyGood
<1> HIDE DEF rest
<1>8. q \in Queues
  <2>1. s.queue \in Queues
    BY DEF IsGood, IsTyped
  <2>2. s.queue.count - count \in 0 .. QUEUE
    BY <1>5, <1>6, TcpNumbers
  <2> QED  BY <1>7, <2>1, <2>2 DEF Queues
<1>9. Run(s) = [rest EXCEPT !.queue = q]
  <2>1. Run(s) = [rest EXCEPT !.queue.count = @ - count]
    BY DEF Run, rest, count, closed
  <2> QED  BY <2>1
<1> HIDE DEF q
<1> QED  BY <1>7, <1>8, <1>9, QueueSet

ServerIsGood(f, a, answers) ==
    /\ IsApp(a)
    /\ \A b \in Blocks : BlockGood(f[b], a.since[b], a.ever)
    /\ \A seg \in answers : AnswerGood(seg, a.ever)

(* What comes from a peer: its units, and its FIN behind the last.         *)
TextMeant(seg, ever) ==
    /\ seg.unit # 0 => /\ "FIN" \notin seg.ctl /\ seg.conn \in Connections
                       /\ seg.seq = Plus(Isn[seg.conn], seg.unit)
    /\ NoFin /\ "FIN" \in seg.ctl =>
          /\ seg.conn \in Connections /\ seg.seq = Plus(Isn[seg.conn], 1 + REQUEST)
          /\ Delivered(ever, seg.conn, REQUEST)

SynMeant(seg) ==
    "SYN" \in seg.ctl => seg.conn \in Connections /\ seg.seq = Isn[seg.conn]

PeersAreGood(c, ever, segments) ==
    /\ \A p \in Peers : NoFin => Delivered(ever, c[p].conn, c[p].una)
    /\ \A seg \in segments : SynMeant(seg) /\ TextMeant(seg, ever)

ServerGood == ServerIsGood(tcb, app, toPeer)
PeersGood == PeersAreGood(client, app.ever, toServer)

LEMMA PrimeGood ==
    /\ ServerIsGood(tcb', app', toPeer') => ServerGood'
    /\ PeersAreGood(client', app'.ever, toServer') => PeersGood'
<1>1. ServerIsGood(tcb', app', toPeer') => ServerGood'
  BY DEF ServerGood, ServerIsGood, IsApp, Blocks, BlockGood, Data, Acks, Delivered, Smaller,
         Plus, AnswerGood, NoFin
<1>2. PeersAreGood(client', app'.ever, toServer') => PeersGood'
  BY DEF PeersGood, PeersAreGood, SynMeant, TextMeant, Delivered, Smaller, Plus, NoFin
<1> QED  BY <1>1, <1>2

-----------------------------------------------------------------------------
(* A segment and the data.                                                 *)

LEMMA ServerStarts ==
    ASSUME ServerTyped, ServerGood
    PROVE  /\ IsGood(Server) /\ Server.tcb = tcb /\ Server.app = app /\ Server.out = {}
           /\ \A b \in Blocks : tcb[b] \in Tcbs(Busy) /\ BlockGood(tcb[b], app.since[b], app.ever)
<1>1. Server.tcb = tcb /\ Server.app = app /\ Server.out = {}
  BY DEF Server
<1>2. IsTyped(Server, Busy)
  BY ServerIsTyped
<1>3. IsGood(Server)
  BY <1>1, <1>2 DEF IsGood, ServerGood, ServerIsGood
<1> QED  BY <1>1, <1>2, <1>3 DEF IsGood, IsTyped

Moved == ServerGood' /\ app.ever \subseteq app'.ever

LEMMA BecomesGood ==
    ASSUME ServerGood, NEW s, IsGood(s), Becomes(s)
    PROVE  Moved
<1>1. IsGood(Run(s)) /\ Run(s).app = s.app
  BY RunGood
<1>2. /\ tcb' = Run(s).tcb /\ app' = Run(s).app /\ toPeer' \subseteq toPeer \cup Run(s).out
  BY DEF Becomes
<1>3. app.ever \subseteq app'.ever
  BY <1>1, <1>2 DEF IsGood
<1>4. \A seg \in toPeer' : AnswerGood(seg, app'.ever)
  BY <1>1, <1>2, <1>3, MoreEver DEF IsGood, ServerGood, ServerIsGood
<1>5. ServerIsGood(tcb', app', toPeer')
  BY <1>1, <1>2, <1>4 DEF IsGood, ServerIsGood
<1> QED  BY <1>3, <1>5, PrimeGood DEF Moved

LEMMA AnswersGood ==
    ASSUME ServerTyped, ServerGood, NEW out \in SUBSET Answers,
           \A seg \in out : AnswerGood(seg, app.ever), Answer(out)
    PROVE  Moved
<1>1. IsGood([Server EXCEPT !.out = out])
  BY ServerStarts, OutSet
<1> QED  BY <1>1, BecomesGood DEF Answer

LEMMA FreedGood ==
    ASSUME ServerTyped, ServerGood, NEW b \in Blocks,
           NEW out \in SUBSET Answers, \A x \in out : AnswerGood(x, app.ever),
           FreedAfter(b, out)
    PROVE  Moved
<1> DEFINE v == [app EXCEPT !.since[b] = <<>>]
           since == [app.since EXCEPT ![b] = <<>>]
<1>1. PICK iss \in Clock :
         Becomes([Server EXCEPT !.tcb[b] = Listening(iss), !.app.since[b] = <<>>, !.out = out])
  BY DEF FreedAfter
<1> DEFINE t == Listening(iss)
           f == [tcb EXCEPT ![b] = t]
           r == [Server EXCEPT !.tcb[b] = t]
           s == [r EXCEPT !.app = v]
<1>2. [Server EXCEPT !.tcb[b] = Listening(iss), !.app.since[b] = <<>>, !.out = out] = [s EXCEPT !.out = out]
  BY DEF Server
<1>3. t \in Tcbs(Busy) /\ t.state = "LISTEN" /\ t.WND = 0
  BY ListeningTyped DEF Listening
<1> HIDE DEF t
<1>4. IsTyped(r, Busy) /\ r.out = {}
  <2> HIDE DEF f
  <2>1. t \in Tcbs(Busy)
    BY <1>3
  <2>2. IsTyped(Server, Busy) /\ Server.out = {}
    BY ServerStarts, ServerIsTyped
  <2>3. \A z \in Tcbs(Busy) :
          LET q == [Server EXCEPT !.tcb[b] = z]
          IN  IsTyped(q, Busy) /\ q.out = Server.out
    <3> HIDE DEF r, s, v, since
    <3> QED  BY <2>2, BlockTyped
  <2> QED  BY <2>1, <2>2, <2>3
<1>5. r.tcb = f
  <2> HIDE DEF f
  <2>1. r = [tcb |-> f, queue |-> queue, parts |-> parts, app |-> app, out |-> {}]
    BY DEF Server, f
  <2> HIDE DEF r
  <2> QED  BY <2>1
<1>6. f[b] = t /\ \A c \in Blocks : c # b => f[c] = tcb[c]
  BY DEF ServerTyped
<1> HIDE DEF f, r
<1>7. /\ v = [since |-> since, ever |-> app.ever]
      /\ since = [c \in Blocks |-> since[c]] /\ since[b] = <<>>
      /\ \A c \in Blocks : c # b => since[c] = app.since[c]
  <2>1. app = [since |-> app.since, ever |-> app.ever]
        /\ app.since = [c \in Blocks |-> app.since[c]]
    BY DEF ServerGood, ServerIsGood, IsApp
  <2>2. v = [since |-> since, ever |-> app.ever]
    <3> HIDE DEF since
    <3> QED  BY <2>1 DEF since
  <2> QED  BY <2>1, <2>2
<1> HIDE DEF v, since
<1>8. v.since = since /\ v.ever = app.ever /\ IsApp(v)
  BY <1>7 DEF IsApp
<1>9. IsTyped(s, Busy) /\ s.app = v /\ s.tcb = f /\ s.out = {}
  BY <1>4, <1>5 DEF IsTyped
<1> HIDE DEF s
<1>10. BlockGood(t, <<>>, app.ever)
  BY <1>3 DEF BlockGood, Data
<1>11. ASSUME NEW c \in Blocks PROVE BlockGood(f[c], since[c], app.ever)
  BY <1>6, <1>7, <1>10 DEF ServerGood, ServerIsGood
<1>12. IsGood(s)
  BY <1>8, <1>9, <1>11 DEF IsGood
<1>13. s.app.ever = app.ever
  BY <1>8, <1>9
<1>14. IsGood([s EXCEPT !.out = out])
  BY <1>12, <1>13, OutSet
<1> QED  BY <1>1, <1>2, <1>14, BecomesGood DEF t

LEMMA ListenSynGood ==
    ASSUME ServerTyped, ServerGood, NEW seg, IsFromPeer(seg), SynMeant(seg),
           NEW b \in Blocks, ListenSyn(b, seg)
    PROVE  Moved
<1> DEFINE x == Plus(seg.seq, 1)
           t == [tcb[b] EXCEPT !.peer = seg.peer, !.conn = seg.conn, !.RCVNXT = x]
           y == Plus(t.ISS, 1)
           u == [t EXCEPT !.state = "SYN_RECEIVED", !.NXT = y, !.UNA = t.ISS]
           v == { Segment(t, {"SYN", "ACK"}, t.ISS, t.RCVNXT, 0) }
           r == [Server EXCEPT !.tcb[b] = u]
<1>1. tcb[b] \in Tcbs(Busy) /\ BlockGood(tcb[b], app.since[b], app.ever)
      /\ tcb[b].state = "LISTEN"
  BY ServerStarts DEF ListenSyn
<1>2. /\ seg.peer \in Peers /\ seg.conn \in Connections \cup {0} /\ seg.seq \in Int
      /\ seg.conn \in Connections /\ seg.seq = Isn[seg.conn]
  BY NumberIsInt DEF IsFromPeer, SynMeant, ListenSyn
<1>3. x \in SequenceNumbers /\ x = Plus(Isn[seg.conn], 1 + 0)
  BY <1>2, PlusType
<1>4. t \in Tcbs(Busy) /\ t.conn = seg.conn /\ t.RCVNXT = x
  <2> HIDE DEF x
  <2> QED  BY <1>1, <1>2, <1>3 DEF Tcbs
<1> HIDE DEF t, x
<1>5. t.ISS \in SequenceNumbers /\ t.RCVNXT \in SequenceNumbers /\ t.ISS \in Int
  BY <1>4, NumberIsInt DEF Tcbs
<1>6. y \in SequenceNumbers
  BY <1>5, PlusType
<1>7. /\ u \in Tcbs(Busy) /\ u.state = "SYN_RECEIVED" /\ u.conn = seg.conn /\ u.RCVNXT = x
  <2> HIDE DEF y
  <2> QED  BY <1>4, <1>5, <1>6 DEF Tcbs, Busy, States
<1>8. Acks(app.ever, seg.conn, x)
  <2>1. 0 \in 0 .. (REQUEST + 1)
    BY TcpNumbers
  <2>2. Delivered(app.ever, seg.conn, 0)
    BY TcpNumbers DEF Delivered, Smaller
  <2> QED  BY <1>3, <2>1, <2>2 DEF Acks
<1>9. v \in SUBSET Answers /\ \A z \in v : AnswerGood(z, app.ever)
  <2> DEFINE z == Segment(t, {"SYN", "ACK"}, t.ISS, t.RCVNXT, 0)
  <2>1. z \in Answers
    BY <1>4, <1>5, SegmentTyped DEF Flags
  <2>2. z.ack = x
    BY <1>4 DEF Segment
  <2> HIDE DEF z
  <2>3. AnswerGood(z, app.ever)
    BY <1>2, <1>8, <2>2 DEF AnswerGood
  <2> QED  BY <2>1, <2>3 DEF z
<1> HIDE DEF u, v
<1>10. BlockGood(u, app.since[b], app.ever)
  <2>1. app.since[b] = <<>>
    BY <1>1 DEF BlockGood
  <2>2. Len(<<>>) = 0 /\ <<>> \in Seq(Data)
    OBVIOUS
  <2> QED  BY <1>2, <1>3, <1>7, <1>8, <2>1, <2>2, TcpNumbers DEF BlockGood
<1>11. IsGood(r) /\ r.app = app
  BY <1>7, <1>10, ServerStarts, BlockSet
<1>12. Becomes([r EXCEPT !.out = v])
  <2>1. Becomes([Server EXCEPT !.tcb[b] = u, !.out = v])
    BY DEF ListenSyn, t, u, v, x, y
  <2>2. [Server EXCEPT !.tcb[b] = u, !.out = v] = [r EXCEPT !.out = v]
    BY DEF Server
  <2> QED  BY <2>1, <2>2
<1> HIDE DEF r
<1>13. IsGood([r EXCEPT !.out = v])
  BY <1>9, <1>11, OutSet
<1> QED  BY <1>12, <1>13, BecomesGood

LEMMA HandshakeAckGood ==
    ASSUME ServerTyped, ServerGood, NEW seg, IsFromPeer(seg), NEW b \in Blocks,
           HandshakeAck(b, seg)
    PROVE  Moved
<1> DEFINE t == tcb[b]
           w == PEER_WINDOW
           u1 == [t EXCEPT !.state = "ESTABLISHED", !.UNA = seg.ack]
           u2 == [u1 EXCEPT !.WND = w, !.WL1 = seg.seq, !.WL2 = seg.ack]
           u == [t EXCEPT !.state = "ESTABLISHED", !.UNA = seg.ack, !.WND = w,
                          !.WL1 = seg.seq, !.WL2 = seg.ack]
<1>1. /\ t \in Tcbs(Busy) /\ BlockGood(t, app.since[b], app.ever) /\ t.state = "SYN_RECEIVED"
  BY ServerStarts DEF HandshakeAck
<1>2. /\ seg.seq \in SequenceNumbers /\ seg.ack \in SequenceNumbers
      /\ w \in 0 .. PEER_WINDOW
  BY TcpNumbers DEF IsFromPeer
<1>3. u = u2
  <2> HIDE DEF t, w
  <2> QED  OBVIOUS
<1> HIDE DEF t, w
<1>4. /\ u1 \in Tcbs(Busy) /\ u1.state = "ESTABLISHED" /\ u1.conn = t.conn
      /\ u1.RCVNXT = t.RCVNXT
  BY <1>1, <1>2 DEF Tcbs, Busy, States
<1>5. /\ u2 \in Tcbs(Busy) /\ u2.state = "ESTABLISHED" /\ u2.conn = t.conn
      /\ u2.RCVNXT = t.RCVNXT
  <2> HIDE DEF u1
  <2> QED  BY <1>2, <1>4 DEF Tcbs
<1>6. Becomes([Server EXCEPT !.tcb[b] = u])
  BY DEF HandshakeAck, t, w
<1> HIDE DEF u, u2
<1>7. BlockGood(u, app.since[b], app.ever)
  BY <1>1, <1>3, <1>5 DEF BlockGood
<1>8. IsGood([Server EXCEPT !.tcb[b] = u])
  BY <1>3, <1>5, <1>7, ServerStarts, BlockSet
<1> QED  BY <1>6, <1>8, BecomesGood

LEMMA AfterGood ==
    ASSUME ServerTyped, ServerGood, NEW seg, IsFromPeer(seg), NEW b \in Blocks, Synchronized(b)
    PROVE  LET s == After(b, seg)
           IN  /\ IsGood(s) /\ s.app = app
               /\ s.tcb[b].state = tcb[b].state /\ s.tcb[b].conn = tcb[b].conn
               /\ s.tcb[b].RCVNXT = tcb[b].RCVNXT /\ s.tcb[b].RCVWND = tcb[b].RCVWND
<1> DEFINE t == Acknowledged(tcb[b], seg)
           v == Strayed(b, seg)
           r == [Server EXCEPT !.tcb[b] = t]
<1>1. tcb[b] \in Tcbs(Busy) /\ BlockGood(tcb[b], app.since[b], app.ever)
  BY ServerStarts
<1>2. /\ t \in Tcbs(Busy) /\ t.state = tcb[b].state /\ t.conn = tcb[b].conn
      /\ t.RCVNXT = tcb[b].RCVNXT /\ t.RCVWND = tcb[b].RCVWND
  BY <1>1, AcknowledgedGood
<1>3. v \in SUBSET Answers /\ \A x \in v : AnswerGood(x, app.ever)
  BY StrayedTyped, ResetGood DEF Strayed
<1>4. After(b, seg) = [r EXCEPT !.out = v]
  BY DEF After, Server
<1> HIDE DEF t, v
<1>5. BlockGood(t, app.since[b], app.ever)
  BY <1>1, <1>2, KeptGood DEF Synchronized
<1>6. IsGood(r) /\ r.tcb[b] = t /\ r.app = app
  BY <1>2, <1>5, ServerStarts, BlockSet
<1> HIDE DEF r
<1>7. LET s == [r EXCEPT !.out = v] IN IsGood(s) /\ s.app = r.app /\ s.tcb = r.tcb
  BY <1>3, <1>6, OutSet
<1> QED  BY <1>2, <1>4, <1>6, <1>7

(* The FIN of a peer is behind all its data, and in the window only when   *)
(* the block has counted none that the call-back did not get.              *)
LEMMA FinMeant ==
    ASSUME NumbersApart, NoFin, NEW t \in Tcbs(Busy), NEW since, NEW ever,
           BlockGood(t, since, ever), t.state # "LISTEN",
           NEW seg, IsFromPeer(seg), TextMeant(seg, ever), "FIN" \in seg.ctl, Acceptable(t, seg)
    PROVE  MayAckNext(t, ever)
<1>1. /\ seg.unit = 0 /\ seg.conn \in Connections
      /\ seg.seq = Plus(Isn[seg.conn], 1 + REQUEST) /\ Delivered(ever, seg.conn, REQUEST)
      /\ seg.seq \in SequenceNumbers
  BY DEF TextMeant, IsFromPeer
<1>2. t.conn \in Connections /\ Acks(ever, t.conn, t.RCVNXT)
  BY DEF BlockGood
<1>3. PICK k \in 0 .. (REQUEST + 1) : t.RCVNXT = Plus(Isn[t.conn], 1 + k)
  BY <1>2 DEF Acks
<1>4. t.RCVNXT \in SequenceNumbers /\ t.RCVWND \in 0 .. WINDOW
  BY DEF Tcbs
<1>0. WINDOW \in Nat /\ WINDOW >= 1
  <2>1. {WINDOW, PEER_WINDOW} \subseteq 1 .. (MODULUS \div 2 - 1)
    BY TcpAssumption
  <2> QED  BY <2>1, TcpNumbers
<1>5. PICK d \in 0 .. (WINDOW - 1) : seg.seq = Plus(t.RCVNXT, d)
  <2>1. CASE t.RCVWND = 0
    <3>1. seg.seq = t.RCVNXT
      BY <2>1 DEF Acceptable
    <3>2. t.RCVNXT \in 0 .. (MODULUS - 1) /\ t.RCVNXT + 0 = t.RCVNXT
          /\ MODULUS \in Nat /\ MODULUS > 0
      BY <1>4, TcpNumbers DEF SequenceNumbers
    <3>3. Plus(t.RCVNXT, 0) = t.RCVNXT
      BY <3>2, ModCases DEF Plus
    <3> QED  BY <1>0, <3>1, <3>3
  <2>2. CASE t.RCVWND # 0
    <3>1. InWindow(t, seg.seq)
      BY <1>1, <2>2 DEF Acceptable, Length
    <3>2. t.RCVWND \in 1 .. WINDOW
      BY <1>4, <2>2, TcpNumbers
    <3>3. \E d \in 0 .. (WINDOW - 1) : seg.seq = Plus(t.RCVNXT, d)
      BY <1>1, <1>4, <3>1, <3>2, WindowAhead
    <3> QED  BY <3>3
  <2> QED  BY <2>1, <2>2
<1> DEFINE i == 1 + REQUEST
           j == (1 + k) + d
<1>6. i \in 0 .. (REQUEST + 1 + WINDOW) /\ j \in 0 .. (REQUEST + 1 + WINDOW)
  BY <1>0, TcpNumbers
<1>7. seg.seq = Plus(Isn[t.conn], j)
  <2>1. Isn[t.conn] \in Int /\ 1 + k \in Int /\ d \in Int
    BY <1>2, IsnIsInt, TcpNumbers
  <2>2. Plus(Plus(Isn[t.conn], 1 + k), d) = Plus(Isn[t.conn], (1 + k) + d)
    BY <2>1, PlusPlus
  <2> QED  BY <1>3, <1>5, <2>2
<1> HIDE DEF i, j
<1>8. Plus(Isn[seg.conn], i) = Plus(Isn[t.conn], j)
  BY <1>1, <1>7 DEF i
<1>9. seg.conn = t.conn /\ i = j
  BY <1>1, <1>2, <1>6, <1>7, <1>8, Apart
<1>10. k \in 0 .. REQUEST
  BY <1>9, TcpNumbers DEF i, j
<1>11. Delivered(ever, t.conn, k + 1)
  <2>1. Smaller(k + 1, REQUEST) <= Smaller(REQUEST, REQUEST)
        /\ Smaller(k + 1, REQUEST) \in Int /\ Smaller(REQUEST, REQUEST) \in Int
    BY <1>10, TcpNumbers DEF Smaller
  <2> QED  BY <1>1, <1>9, <2>1 DEF Delivered
<1> QED  BY <1>3, <1>10, <1>11 DEF MayAckNext

LEMMA ReceiveGood ==
    ASSUME NumbersApart, IInv, ServerTyped, ServerGood,
           NEW seg, IsFromPeer(seg), TextMeant(seg, app.ever),
           tcb[FindTcb(seg.peer)].state = "LISTEN" => SynMeant(seg), Receive(seg)
    PROVE  Moved
<1> DEFINE b == FindTcb(seg.peer)
           t == tcb[b]
<1>1. b \in Blocks
  BY RoomForPeer DEF IInv, IsFromPeer
<1>2. TcpInput(b, seg) /\ (t.state = "LISTEN" => SynMeant(seg))
  BY DEF Receive
<1> HIDE DEF b
<1>3. t \in Tcbs(Busy) /\ BlockGood(t, app.since[b], app.ever)
  BY <1>1, ServerStarts
<1>4. Reset(t, seg) \in SUBSET Answers /\ \A x \in Reset(t, seg) : AnswerGood(x, app.ever)
  BY <1>3, ResetTyped, ResetGood
<1>5. Strayed(b, seg) \in SUBSET Answers /\ \A x \in Strayed(b, seg) : AnswerGood(x, app.ever)
  BY <1>4 DEF Strayed
<1>6. Synchronized(b) => Ack(t) \in Answers /\ AnswerGood(Ack(t), app.ever)
  BY <1>3, AckTyped, SegmentGood DEF Synchronized
<1>7. Answer({}) => Moved
  BY AnswersGood
<1>8. CASE ListenIgnored(b, seg)
  BY <1>7, <1>8 DEF ListenIgnored
<1>9. CASE ListenAck(b, seg)
  BY <1>4, <1>9, AnswersGood DEF ListenAck
<1>10. CASE ListenSyn(b, seg)
  BY <1>1, <1>2, <1>10, ListenSynGood DEF ListenSyn
<1>11. CASE Unacceptable(b, seg)
  <2>1. Synchronized(b) /\ (Freed(b) \/ Answer({ Ack(t) }))
    BY <1>11 DEF Unacceptable
  <2>2. { Ack(t) } \in SUBSET Answers /\ \A x \in { Ack(t) } : AnswerGood(x, app.ever)
    BY <1>6, <2>1
  <2> QED  BY <1>1, <2>1, <2>2, FreedGood, AnswersGood DEF Freed
<1>12. CASE AcceptedReset(b, seg)
  BY <1>1, <1>12, FreedGood DEF AcceptedReset, Freed
<1>13. CASE SynAgain(b, seg)
  BY <1>1, <1>13, FreedGood DEF SynAgain, Freed
<1>14. CASE NoAck(b, seg)
  BY <1>5, <1>14, AnswersGood DEF NoAck
<1>15. CASE HandshakeAck(b, seg)
  BY <1>1, <1>15, HandshakeAckGood
<1>16. Proper(b, seg) => t.state # "LISTEN" /\ Acceptable(t, seg)
  BY DEF Proper, Synchronized
<1>17. Proper(b, seg) /\ NoFin /\ "FIN" \in seg.ctl => MayAckNext(t, app.ever)
  <2> HIDE DEF t
  <2> QED  BY <1>3, <1>16, FinMeant
<1>18. ASSUME NEW out \in SUBSET Answers, \A x \in out : AnswerGood(x, app.ever),
              Proper(b, seg), Becomes(Fin([Server EXCEPT !.out = out], b, seg))
       PROVE  Moved
  <2> DEFINE s == [Server EXCEPT !.out = out]
  <2>1. IsGood(s) /\ s.app = app /\ s.tcb = tcb
    BY <1>18, ServerStarts, OutSet
  <2>2. Becomes(Fin(s, b, seg))
    BY <1>18
  <2> HIDE DEF s
  <2>3. IsGood(Fin(s, b, seg))
    BY <1>1, <1>16, <1>17, <1>18, <2>1, FinGood
  <2> QED  BY <2>2, <2>3, BecomesGood
<1>19. CASE HandshakeReset(b, seg)
  BY <1>4, <1>18, <1>19 DEF HandshakeReset
<1>20. CASE AckAhead(b, seg)
  <2>1. Synchronized(b) /\ Answer(Strayed(b, seg) \cup { Ack(t) })
    BY <1>20 DEF AckAhead, Proper
  <2> DEFINE out == Strayed(b, seg) \cup { Ack(t) }
  <2>2. out \in SUBSET Answers /\ \A x \in out : AnswerGood(x, app.ever)
    BY <1>5, <1>6, <2>1
  <2> HIDE DEF out
  <2>3. Answer(out)
    BY <2>1 DEF out
  <2> QED  BY <2>2, <2>3, AnswersGood
<1>21. ASSUME Established(b, seg)
       PROVE  LET s == After(b, seg)
              IN  /\ IsGood(s) /\ s.app = app /\ s.tcb[b].state = "ESTABLISHED"
                  /\ s.tcb[b].conn = t.conn
                  /\ s.tcb[b].RCVNXT = t.RCVNXT /\ s.tcb[b].RCVWND = t.RCVWND
  BY <1>1, <1>21, AfterGood DEF Established, Proper
<1>22. CASE OutOfOrder(b, seg)
  <2> DEFINE s == After(b, seg)
  <2>1. IsGood(s) /\ s.tcb[b].state # "LISTEN"
    BY <1>21, <1>22 DEF OutOfOrder
  <2>2. Becomes([s EXCEPT !.out = @ \cup { Ack(s.tcb[b]) }])
    BY <1>22 DEF OutOfOrder
  <2> HIDE DEF s
  <2> QED  BY <1>1, <2>1, <2>2, AckGood, BecomesGood
<1>23. CASE InOrder(b, seg)
  <2> DEFINE s == After(b, seg)
  <2>1. PICK method \in Methods : Becomes(Fin(Text(s, b, seg, method), b, seg))
    BY <1>23 DEF InOrder
  <2>2. /\ IsGood(s) /\ s.tcb[b].state = "ESTABLISHED"
        /\ s.tcb[b].RCVNXT = t.RCVNXT /\ s.tcb[b].RCVWND = t.RCVWND
    BY <1>21, <1>23 DEF InOrder
  <2>3. /\ Length(seg) > 0 /\ seg.seq = t.RCVNXT /\ Acceptable(t, seg)
    BY <1>16, <1>23 DEF InOrder, Established
  <2>4. /\ seg.unit \in 1 .. REQUEST /\ "FIN" \notin seg.ctl /\ seg.conn \in Connections
        /\ seg.seq = Plus(Isn[seg.conn], seg.unit)
    <3>1. seg.unit \in 0 .. REQUEST /\ seg.unit # 0
      BY <2>3 DEF Length, IsFromPeer
    <3> QED  BY <3>1, TcpNumbers DEF TextMeant
  <2>5. t.RCVWND > 0
    <3>1. t.RCVWND \in 0 .. WINDOW
      BY <1>3 DEF Tcbs
    <3>2. t.RCVWND # 0
      BY <2>3 DEF Acceptable
    <3> QED  BY <3>1, <3>2, TcpNumbers
  <2> HIDE DEF s
  <2>6. IsGood(Text(s, b, seg, method))
    BY <1>1, <2>2, <2>3, <2>4, <2>5, TextGood
  <2>7. Fin(Text(s, b, seg, method), b, seg) = Text(s, b, seg, method)
    BY <2>4 DEF Fin
  <2> QED  BY <2>1, <2>6, <2>7, BecomesGood
<1>24. CASE NoText(b, seg)
  <2> DEFINE s == After(b, seg)
  <2>1. /\ IsGood(s) /\ s.app = app /\ s.tcb[b].state = "ESTABLISHED"
        /\ s.tcb[b].RCVNXT = t.RCVNXT /\ s.tcb[b].conn = t.conn /\ Proper(b, seg)
    BY <1>21, <1>24 DEF NoText, Established
  <2>2. Becomes(Fin(s, b, seg))
    BY <1>24 DEF NoText
  <2> HIDE DEF s, t
  <2>3. NoFin /\ "FIN" \in seg.ctl => MayAckNext(s.tcb[b], s.app.ever)
    BY <1>17, <2>1 DEF MayAckNext
  <2>4. IsGood(Fin(s, b, seg))
    BY <1>1, <2>1, <2>3, FinGood
  <2> QED  BY <2>2, <2>4, BecomesGood
<1>25. CASE LastAck(b, seg)
  BY <1>1, <1>5, <1>18, <1>25, FreedGood DEF LastAck
<1> QED
  BY <1>2, <1>8, <1>9, <1>10, <1>11, <1>12, <1>13, <1>14, <1>15, <1>19, <1>20, <1>22, <1>23,
     <1>24, <1>25 DEF TcpInput

-----------------------------------------------------------------------------
(* The peers.                                                              *)

(* What a peer sends that carries neither data nor a SYN or a FIN.         *)
LEMMA EmptyMeant ==
    ASSUME NEW seg, seg.unit = 0, "SYN" \notin seg.ctl, "FIN" \notin seg.ctl, NEW ever
    PROVE  SynMeant(seg) /\ TextMeant(seg, ever)
  BY DEF SynMeant, TextMeant

LEMMA MeantByPeer ==
    ASSUME NEW p, NEW c, c.conn \in Connections, NEW ever
    PROVE  /\ SynMeant(Syn(p, c)) /\ TextMeant(Syn(p, c), ever)
           /\ SynMeant(PeerAck(p, c)) /\ TextMeant(PeerAck(p, c), ever)
           /\ \A seq : SynMeant(PeerReset(p, seq)) /\ TextMeant(PeerReset(p, seq), ever)
           /\ \A n : SynMeant(Unit(p, c, n)) /\ TextMeant(Unit(p, c, n), ever)
           /\ (NoFin => Delivered(ever, c.conn, REQUEST)) =>
                 SynMeant(PeerFin(p, c)) /\ TextMeant(PeerFin(p, c), ever)
<1>1. SynMeant(Syn(p, c)) /\ TextMeant(Syn(p, c), ever)
  BY DEF Syn, FromPeer, SynMeant, TextMeant
<1>2. SynMeant(PeerAck(p, c)) /\ TextMeant(PeerAck(p, c), ever)
  BY EmptyMeant DEF PeerAck, FromPeer
<1>3. \A seq : SynMeant(PeerReset(p, seq)) /\ TextMeant(PeerReset(p, seq), ever)
  BY EmptyMeant DEF PeerReset, FromPeer
<1>4. \A n : SynMeant(Unit(p, c, n)) /\ TextMeant(Unit(p, c, n), ever)
  BY DEF Unit, FromPeer, SynMeant, TextMeant
<1>5. ASSUME NoFin => Delivered(ever, c.conn, REQUEST)
      PROVE  SynMeant(PeerFin(p, c)) /\ TextMeant(PeerFin(p, c), ever)
  <2> DEFINE seg == PeerFin(p, c)
  <2>1. /\ seg.unit = 0 /\ "SYN" \notin seg.ctl /\ seg.conn = c.conn
        /\ seg.seq = Plus(Plus(Isn[c.conn], 1), REQUEST)
    BY DEF PeerFin, FromPeer, First
  <2>2. Plus(Plus(Isn[c.conn], 1), REQUEST) = Plus(Isn[c.conn], 1 + REQUEST)
    <3>1. Isn[c.conn] \in Int /\ 1 \in Int /\ REQUEST \in Int
      BY IsnIsInt, TcpNumbers
    <3> QED  BY <3>1, PlusPlus
  <2> HIDE DEF seg
  <2>3. SynMeant(seg) /\ TextMeant(seg, ever)
    BY <1>5, <2>1, <2>2 DEF SynMeant, TextMeant
  <2> QED  BY <2>3 DEF seg
<1> QED  BY <1>1, <1>2, <1>3, <1>4, <1>5

LEMMA PeerBecomesGood ==
    ASSUME PeersTyped, PeersGood, NEW p \in Peers, NEW c,
           NoFin => Delivered(app.ever, c.conn, c.una),
           NEW out, \A seg \in out : SynMeant(seg) /\ TextMeant(seg, app.ever),
           PeerBecomes(p, c, out), app' = app
    PROVE  PeersGood'
<1>1. client' = [client EXCEPT ![p] = c] /\ toServer' \subseteq toServer \cup out
  BY DEF PeerBecomes
<1>2. \A q \in Peers : NoFin => Delivered(app.ever, client'[q].conn, client'[q].una)
  BY <1>1 DEF PeersTyped, PeersGood, PeersAreGood
<1>3. \A seg \in toServer' : SynMeant(seg) /\ TextMeant(seg, app.ever)
  BY <1>1 DEF PeersGood, PeersAreGood
<1>4. PeersAreGood(client', app'.ever, toServer')
  BY <1>2, <1>3 DEF PeersAreGood
<1> QED  BY <1>4, PrimeGood

LEMMA PeerSendsGood ==
    ASSUME PeersTyped, PeersGood, NEW p \in Peers, NEW c,
           c.conn = client[p].conn, c.una = client[p].una,
           NEW seg, SynMeant(seg) /\ TextMeant(seg, app.ever),
           client' = [client EXCEPT ![p] = c], toServer' = toServer \cup {seg}, app' = app
    PROVE  PeersGood'
<1>1. \A q \in Peers : NoFin => Delivered(app.ever, client'[q].conn, client'[q].una)
  BY DEF PeersTyped, PeersGood, PeersAreGood
<1>2. \A s \in toServer' : SynMeant(s) /\ TextMeant(s, app.ever)
  BY DEF PeersGood, PeersAreGood
<1>3. PeersAreGood(client', app'.ever, toServer')
  BY <1>1, <1>2 DEF PeersAreGood
<1> QED  BY <1>3, PrimeGood

LEMMA NothingDelivered ==
    ASSUME NEW ever, NEW n
    PROVE  Delivered(ever, n, 0)
  BY TcpNumbers DEF Delivered, Smaller

(* What a segment of the server acknowledges for a peer has been read.     *)
LEMMA UpdatedGood ==
    ASSUME NumbersApart, NoFin, NEW c, Connected(c), c.state # "CLOSED", NEW ever,
           Delivered(ever, c.conn, c.una),
           NEW seg \in Answers, AnswerGood(seg, ever), "RST" \notin seg.ctl
    PROVE  Updated(c, seg).conn = c.conn /\ Delivered(ever, c.conn, Updated(c, seg).una)
<1> DEFINE n == Acked(c, seg)
           d == [c EXCEPT !.una = n, !.wnd = seg.wnd]
<1>1. /\ c \in Clients /\ c.conn \in Connections
      /\ c.una \in 0 .. (REQUEST + 1) /\ c.sent \in 0 .. (REQUEST + 1)
  BY DEF Connected, Clients
<1>2. PICK m \in Connections, k \in 0 .. (REQUEST + 1) :
         seg.ack = Plus(Isn[m], 1 + k) /\ Delivered(ever, m, k)
  BY DEF AnswerGood, Acks
<1>3. ASSUME n \in c.una .. c.sent PROVE Delivered(ever, c.conn, n)
  <2>1. n \in 0 .. (REQUEST + 1)
    <3> HIDE DEF n
    <3> QED  BY <1>1, <1>3, TcpNumbers
  <2>2. First(c) \in SequenceNumbers /\ seg.ack \in SequenceNumbers
    BY <1>1, IsnIsInt, PlusType DEF First, Answers
  <2>3. seg.ack = Plus(First(c), n)
    BY <2>2, Difference DEF Acked
  <2> HIDE DEF n
  <2> DEFINE i == 1 + n
             j == 1 + k
  <2>4. seg.ack = Plus(Isn[c.conn], i)
    <3>1. Isn[c.conn] \in Int /\ 1 \in Int /\ n \in Int
      BY <1>1, <2>1, IsnIsInt
    <3>2. Plus(Plus(Isn[c.conn], 1), n) = Plus(Isn[c.conn], 1 + n)
      BY <3>1, PlusPlus
    <3> QED  BY <2>3, <3>2 DEF First
  <2>5. i \in 0 .. (REQUEST + 1 + WINDOW) /\ j \in 0 .. (REQUEST + 1 + WINDOW)
    <3>1. WINDOW >= 1
      <4>1. {WINDOW, PEER_WINDOW} \subseteq 1 .. (MODULUS \div 2 - 1)
        BY TcpAssumption
      <4> QED  BY <4>1, TcpNumbers
    <3> QED  BY <2>1, <3>1, TcpNumbers
  <2>6. seg.ack = Plus(Isn[m], j)
    BY <1>2
  <2> HIDE DEF i, j
  <2>7. c.conn = m /\ i = j
    <3>1. Plus(Isn[c.conn], i) = Plus(Isn[m], j) /\ c.conn \in Connections /\ m \in Connections
      BY <1>1, <2>4, <2>6
    <3> QED  BY <2>5, <3>1, Apart
  <2>8. n = k
    BY <2>1, <2>7 DEF i, j
  <2> QED  BY <1>2, <2>7, <2>8
<1>4. Updated(c, seg) = IF n \in c.una .. c.sent THEN d ELSE c
  BY DEF Updated
<1> HIDE DEF n
<1>5. d.conn = c.conn /\ d.una = n
  BY <1>1 DEF Clients
<1> HIDE DEF d
<1> QED  BY <1>3, <1>4, <1>5

LEMMA ArrivesGood ==
    ASSUME NumbersApart, PeersTyped, PeersGood, NEW p \in Peers, NEW seg \in toPeer,
           seg \in Answers, AnswerGood(seg, app.ever), Arrives(p, seg)
    PROVE  PeersGood'
<1> DEFINE c == client[p]
           ever == app.ever
           good(d) == NoFin => Delivered(ever, d.conn, d.una)
<1>1. Connected(c) /\ good(c)
  BY DEF PeersTyped, PeersGood, PeersAreGood
<1>2. app' = app
  BY DEF Arrives, InClosed, InSynSent, InConnection, Takes, UNCHANGED_Server
<1>3. good(Closed)
  <2>1. Closed.una = 0
    BY DEF Closed
  <2> QED  BY <2>1, NothingDelivered
<1>4. ASSUME NEW d, good(d), PeerBecomes(p, d, {}) PROVE PeersGood'
  <2> DEFINE out == {}
  <2>1. (\A x \in out : SynMeant(x) /\ TextMeant(x, app.ever)) /\ PeerBecomes(p, d, out)
    BY <1>4
  <2> HIDE DEF out
  <2>2. NoFin => Delivered(app.ever, d.conn, d.una)
    BY <1>4
  <2> QED  BY <1>2, <2>1, <2>2, PeerBecomesGood
<1>5. ASSUME NEW d, good(d), NEW s, SynMeant(s), TextMeant(s, ever), PeerBecomes(p, d, {s})
      PROVE  PeersGood'
  <2>1. \A x \in {s} : SynMeant(x) /\ TextMeant(x, app.ever)
    BY <1>5
  <2>2. NoFin => Delivered(app.ever, d.conn, d.una)
    BY <1>5
  <2> QED  BY <1>2, <1>5, <2>1, <2>2, PeerBecomesGood
<1>6. \A seq : SynMeant(PeerReset(p, seq)) /\ TextMeant(PeerReset(p, seq), ever)
  BY EmptyMeant DEF PeerReset, FromPeer
<1>7. \A d : SynMeant(PeerAck(p, d)) /\ TextMeant(PeerAck(p, d), ever)
  BY EmptyMeant DEF PeerAck, FromPeer
<1>8. CASE InClosed(p, seg)
  <2>1. PeerBecomes(p, Closed, {}) \/ PeerBecomes(p, Closed, {PeerReset(p, seg.ack)})
    BY <1>8 DEF InClosed
  <2> HIDE DEF good, ever
  <2> QED  BY <1>3, <1>4, <1>5, <1>6, <2>1
<1>9. CASE InSynSent(p, seg)
  <2> DEFINE r == Plus(seg.seq, 1)
             open == [c EXCEPT !.state = "ESTABLISHED", !.rcv = r, !.wnd = seg.wnd]
  <2>1. \/ PeerBecomes(p, c, {}) \/ PeerBecomes(p, c, {PeerReset(p, seg.ack)})
        \/ PeerBecomes(p, Closed, {}) \/ PeerBecomes(p, open, {PeerAck(p, open)})
    BY <1>9 DEF InSynSent
  <2> HIDE DEF c, r
  <2>2. open.conn = c.conn /\ open.una = c.una
    BY <1>1 DEF Connected, Clients
  <2> HIDE DEF open
  <2>3. good(open)
    BY <1>1, <2>2
  <2> HIDE DEF good, ever
  <2> QED  BY <1>1, <1>3, <1>4, <1>5, <1>6, <1>7, <2>1, <2>3
<1>10. CASE InConnection(p, seg)
  <2> DEFINE u == Updated(c, seg)
             after == Advanced(u, seg)
  <2>1. \/ PeerBecomes(p, c, {}) \/ PeerBecomes(p, Closed, {}) \/ PeerBecomes(p, c, {PeerAck(p, c)})
        \/ /\ "RST" \notin seg.ctl
           /\ PeerBecomes(p, after, {}) \/ PeerBecomes(p, after, {PeerAck(p, after)})
    BY <1>10 DEF InConnection
  <2>2. c.state # "CLOSED"
    BY <1>10 DEF InConnection
  <2> HIDE DEF c
  <2>3. "RST" \notin seg.ctl => good(u)
    BY <1>1, <2>2, UpdatedGood
  <2>4. u \in Clients
    <3> DEFINE n == Acked(c, seg)
               d == [c EXCEPT !.una = n, !.wnd = seg.wnd]
    <3>1. c \in Clients /\ seg.wnd \in 0 .. WINDOW
          /\ c.una \in 0 .. (REQUEST + 1) /\ c.sent \in 0 .. (REQUEST + 1)
      BY <1>1 DEF Connected, Clients, Answers
    <3>2. u = IF n \in c.una .. c.sent THEN d ELSE c
      BY DEF Updated
    <3> HIDE DEF n
    <3>3. n \in c.una .. c.sent => n \in 0 .. (REQUEST + 1)
      BY <3>1, TcpNumbers
    <3>4. n \in 0 .. (REQUEST + 1) => d \in Clients
      BY <3>1 DEF Clients
    <3> HIDE DEF d, u
    <3> QED  BY <3>1, <3>2, <3>3, <3>4
  <2> HIDE DEF u
  <2>5. after.conn = u.conn /\ after.una = u.una
    <3> DEFINE x == Plus(u.rcv, seg.len + 1)
               y == Plus(u.rcv, seg.len)
               d == [u EXCEPT !.rcv = x, !.state = "TIME_WAIT"]
               e == [u EXCEPT !.rcv = y]
    <3>1. after \in {u, d, e}
      BY DEF Advanced
    <3> HIDE DEF x, y, after
    <3>2. d.conn = u.conn /\ d.una = u.una /\ e.conn = u.conn /\ e.una = u.una
      BY <2>4 DEF Clients
    <3> HIDE DEF d, e
    <3> QED  BY <3>1, <3>2
  <2> HIDE DEF after
  <2>6. "RST" \notin seg.ctl => good(after)
    BY <2>3, <2>5
  <2> HIDE DEF good, ever
  <2> QED  BY <1>1, <1>3, <1>4, <1>5, <1>7, <2>1, <2>6
<1> QED  BY <1>8, <1>9, <1>10 DEF Arrives

LEMMA PeersMove ==
    ASSUME NumbersApart, ServerTyped, ServerGood, PeersTyped, PeersGood, NEW p \in Peers,
           \/ \E n \in Connections : Connect(p, n)
           \/ RepeatSyn(p)
           \/ \E n \in 1 .. REQUEST : SendUnit(p, n)
           \/ Close(p)
           \/ GiveUp(p)
           \/ \E seg \in toPeer : Arrives(p, seg)
    PROVE  ServerGood' /\ PeersGood'
<1> DEFINE c == client[p]
           ever == app.ever
           good(d) == NoFin => Delivered(ever, d.conn, d.una)
<1>1. Connected(c) /\ good(c) /\ client[p] = c
  BY DEF PeersTyped, PeersGood, PeersAreGood
<1>2. tcb' = tcb /\ app' = app /\ toPeer' \subseteq toPeer
  BY DEF Connect, RepeatSyn, SendUnit, Close, GiveUp, Arrives, InClosed, InSynSent,
         InConnection, Takes, UNCHANGED_Server
<1>3. ServerGood'
  <2>1. ServerIsGood(tcb', app', toPeer')
    BY <1>2 DEF ServerGood, ServerIsGood
  <2> QED  BY <2>1, PrimeGood
<1>4. c.state # "CLOSED" => c.conn \in Connections
  BY <1>1 DEF Connected
<1>5. ASSUME NEW n \in Connections, Connect(p, n) PROVE PeersGood'
  <2> DEFINE d == [Closed EXCEPT !.state = "SYN_SENT", !.conn = n]
  <2>1. d.conn \in Connections /\ d.una = 0
    BY DEF Closed
  <2>2. PeerBecomes(p, d, {Syn(p, d)})
    BY <1>5 DEF Connect
  <2> HIDE DEF d
  <2>3. good(d)
    BY <2>1, NothingDelivered
  <2>4. SynMeant(Syn(p, d)) /\ TextMeant(Syn(p, d), ever)
    BY <2>1, MeantByPeer
  <2> QED  BY <1>2, <2>2, <2>3, <2>4, PeerBecomesGood
<1>6. ASSUME RepeatSyn(p) PROVE PeersGood'
  <2>1. client' = [client EXCEPT ![p] = c] /\ c.state = "SYN_SENT"
        /\ toServer' = toServer \cup {Syn(p, c)}
    BY <1>6 DEF RepeatSyn, PeersTyped
  <2> HIDE DEF c
  <2>2. SynMeant(Syn(p, c)) /\ TextMeant(Syn(p, c), ever)
    BY <1>4, <2>1, MeantByPeer
  <2> QED  BY <1>1, <1>2, <2>1, <2>2, PeerSendsGood
<1>7. ASSUME NEW n \in 1 .. REQUEST, SendUnit(p, n) PROVE PeersGood'
  <2> DEFINE m == IF n > c.sent THEN n ELSE c.sent
             d == [c EXCEPT !.sent = m]
  <2>1. client' = [client EXCEPT ![p] = d] /\ c.state = "ESTABLISHED"
        /\ toServer' = toServer \cup {Unit(p, c, n)}
    BY <1>7 DEF SendUnit, PeersTyped
  <2> HIDE DEF c, m
  <2>2. d.conn = c.conn /\ d.una = c.una
    BY <1>1 DEF Connected, Clients
  <2>3. SynMeant(Unit(p, c, n)) /\ TextMeant(Unit(p, c, n), ever)
    BY <1>4, <2>1, MeantByPeer
  <2> HIDE DEF d
  <2> QED  BY <1>1, <1>2, <2>1, <2>2, <2>3, PeerSendsGood
<1>8. ASSUME Close(p) PROVE PeersGood'
  <2> DEFINE m == REQUEST + 1
             d == [c EXCEPT !.state = "FIN_WAIT", !.sent = m]
  <2>1. client' = [client EXCEPT ![p] = d] /\ c.state # "CLOSED" /\ c.una = REQUEST
        /\ toServer' = toServer \cup {PeerFin(p, c)}
    BY <1>8 DEF Close, PeersTyped
  <2> HIDE DEF c, m
  <2>2. d.conn = c.conn /\ d.una = c.una
    BY <1>1 DEF Connected, Clients
  <2>3. SynMeant(PeerFin(p, c)) /\ TextMeant(PeerFin(p, c), ever)
    BY <1>1, <1>4, <2>1, MeantByPeer
  <2> HIDE DEF d
  <2> QED  BY <1>1, <1>2, <2>1, <2>2, <2>3, PeerSendsGood
<1>9. ASSUME GiveUp(p) PROVE PeersGood'
  <2>1. good(Closed)
    <3>1. Closed.una = 0
      BY DEF Closed
    <3> QED  BY <3>1, NothingDelivered
  <2>2. \A seq : SynMeant(PeerReset(p, seq)) /\ TextMeant(PeerReset(p, seq), ever)
    BY EmptyMeant DEF PeerReset, FromPeer
  <2>3. \/ PeerBecomes(p, Closed, {})
        \/ PeerBecomes(p, Closed, {PeerReset(p, Plus(First(c), c.sent))})
    BY <1>9 DEF GiveUp
  <2> HIDE DEF c
  <2> QED  BY <1>2, <2>1, <2>2, <2>3, PeerBecomesGood
<1>10. ASSUME NEW seg \in toPeer, Arrives(p, seg) PROVE PeersGood'
  <2>1. seg \in Answers /\ AnswerGood(seg, app.ever)
    BY DEF ServerTyped, ServerGood, ServerIsGood
  <2> QED  BY <1>10, <2>1, ArrivesGood
<1> QED  BY <1>3, <1>5, <1>6, <1>7, <1>8, <1>9, <1>10

(* The data of the server and of the peers agree. *)
DInv == TInv /\ ServerGood /\ PeersGood

LEMMA InitDInv == Init => DInv
<1> SUFFICES ASSUME Init PROVE DInv
  OBVIOUS
<1>1. TInv
  BY InitTInv
<1>2. app = [since |-> [b \in Blocks |-> <<>>], ever |-> {}] /\ toPeer = {} /\ toServer = {}
      /\ tcb \in [Blocks -> {Listening(iss) : iss \in Clock}]
      /\ client = [p \in Peers |-> Closed]
  BY DEF Init, TcpInit
<1>3. \A b \in Blocks : tcb[b].state = "LISTEN" /\ tcb[b].WND = 0
  BY <1>2 DEF Listening
<1>4. /\ app.since = [b \in Blocks |-> <<>>] /\ IsApp(app)
  BY <1>2 DEF IsApp
<1>5. ServerGood
  <2>1. ASSUME NEW b \in Blocks PROVE BlockGood(tcb[b], app.since[b], app.ever)
    <3>1. app.since[b] = <<>> /\ tcb[b].state = "LISTEN" /\ tcb[b].WND = 0
      BY <1>3, <1>4
    <3> QED  BY <3>1 DEF BlockGood, Data
  <2> QED  BY <1>2, <1>4, <2>1 DEF ServerGood, ServerIsGood
<1>6. PeersGood
  <2>1. \A p \in Peers : client[p].una = 0
    BY <1>2 DEF Closed
  <2> QED  BY <1>2, <2>1, NothingDelivered DEF PeersGood, PeersAreGood
<1> QED  BY <1>1, <1>5, <1>6 DEF DInv

LEMMA NextDInv == NumbersApart /\ DInv /\ [Next]_vars => DInv'
<1> SUFFICES ASSUME NumbersApart, DInv, [Next]_vars PROVE DInv'
  OBVIOUS
<1>1. TInv' /\ TInv /\ ServerGood /\ PeersGood
  BY NextTInv DEF DInv
<1>2. CASE UNCHANGED vars
  <2>1. ServerIsGood(tcb', app', toPeer') /\ PeersAreGood(client', app'.ever, toServer')
    BY <1>1, <1>2 DEF vars, ServerGood, PeersGood
  <2> QED  BY <1>1, <2>1, PrimeGood DEF DInv
<1>3. ASSUME NEW seg \in Arriving, ServerReceives(seg) PROVE ServerGood' /\ PeersGood'
  <2>1. IsFromPeer(seg)
    <3>1. ASSUME seg \in Strays PROVE IsFromPeer(seg)
      BY <3>1, PeersAssumption, TcpNumbers DEF IsFromPeer
    <3> QED  BY <1>1, <3>1 DEF Arriving, TInv, PeersTyped
  <2>2. TextMeant(seg, app.ever) /\ (tcb[FindTcb(seg.peer)].state = "LISTEN" => SynMeant(seg))
    <3>1. CASE seg \in toServer
      BY <1>1, <3>1 DEF PeersGood, PeersAreGood
    <3>2. CASE seg \notin toServer
      <4>1. seg \in Strays /\ Synchronized(FindTcb(seg.peer))
        BY <3>2 DEF Arriving
      <4>2. seg.unit = 0 /\ (NoFin => "FIN" \notin seg.ctl)
        BY <4>1, PeersAssumption DEF NoFin
      <4> QED  BY <4>1, <4>2 DEF TextMeant, Synchronized
    <3> QED  BY <3>1, <3>2
  <2>3. Moved
    BY <1>1, <1>3, <2>1, <2>2, ReceiveGood DEF TInv, ServerReceives
  <2>4. client' = client /\ toServer' = toServer \ {seg}
    BY <1>3 DEF ServerReceives, Receive
  <2>5. PeersAreGood(client', app'.ever, toServer')
    <3>1. app.ever \subseteq app'.ever
      BY <2>3 DEF Moved
    <3>2. \A n, k : Delivered(app.ever, n, k) => Delivered(app'.ever, n, k)
      BY <3>1, MoreEver
    <3> QED  BY <1>1, <2>4, <3>2 DEF PeersGood, PeersAreGood, TextMeant
  <2> QED  BY <2>3, <2>5, PrimeGood DEF Moved
<1> QED  BY <1>1, <1>2, <1>3, PeersMove DEF Next, TInv, DInv

(* The call-back gets the data of each connection whole, in order and once *)
(* since the SYN that began it, whatever is lost, repeated or overtaken,   *)
(* and with any stray on the way (net/core/tcp.cpp, the case of the text   *)
(* in tcp_input).                                                          *)
THEOREM DataIsPrefix ==
    ASSUME NumbersApart
    PROVE  Spec => []PrefixReceived
<1>1. DInv => PrefixReceived
  <2> SUFFICES ASSUME DInv, NEW b \in Blocks, NEW i \in DOMAIN app.since[b]
               PROVE  app.since[b][i] = [conn |-> tcb[b].conn, unit |-> i]
    BY DEF PrefixReceived
  <2>1. BlockGood(tcb[b], app.since[b], app.ever)
    BY DEF DInv, ServerGood, ServerIsGood
  <2>2. i \in 1 .. Len(app.since[b])
    <3>1. app.since[b] \in Seq(Data)
      BY <2>1 DEF BlockGood
    <3> QED  BY <3>1
  <2> QED  BY <2>1, <2>2 DEF BlockGood
<1>2. DInv /\ [Next]_vars => DInv'
  BY NextDInv
<1> QED  BY InitDInv, <1>1, <1>2, PTL DEF Spec

(* What the server acknowledges it has given to the call-back, as long as  *)
(* no stray carries a FIN: tcp_input counts a FIN in whatever acceptable   *)
(* segment it comes (net/core/tcp.cpp, the check of the FIN bit).          *)
THEOREM AcknowledgedIsRead ==
    ASSUME NumbersApart, NoFin
    PROVE  Spec => []AckedIsDelivered
<1>1. DInv => AckedIsDelivered
  BY DEF DInv, PeersGood, PeersAreGood, Delivered, AckedIsDelivered
<1>2. DInv /\ [Next]_vars => DInv'
  BY NextDInv
<1> QED  BY InitDInv, <1>1, <1>2, PTL DEF Spec
=============================================================================
