-------------------------- MODULE E131BridgeProofs ---------------------------
(***************************************************************************)
(* Theorems about E131Bridge, for any number of ports, sources, packets    *)
(* and slots.                                                              *)
(***************************************************************************)
EXTENDS E131Bridge, LightSetProofs

PortType == [A : SourceType, B : SourceType, isMerging : BOOLEAN,
             isTransmitting : BOOLEAN, isDataPending : BOOLEAN]

Announced == {0} \cup { pkt.sync : pkt \in Packets }

StateType ==
    [priority : Priorities \cup {LOWEST}, isMergeMode : BOOLEAN, isNetworkDataLoss : BOOLEAN,
     isSynchronized : BOOLEAN, isForcedSynchronized : BOOLEAN,
     syncA : Announced, syncB : Announced]

LoopStates ==
    [port : [Ports -> PortType], data : [Ports -> PortData], dmx : [Ports -> DmxPort],
     st : StateType]

LEMMA ConstantsAre ==
    /\ MAX_PORTS \in Nat /\ MAX_PORTS \in 0 .. MAX_PORTS
    /\ Ports = 0 .. MAX_PORTS - 1
    /\ \A n \in 1 .. MAX_PORTS : n - 1 \in Ports /\ n - 1 \in 0 .. MAX_PORTS /\ (n - 1) + 1 = n
    /\ \A p \in Ports : p + 1 \in 0 .. MAX_PORTS
    /\ OldAge \in Nat /\ 0 \in 0 .. OldAge
    /\ 0 \in 0 .. SEQUENCE - 1
    /\ DATA_LOSS_TIMEOUT \in Nat
<1>1. SEQUENCE \in Nat /\ WINDOW \in 1 .. SEQUENCE \div 2
  BY BridgeAssumption
<1>2. SEQUENCE # 0
  BY <1>1
<1>3. 0 \in 0 .. SEQUENCE - 1
  BY <1>1, <1>2
<1>4. OldAge \in Nat
  BY BridgeAssumption DEF OldAge
<1> QED  BY <1>3, <1>4, BridgeAssumption DEF Ports

LEMMA PacketIs ==
    ASSUME NEW pkt \in Packets
    PROVE  /\ pkt.from \in Senders /\ pkt.from # None
           /\ pkt.seq \in 0 .. SEQUENCE - 1
           /\ pkt.priority \in Priorities /\ pkt.priority \in Nat
           /\ pkt.kind \in {"data", "preview", "terminated"}
           /\ pkt.force \in BOOLEAN /\ pkt.sync \in Announced
           /\ pkt.frame \in Frame
<1>1. pkt \in Packet
  BY BridgeAssumption
<1>2. pkt.from \in Senders /\ pkt.from # None
  BY <1>1, BridgeAssumption DEF Packet
<1> QED  BY <1>1, <1>2 DEF Packet, Priorities, Announced

LEMMA PriorityIs == \A n \in Priorities \cup {LOWEST} : n \in Nat
  BY PacketIs DEF Priorities, LOWEST

-----------------------------------------------------------------------------
(* Sources that go.                                                        *)

LEMMA LiveIs ==
    ASSUME NEW o
    PROVE  /\ Live(o) = Sides <=> o.A.sender # None /\ o.B.sender # None
           /\ Live(o) = {} <=> o.A.sender = None /\ o.B.sender = None
  BY DEF Live, Sides

LEMMA DropIs ==
    ASSUME NEW source \in SourceType
    PROVE  /\ Drop(source) \in SourceType /\ Drop(source).sender = None
           /\ Drop(source).age = source.age
  BY ConstantsAre DEF Drop, SourceType

(* A source is the same or is gone; when it is gone there was a reason. *)
MayGo(old, new, reason) ==
    new.sender = old.sender \/ (new.sender = None /\ reason)

(* A port whose sources went, if they did, for being stale or for another  *)
(* reason.                                                                 *)
Thinned(old, new, reason) ==
    /\ new \in PortType
    /\ MayGo(old.A, new.A, Stale(old.A) \/ reason)
    /\ MayGo(old.B, new.B, Stale(old.B) \/ reason)

LEMMA ThinnedLive ==
    ASSUME NEW o, NEW n, NEW reason, Thinned(o, n, reason)
    PROVE  Live(n) = Sides => Live(o) = Sides /\ n.A.sender = o.A.sender /\ n.B.sender = o.B.sender
  BY LiveIs DEF Thinned, MayGo

(* What only ages, numbers and bits may change. *)
SameSenders(old, new) == new.A.sender = old.A.sender /\ new.B.sender = old.B.sender
SameBits(old, new) ==
    new.isTransmitting = old.isTransmitting /\ new.isDataPending = old.isDataPending

LEMMA CheckPortIs ==
    ASSUME NEW o \in PortType
    PROVE  /\ Thinned(o, CheckPort(o), FALSE) /\ SameBits(o, CheckPort(o))
           /\ CheckPort(o).A.age = o.A.age /\ CheckPort(o).B.age = o.B.age
<1> DEFINE a == IF Stale(o.A) THEN Drop(o.A) ELSE o.A
           b == IF Stale(o.B) THEN Drop(o.B) ELSE o.B
           m == o.isMerging /\ ~Stale(o.A) /\ ~Stale(o.B)
           n == CheckPort(o)
<1>1. o.A \in SourceType /\ o.B \in SourceType /\ o.isMerging \in BOOLEAN
  BY DEF PortType
<1>2. /\ a \in SourceType /\ MayGo(o.A, a, Stale(o.A))
      /\ b \in SourceType /\ MayGo(o.B, b, Stale(o.B))
  BY <1>1, DropIs DEF MayGo
<1>7. a.age = o.A.age /\ b.age = o.B.age
  BY <1>1, DropIs
<1>3. m \in BOOLEAN
  BY <1>1
<1>4. n = [o EXCEPT !.A = a, !.B = b, !.isMerging = m]
  BY DEF CheckPort, PortType
<1> HIDE DEF a, b, m, n
<1>5. /\ n \in PortType /\ n.A = a /\ n.B = b
      /\ n.isTransmitting = o.isTransmitting /\ n.isDataPending = o.isDataPending
  BY <1>2, <1>3, <1>4 DEF PortType
<1>6. Thinned(o, n, FALSE) /\ SameBits(o, n)
  BY <1>2, <1>5 DEF Thinned, MayGo, SameBits
<1> QED  BY <1>5, <1>6, <1>7 DEF n

LEMMA UncheckedIs ==
    ASSUME NEW o \in PortType, NEW reason
    PROVE  Thinned(o, o, reason) /\ SameBits(o, o)
  BY DEF Thinned, MayGo, SameBits

(* Both sources are dropped, as the port's bits may change. *)
LEMMA DroppedIs ==
    ASSUME NEW o \in PortType
    PROVE  LET n == [o EXCEPT !.A = Drop(@), !.B = Drop(@)]
               f == [o EXCEPT !.A = Drop(@), !.B = Drop(@),
                              !.isTransmitting = FALSE, !.isMerging = FALSE]
           IN  /\ Thinned(o, n, TRUE) /\ SameBits(o, n)
               /\ Thinned(o, f, TRUE) /\ ~f.isTransmitting
<1> DEFINE a == Drop(o.A)
           b == Drop(o.B)
           n == [o EXCEPT !.A = a, !.B = b]
           f == [o EXCEPT !.A = a, !.B = b, !.isTransmitting = FALSE, !.isMerging = FALSE]
<1>1. /\ a \in SourceType /\ a.sender = None /\ b \in SourceType /\ b.sender = None
  BY DropIs DEF PortType
<1> HIDE DEF a, b
<1>2. /\ n \in PortType /\ n.A = a /\ n.B = b
      /\ n.isTransmitting = o.isTransmitting /\ n.isDataPending = o.isDataPending
  BY <1>1 DEF PortType
<1>3. f \in PortType /\ f.A = a /\ f.B = b /\ f.isTransmitting = FALSE
  BY <1>1 DEF PortType
<1> HIDE DEF n, f
<1>4. /\ Thinned(o, n, TRUE) /\ SameBits(o, n)
      /\ Thinned(o, f, TRUE) /\ ~f.isTransmitting
  BY <1>1, <1>2, <1>3 DEF Thinned, MayGo, SameBits
<1> QED  BY <1>4 DEF n, f, a, b

(* The end of the stream of place x. *)
Stopped(o, x, on) ==
    [o EXCEPT ![x] = Drop(@), !.isMerging = @ /\ o[x].sender = None, !.isTransmitting = on]

LEMMA StoppedIs ==
    ASSUME NEW o \in PortType, NEW x \in Sides, NEW on \in BOOLEAN
    PROVE  LET n == Stopped(o, x, on)
           IN  Thinned(o, n, TRUE) /\ n.isTransmitting = on
<1> DEFINE d == Drop(o[x])
           m == o.isMerging /\ o[x].sender = None
           n == Stopped(o, x, on)
<1>1. o[x] \in SourceType /\ o.isMerging \in BOOLEAN
  BY DEF PortType, Sides
<1>2. d \in SourceType /\ d.sender = None /\ m \in BOOLEAN
  BY <1>1, DropIs
<1>3. CASE x = "A"
  <2>1. n = [o EXCEPT !.A = d, !.isMerging = m, !.isTransmitting = on]
    BY <1>3 DEF Stopped, PortType
  <2> HIDE DEF d, m, n
  <2>2. n \in PortType /\ n.A = d /\ n.B = o.B /\ n.isTransmitting = on
    BY <1>2, <2>1 DEF PortType
  <2> QED  BY <1>2, <2>2 DEF Thinned, MayGo, n
<1>4. CASE x = "B"
  <2>1. n = [o EXCEPT !.B = d, !.isMerging = m, !.isTransmitting = on]
    BY <1>4 DEF Stopped, PortType
  <2> HIDE DEF d, m, n
  <2>2. n \in PortType /\ n.B = d /\ n.A = o.A /\ n.isTransmitting = on
    BY <1>2, <2>1 DEF PortType
  <2> QED  BY <1>2, <2>2 DEF Thinned, MayGo, n
<1> QED  BY <1>3, <1>4 DEF Sides

-----------------------------------------------------------------------------
(* What a turn of the loop does.                                           *)

Elsewhere(s, r, p) ==
    \A q \in Ports : q # p => r.port[q] = s.port[q] /\ r.data[q] = s.data[q] /\ r.dmx[q] = s.dmx[q]

(* All of the state but the merge mode. *)
SameState(s, r) ==
    /\ r.st.priority = s.st.priority
    /\ r.st.isSynchronized = s.st.isSynchronized
    /\ r.st.isForcedSynchronized = s.st.isForcedSynchronized

(* Nothing is sent, and sources may go for being stale. *)
Quiet(s, r, p) ==
    /\ r \in LoopStates /\ Elsewhere(s, r, p) /\ SameState(s, r)
    /\ r.data[p] = s.data[p] /\ r.dmx[p] = s.dmx[p]
    /\ Thinned(s.port[p], r.port[p], FALSE) /\ SameBits(s.port[p], r.port[p])
    /\ r.port[p].A.age = s.port[p].A.age /\ r.port[p].B.age = s.port[p].B.age

LEMMA QuietItself == \A s \in LoopStates, p \in Ports : Quiet(s, s, p)
<1> SUFFICES ASSUME NEW s \in LoopStates, NEW p \in Ports PROVE Quiet(s, s, p)
  OBVIOUS
<1>1. s.port[p] \in PortType
  BY DEF LoopStates
<1> QED  BY <1>1, UncheckedIs DEF Quiet, Elsewhere, SameState

LEMMA TimeoutsAre ==
    ASSUME NEW s \in LoopStates, NEW p \in Ports
    PROVE  Quiet(s, CheckMergeTimeouts(s, p), p)
<1> DEFINE n == CheckPort(s.port[p])
           checked == [s.port EXCEPT ![p] = n]
           merging == \E q \in Ports : checked[q].isMerging
           state == [s.st EXCEPT !.isMergeMode = merging]
           c == CheckMergeTimeouts(s, p)
<1>1. s.port \in [Ports -> PortType] /\ s.port[p] \in PortType /\ s.st \in StateType
  BY DEF LoopStates
<1>2. /\ Thinned(s.port[p], n, FALSE) /\ SameBits(s.port[p], n) /\ n \in PortType
      /\ n.A.age = s.port[p].A.age /\ n.B.age = s.port[p].B.age
  BY <1>1, CheckPortIs DEF Thinned
<1> HIDE DEF n
<1>3. checked \in [Ports -> PortType] /\ checked[p] = n
      /\ \A q \in Ports : q # p => checked[q] = s.port[q]
  BY <1>1, <1>2
<1> HIDE DEF checked
<1>4. merging \in BOOLEAN
  OBVIOUS
<1> HIDE DEF merging
<1>5. /\ state \in StateType /\ state.priority = s.st.priority
      /\ state.isSynchronized = s.st.isSynchronized
      /\ state.isForcedSynchronized = s.st.isForcedSynchronized
  BY <1>1, <1>4 DEF StateType
<1> HIDE DEF state
<1>6. CASE s.st.isMergeMode /\ ~DisableMergeTimeout
  <2>1. c = [s EXCEPT !.port = checked, !.st = state]
    BY <1>1, <1>6 DEF CheckMergeTimeouts, checked, n, state, merging, LoopStates
  <2>2. c \in LoopStates /\ c.port = checked /\ c.data = s.data /\ c.dmx = s.dmx /\ c.st = state
    BY <1>3, <1>5, <2>1 DEF LoopStates
  <2> HIDE DEF c
  <2>3. Quiet(s, c, p)
    BY <1>2, <1>3, <1>5, <2>2 DEF Quiet, Elsewhere, SameState
  <2> QED  BY <2>3 DEF c
<1>7. CASE ~(s.st.isMergeMode /\ ~DisableMergeTimeout)
  <2>1. c = s
    BY <1>7 DEF CheckMergeTimeouts
  <2> QED  BY <2>1, QuietItself
<1> QED  BY <1>6, <1>7

(* The number of the packet is noted at the place of its source. *)
Noted(s, p, x, seq) == [s EXCEPT !.port[p][x].seq = seq]

LEMMA NotedIs ==
    ASSUME NEW s \in LoopStates, NEW p \in Ports, NEW x \in Sides, NEW seq \in 0 .. SEQUENCE - 1
    PROVE  /\ Quiet(s, Noted(s, p, x, seq), p)
           /\ SameSenders(s.port[p], Noted(s, p, x, seq).port[p])
<1> DEFINE o == s.port[p]
           source == [o[x] EXCEPT !.seq = seq]
           n == [o EXCEPT ![x] = source]
           ports == [s.port EXCEPT ![p] = n]
           r == Noted(s, p, x, seq)
<1>1. s.port \in [Ports -> PortType] /\ o \in PortType /\ o[x] \in SourceType
  BY DEF LoopStates, PortType, Sides
<1>2. source \in SourceType /\ source.sender = o[x].sender /\ source.age = o[x].age
  BY <1>1 DEF SourceType
<1>3. r = [s EXCEPT !.port = ports]
  BY <1>1 DEF Noted, LoopStates, PortType, Sides
<1> HIDE DEF source
<1>4. /\ n \in PortType /\ SameSenders(o, n) /\ SameBits(o, n)
      /\ n.A.age = o.A.age /\ n.B.age = o.B.age
  <2>1. CASE x = "A"
    <3>1. n \in PortType /\ n.A = source /\ n.B = o.B /\ SameBits(o, n)
      BY <1>1, <1>2, <2>1 DEF PortType, SameBits
    <3> QED  BY <1>2, <2>1, <3>1 DEF SameSenders
  <2>2. CASE x = "B"
    <3>1. n \in PortType /\ n.B = source /\ n.A = o.A /\ SameBits(o, n)
      BY <1>1, <1>2, <2>2 DEF PortType, SameBits
    <3> QED  BY <1>2, <2>2, <3>1 DEF SameSenders
  <2> QED  BY <2>1, <2>2 DEF Sides
<1> HIDE DEF n
<1>5. ports \in [Ports -> PortType] /\ ports[p] = n /\ \A q \in Ports : q # p => ports[q] = s.port[q]
  BY <1>1, <1>4
<1> HIDE DEF ports
<1>6. r \in LoopStates /\ r.port = ports /\ r.data = s.data /\ r.dmx = s.dmx /\ r.st = s.st
  BY <1>3, <1>5 DEF LoopStates
<1> HIDE DEF r
<1>7. Quiet(s, r, p) /\ SameSenders(s.port[p], r.port[p])
  BY <1>4, <1>5, <1>6 DEF Quiet, Elsewhere, SameState, Thinned, MayGo, SameSenders
<1> QED  BY <1>7 DEF r

(* A stream, or all data, has ended: some ports lose sources, and stop.    *)
Ended(s, r) ==
    /\ r \in LoopStates
    /\ \A q \in Ports :
          /\ Thinned(s.port[q], r.port[q], TRUE)
          /\ r.port[q].isTransmitting => s.port[q].isTransmitting
          /\ r.data[q] = s.data[q] \/ r.data[q].length = 0
    /\ SameState(s, r) \/ (~r.st.isSynchronized /\ ~r.st.isForcedSynchronized)
    /\ \/ r.dmx = s.dmx
       \/ ~r.st.isSynchronized
       \/ \E q \in Ports : s.port[q].isTransmitting /\ ~r.port[q].isTransmitting

LEMMA FailSafeIs ==
    ASSUME NEW m \in DmxPort
    PROVE  FailSafeDmx(m) \in DmxPort
<1>1. 0 \in Level /\ LEVELS \in Level
  BY LightSetAssumption DEF Level
<1>2. FillLine(m, 0) \in DmxPort /\ FillLine(m, LEVELS) \in DmxPort
  BY <1>1, NoDataIs, LineIs
<1> QED  BY <1>2, BridgeAssumption DEF FailSafeDmx

LEMMA LostAllIs ==
    ASSUME NEW s \in LoopStates
    PROVE  Ended(s, LostAll(s)) /\ LostAll(s).st.isNetworkDataLoss
                                /\ ~LostAll(s).st.isSynchronized
                                /\ ~LostAll(s).st.isForcedSynchronized
<1> DEFINE hit == { p \in Ports : s.port[p].isTransmitting }
           Off(o) == [o EXCEPT !.A = Drop(@), !.B = Drop(@),
                               !.isTransmitting = FALSE, !.isMerging = FALSE]
           ports == [p \in Ports |-> IF p \in hit THEN Off(s.port[p]) ELSE s.port[p]]
           datas == [p \in Ports |-> IF p \in hit THEN ClearLength(s.data[p]) ELSE s.data[p]]
           lines == [p \in Ports |-> IF hit # {} THEN FailSafeDmx(s.dmx[p]) ELSE s.dmx[p]]
           state == [s.st EXCEPT !.isNetworkDataLoss = TRUE, !.isMergeMode = FALSE,
                                 !.isSynchronized = FALSE, !.isForcedSynchronized = FALSE,
                                 !.priority = LOWEST]
           r == LostAll(s)
<1>1. \A q \in Ports : s.port[q] \in PortType /\ s.data[q] \in PortData /\ s.dmx[q] \in DmxPort
  BY DEF LoopStates
<1>2. \A q \in Ports : Thinned(s.port[q], Off(s.port[q]), TRUE) /\ ~Off(s.port[q]).isTransmitting
  BY <1>1, DroppedIs
<1>3. \A q \in Ports : Thinned(s.port[q], s.port[q], TRUE)
  BY <1>1, UncheckedIs
<1> HIDE DEF Off
<1>4. \A q \in Ports : ports[q] \in PortType /\ Thinned(s.port[q], ports[q], TRUE)
                       /\ (ports[q].isTransmitting => s.port[q].isTransmitting)
  BY <1>1, <1>2, <1>3 DEF Thinned
<1>5. \A q \in Ports : datas[q] \in PortData /\ (datas[q] = s.data[q] \/ datas[q].length = 0)
  BY <1>1, ClearIs
<1>6. \A q \in Ports : lines[q] \in DmxPort
  BY <1>1, FailSafeIs
<1>7. /\ ports \in [Ports -> PortType] /\ datas \in [Ports -> PortData]
      /\ lines \in [Ports -> DmxPort]
  BY <1>4, <1>5, <1>6
<1>8. /\ state \in StateType /\ state.isNetworkDataLoss
      /\ ~state.isSynchronized /\ ~state.isForcedSynchronized
  BY DEF LoopStates, StateType
<1>9. r = [port |-> ports, data |-> datas, dmx |-> lines, st |-> state]
  BY DEF LostAll, Off
<1> HIDE DEF ports, datas, lines, state
<1>10. r \in LoopStates /\ r.port = ports /\ r.data = datas /\ r.dmx = lines /\ r.st = state
  BY <1>7, <1>8, <1>9 DEF LoopStates
<1> HIDE DEF r
<1>11. Ended(s, r)
  BY <1>4, <1>5, <1>8, <1>10 DEF Ended
<1> QED  BY <1>8, <1>10, <1>11 DEF r

LEMMA LostOneIs ==
    ASSUME NEW s \in LoopStates, NEW x \in Sides
    PROVE  Ended(s, LostOne(s, x))
<1> DEFINE hit == { p \in Ports : s.port[p].isTransmitting }
           stop == IF s.st.isMergeMode THEN {} ELSE hit
           ports == [p \in Ports |-> IF p \notin hit THEN s.port[p]
                                     ELSE Stopped(s.port[p], x, p \notin stop)]
           datas == [p \in Ports |-> IF p \in stop THEN ClearLength(s.data[p]) ELSE s.data[p]]
           lines == [p \in Ports |-> IF stop # {} THEN FailSafeDmx(s.dmx[p]) ELSE s.dmx[p]]
           r == LostOne(s, x)
<1>1. \A q \in Ports : s.port[q] \in PortType /\ s.data[q] \in PortData /\ s.dmx[q] \in DmxPort
  BY DEF LoopStates
<1>2. \A q \in Ports : /\ Thinned(s.port[q], Stopped(s.port[q], x, q \notin stop), TRUE)
                       /\ Stopped(s.port[q], x, q \notin stop).isTransmitting = (q \notin stop)
  <2> SUFFICES ASSUME NEW q \in Ports
               PROVE  /\ Thinned(s.port[q], Stopped(s.port[q], x, q \notin stop), TRUE)
                      /\ Stopped(s.port[q], x, q \notin stop).isTransmitting = (q \notin stop)
    OBVIOUS
  <2>1. (q \notin stop) \in BOOLEAN
    OBVIOUS
  <2> HIDE DEF stop
  <2> QED  BY <1>1, <2>1, StoppedIs
<1>3. \A q \in Ports : Thinned(s.port[q], s.port[q], TRUE)
  BY <1>1, UncheckedIs
<1>4. \A q \in Ports : /\ ports[q] \in PortType /\ Thinned(s.port[q], ports[q], TRUE)
                       /\ ports[q].isTransmitting => s.port[q].isTransmitting
                       /\ q \in stop => s.port[q].isTransmitting /\ ~ports[q].isTransmitting
  <2>1. \A q \in Ports : q \in hit <=> s.port[q].isTransmitting
    OBVIOUS
  <2>2. \A q \in Ports : q \in stop => q \in hit
    OBVIOUS
  <2> HIDE DEF stop, hit
  <2>3. \A q \in Ports : q \notin hit => ports[q] = s.port[q]
    OBVIOUS
  <2>4. \A q \in Ports : q \in hit => ports[q] = Stopped(s.port[q], x, q \notin stop)
    OBVIOUS
  <2> HIDE DEF ports
  <2> QED  BY <1>1, <1>2, <1>3, <2>1, <2>2, <2>3, <2>4 DEF Thinned
<1>5. \A q \in Ports : datas[q] \in PortData /\ (datas[q] = s.data[q] \/ datas[q].length = 0)
  BY <1>1, ClearIs
<1>6. \A q \in Ports : lines[q] \in DmxPort
  BY <1>1, FailSafeIs
<1>7. /\ ports \in [Ports -> PortType] /\ datas \in [Ports -> PortData]
      /\ lines \in [Ports -> DmxPort]
  BY <1>4, <1>5, <1>6
<1>8. stop = {} => lines = s.dmx
  BY DEF LoopStates
<1>9. stop \subseteq Ports
  OBVIOUS
<1>10. r = [s EXCEPT !.port = ports, !.data = datas, !.dmx = lines]
  BY DEF LostOne, Stopped
<1> HIDE DEF ports, datas, lines, stop
<1>11. r \in LoopStates /\ r.port = ports /\ r.data = datas /\ r.dmx = lines /\ r.st = s.st
  BY <1>7, <1>10 DEF LoopStates
<1> HIDE DEF r
<1>12. Ended(s, r)
  BY <1>4, <1>5, <1>8, <1>9, <1>11 DEF Ended, SameState
<1> QED  BY <1>12 DEF r

LEMMA TerminatedIs ==
    ASSUME NEW s \in LoopStates, NEW lost \in SUBSET Sides, lost # {}
    PROVE  Ended(s, Terminated(s, lost))
<1>1. (CHOOSE x \in lost : TRUE) \in Sides
  OBVIOUS
<1> QED  BY <1>1, LostAllIs, LostOneIs DEF Terminated

-----------------------------------------------------------------------------
(* A packet that counts. *)

(* A priority that rises drops both sources of the port. *)
Ranked(s, r, p, pkt) ==
    /\ r \in LoopStates /\ Elsewhere(s, r, p)
    /\ r.data[p] = s.data[p] /\ r.dmx[p] = s.dmx[p]
    /\ Thinned(s.port[p], r.port[p], pkt.priority > s.st.priority)
    /\ r.st.priority = pkt.priority
    /\ r.st.isSynchronized = s.st.isSynchronized
    /\ r.st.isForcedSynchronized = s.st.isForcedSynchronized

LEMMA PriorityIsSet ==
    ASSUME NEW s \in LoopStates, NEW p \in Ports, NEW pkt \in Packets
    PROVE  Ranked(s, Priority(s, p, pkt), p, pkt)
<1> DEFINE o == s.port[p]
           n == [o EXCEPT !.A = Drop(@), !.B = Drop(@)]
           ports == [s.port EXCEPT ![p] = n]
           higher == [s.st EXCEPT !.isMergeMode = FALSE, !.priority = pkt.priority]
           same == [s.st EXCEPT !.priority = pkt.priority]
           r == Priority(s, p, pkt)
<1>1. s.port \in [Ports -> PortType] /\ o \in PortType /\ s.st \in StateType
  BY DEF LoopStates
<1>2. pkt.priority \in Priorities
  BY PacketIs
<1>3. CASE pkt.priority > s.st.priority
  <2>1. Thinned(o, n, TRUE) /\ n \in PortType
    BY <1>1, DroppedIs DEF Thinned
  <2>2. r = [s EXCEPT !.port = ports, !.st = higher]
    BY <1>1, <1>3 DEF Priority, LoopStates, PortType
  <2> HIDE DEF n
  <2>3. ports \in [Ports -> PortType] /\ ports[p] = n /\ \A q \in Ports : q # p => ports[q] = s.port[q]
    BY <1>1, <2>1
  <2>4. /\ higher \in StateType /\ higher.priority = pkt.priority
        /\ higher.isSynchronized = s.st.isSynchronized
        /\ higher.isForcedSynchronized = s.st.isForcedSynchronized
    BY <1>1, <1>2 DEF StateType
  <2> HIDE DEF ports, higher
  <2>5. r \in LoopStates /\ r.port = ports /\ r.data = s.data /\ r.dmx = s.dmx /\ r.st = higher
    BY <2>2, <2>3, <2>4 DEF LoopStates
  <2> HIDE DEF r
  <2>6. Thinned(o, n, pkt.priority > s.st.priority)
    BY <1>3, <2>1 DEF Thinned, MayGo
  <2>7. Ranked(s, r, p, pkt)
    BY <2>3, <2>4, <2>5, <2>6 DEF Ranked, Elsewhere
  <2> QED  BY <2>7 DEF r
<1>4. CASE ~(pkt.priority > s.st.priority)
  <2>1. r = [s EXCEPT !.st = same]
    BY <1>1, <1>4 DEF Priority, LoopStates
  <2>2. /\ same \in StateType /\ same.priority = pkt.priority
        /\ same.isSynchronized = s.st.isSynchronized
        /\ same.isForcedSynchronized = s.st.isForcedSynchronized
    BY <1>1, <1>2 DEF StateType
  <2> HIDE DEF same
  <2>3. r \in LoopStates /\ r.port = s.port /\ r.data = s.data /\ r.dmx = s.dmx /\ r.st = same
    BY <2>1, <2>2 DEF LoopStates
  <2> HIDE DEF r
  <2>4. Thinned(o, o, pkt.priority > s.st.priority)
    BY <1>1, UncheckedIs
  <2>5. Ranked(s, r, p, pkt)
    BY <2>2, <2>3, <2>4 DEF Ranked, Elsewhere
  <2> QED  BY <2>5 DEF r
<1> QED  BY <1>3, <1>4

(* What is ready after a frame that merges, or does not. *)
Filled(d, merges) ==
    /\ d \in PortData
    /\ merges /\ ~Ltp => \A i \in 1 .. d.length : d.out[i] = Higher(d.A[i], d.B[i])

(* The packet takes the place x, chosen from the sources as they were.     *)
Taken(s, r, p, old, x, from) ==
    /\ r \in LoopStates /\ Elsewhere(s, r, p) /\ SameState(s, r)
    /\ r.dmx[p] = s.dmx[p]
    /\ r.port[p][x].sender = IF old[x].sender # from THEN from ELSE s.port[p][x].sender
    /\ r.port[p][Other(x)] = s.port[p][Other(x)]
    /\ Filled(r.data[p], old[Other(x)].sender # None)

LEMMA ReceivedIs ==
    ASSUME NEW s \in LoopStates, NEW p \in Ports, NEW old \in PortType, NEW x \in Sides,
           NEW pkt \in Packets
    PROVE  Taken(s, Received(s, p, old, x, pkt), p, old, x, pkt.from)
<1> DEFINE o == s.port[p]
           merges == old[Other(x)].sender # None
           sender == IF old[x].sender # pkt.from THEN pkt.from ELSE o[x].sender
           source == [sender |-> sender, age |-> 0, seq |-> IF sender = None THEN 0 ELSE pkt.seq]
           m == o.isMerging \/ merges
           n == [o EXCEPT ![x] = source, !.isMerging = m]
           d == IF merges THEN Merge(s.data[p], x, pkt.frame, Ltp)
                ELSE SetSource(s.data[p], x, pkt.frame)
           mode == s.st.isMergeMode \/ merges
           state == [s.st EXCEPT !.isMergeMode = mode]
           ports == [s.port EXCEPT ![p] = n]
           datas == [s.data EXCEPT ![p] = d]
           r == Received(s, p, old, x, pkt)
<1>1. /\ s.port \in [Ports -> PortType] /\ o \in PortType /\ s.st \in StateType
      /\ s.data \in [Ports -> PortData] /\ s.data[p] \in PortData
      /\ o[x] \in SourceType /\ o.isMerging \in BOOLEAN /\ Ltp \in BOOLEAN
  BY BridgeAssumption DEF LoopStates, PortType, Sides
<1>2. source \in SourceType /\ source.sender = sender
  BY <1>1, PacketIs, ConstantsAre DEF SourceType
<1>3. Filled(d, merges)
  BY <1>1, PacketIs, MergeIs, SetSourceIs DEF Filled
<1>4. m \in BOOLEAN /\ mode \in BOOLEAN
  BY <1>1
<1>5. r = [port |-> ports, data |-> datas, dmx |-> s.dmx, st |-> state]
  <2> DEFINE first == [s.port EXCEPT ![p][x] = source]
             raised == [first EXCEPT ![p].isMerging = o.isMerging \/ merges]
             filled == [s.data EXCEPT ![p] = IF merges THEN Merge(@, x, pkt.frame, Ltp)
                                             ELSE SetSource(@, x, pkt.frame)]
             joined == [s.st EXCEPT !.isMergeMode = @ \/ merges]
  <2>1. s = [port |-> s.port, data |-> s.data, dmx |-> s.dmx, st |-> s.st]
    BY DEF LoopStates
  <2>2. r = [port |-> raised, data |-> filled, dmx |-> s.dmx, st |-> joined]
    <3>1. r = [s EXCEPT !.port[p][x] = source,
                        !.port[p].isMerging = o.isMerging \/ merges,
                        !.st.isMergeMode = s.st.isMergeMode \/ merges,
                        !.data[p] = filled[p]]
      BY <1>1 DEF Received
    <3>2. filled = [s.data EXCEPT ![p] = filled[p]]
      BY <1>1
    <3> DEFINE t == [s EXCEPT !.port[p][x] = source, !.port[p].isMerging = o.isMerging \/ merges]
    <3> HIDE DEF source, merges, r, filled
    <3>3. r = [t EXCEPT !.st.isMergeMode = s.st.isMergeMode \/ merges, !.data[p] = filled[p]]
      BY <2>1, <3>1
    <3>4. t = [s EXCEPT !.port = raised]
      BY <2>1
    <3>5. t = [port |-> raised, data |-> s.data, dmx |-> s.dmx, st |-> s.st]
      BY <2>1, <3>4
    <3> HIDE DEF t, raised
    <3>6. r = [t EXCEPT !.st = joined, !.data = filled]
      BY <3>2, <3>3, <3>5
    <3> HIDE DEF joined
    <3>7. r = [port |-> raised, data |-> filled, dmx |-> s.dmx, st |-> joined]
      BY <3>5, <3>6
    <3> QED  BY <3>7
  <2>3. raised = ports
    BY <1>1
  <2>4. filled = datas
    BY <1>1
  <2>5. joined = state
    BY <1>1 DEF StateType
  <2> HIDE DEF raised, filled, joined, ports, datas, state, r
  <2> QED  BY <2>2, <2>3, <2>4, <2>5
<1> HIDE DEF source, d, m, mode
<1>6. n \in PortType /\ n[x] = source /\ n[Other(x)] = o[Other(x)]
  <2>1. CASE x = "A"
    BY <1>1, <1>2, <1>4, <2>1 DEF PortType, Other
  <2>2. CASE x = "B"
    BY <1>1, <1>2, <1>4, <2>2 DEF PortType, Other
  <2> QED  BY <2>1, <2>2 DEF Sides
<1>7. d \in PortData
  BY <1>3 DEF Filled
<1>8. /\ state \in StateType /\ state.priority = s.st.priority
      /\ state.isSynchronized = s.st.isSynchronized
      /\ state.isForcedSynchronized = s.st.isForcedSynchronized
  BY <1>1, <1>4 DEF StateType
<1> HIDE DEF n, state
<1>9. /\ ports \in [Ports -> PortType] /\ ports[p] = n
      /\ \A q \in Ports : q # p => ports[q] = s.port[q]
      /\ datas \in [Ports -> PortData] /\ datas[p] = d
      /\ \A q \in Ports : q # p => datas[q] = s.data[q]
  BY <1>1, <1>6, <1>7
<1> HIDE DEF ports, datas
<1>10. r \in LoopStates /\ r.port = ports /\ r.data = datas /\ r.dmx = s.dmx /\ r.st = state
  BY <1>5, <1>8, <1>9 DEF LoopStates
<1> HIDE DEF r
<1>11. Taken(s, r, p, old, x, pkt.from)
  BY <1>2, <1>3, <1>6, <1>8, <1>9, <1>10 DEF Taken, Elsewhere, SameState
<1> QED  BY <1>11 DEF r

(* A forced synchronization is one. *)
Forced(s) == s.st.isForcedSynchronized => s.st.isSynchronized

(* What a packet does to the synchronized state. *)
Announces(pkt) == pkt.sync # 0 /\ ~pkt.force

Aligned(s, r, pkt) ==
    /\ Forced(r)
    /\ r.st.priority = s.st.priority
    /\ Announces(pkt) => r.st.isSynchronized
    /\ ~Announces(pkt) => r.st.isSynchronized = s.st.isSynchronized

LEMMA SynchronizationIs ==
    ASSUME NEW s \in LoopStates, NEW p \in Ports, NEW matched, NEW pkt \in Packets
    PROVE  LET r == Synchronization(s, p, matched, pkt)
           IN  /\ r \in LoopStates
               /\ r.port = s.port /\ r.data = s.data /\ r.dmx = s.dmx
               /\ Forced(s) => Aligned(s, r, pkt)
               /\ r.st.priority = s.st.priority
<1> DEFINE sides == IF matched # {} THEN matched ELSE Live(s.port[p])
           a == IF "A" \in sides THEN pkt.sync ELSE s.st.syncA
           b == IF sides = {"B"} THEN pkt.sync ELSE s.st.syncB
           free == [s.st EXCEPT !.isForcedSynchronized = FALSE]
           forced == [s.st EXCEPT !.isForcedSynchronized = TRUE, !.isSynchronized = TRUE,
                                  !.syncA = a, !.syncB = b]
           r == Synchronization(s, p, matched, pkt)
<1>1. s.st \in StateType /\ pkt.sync \in Announced /\ pkt.force \in BOOLEAN
  BY PacketIs DEF LoopStates
<1>2. a \in Announced /\ b \in Announced
  BY <1>1 DEF StateType
<1>3. CASE pkt.force
  <2>1. r = [s EXCEPT !.st = free]
    BY <1>1, <1>3 DEF Synchronization, LoopStates
  <2>2. /\ free \in StateType /\ free.priority = s.st.priority
        /\ free.isSynchronized = s.st.isSynchronized /\ ~free.isForcedSynchronized
    BY <1>1 DEF StateType
  <2> HIDE DEF free
  <2>3. r \in LoopStates /\ r.port = s.port /\ r.data = s.data /\ r.dmx = s.dmx /\ r.st = free
    BY <2>1, <2>2 DEF LoopStates
  <2> QED  BY <1>3, <2>2, <2>3 DEF Aligned, Forced, Announces
<1>4. CASE ~pkt.force /\ (pkt.sync = 0 \/ s.st.isForcedSynchronized)
  <2>1. r = s
    BY <1>4 DEF Synchronization
  <2> QED  BY <1>4, <2>1 DEF Aligned, Forced, Announces
<1>5. CASE ~pkt.force /\ pkt.sync # 0 /\ ~s.st.isForcedSynchronized
  <2>1. r = [s EXCEPT !.st = forced]
    BY <1>1, <1>5 DEF Synchronization, LoopStates
  <2> HIDE DEF a, b
  <2>2. /\ forced \in StateType /\ forced.priority = s.st.priority
        /\ forced.isSynchronized = TRUE /\ forced.isForcedSynchronized = TRUE
    BY <1>1, <1>2 DEF StateType
  <2> HIDE DEF forced
  <2>3. r \in LoopStates /\ r.port = s.port /\ r.data = s.data /\ r.dmx = s.dmx /\ r.st = forced
    BY <2>1, <2>2 DEF LoopStates
  <2> QED  BY <1>5, <2>2, <2>3 DEF Aligned, Forced, Announces
<1> QED  BY <1>1, <1>3, <1>4, <1>5

(* A frame waits in the synchronized state. *)
LEMMA OutputIs ==
    ASSUME NEW s \in LoopStates, NEW p \in Ports
    PROVE  LET r == Output(s, p)
           IN  /\ r \in LoopStates /\ Elsewhere(s, r, p)
               /\ r.data = s.data /\ r.st = s.st
               /\ SameSenders(s.port[p], r.port[p])
               /\ s.st.isSynchronized => r.dmx = s.dmx
<1> DEFINE o == s.port[p]
           pending == [o EXCEPT !.isDataPending = TRUE]
           sending == [o EXCEPT !.isTransmitting = TRUE]
           line == IF o.isTransmitting THEN SetData(s.dmx[p], s.data[p], TRUE)
                   ELSE Started(SetData(s.dmx[p], s.data[p], TRUE))
           lines == [s.dmx EXCEPT ![p] = line]
           r == Output(s, p)
<1>1. /\ s.port \in [Ports -> PortType] /\ s.dmx \in [Ports -> DmxPort]
      /\ s.data \in [Ports -> PortData] /\ o \in PortType /\ s.dmx[p] \in DmxPort
      /\ s.data[p] \in PortData
  BY DEF LoopStates
<1>2. line \in DmxPort
  <2> DEFINE m == SetData(s.dmx[p], s.data[p], TRUE)
  <2>1. m \in DmxPort
    BY <1>1, LineIs
  <2>2. NoData \in PortData
    BY NoDataIs
  <2> HIDE DEF m
  <2>3. Started(m) \in DmxPort
    BY <2>1, <2>2, LineIs
  <2> QED  BY <2>1, <2>3 DEF m
<1>3. /\ pending \in PortType /\ SameSenders(o, pending)
      /\ sending \in PortType /\ SameSenders(o, sending)
  BY <1>1 DEF PortType, SameSenders
<1> HIDE DEF line
<1>4. CASE s.st.isSynchronized
  <2> DEFINE ports == [s.port EXCEPT ![p] = pending]
  <2>1. r = [s EXCEPT !.port = ports]
    BY <1>1, <1>4 DEF Output, LoopStates
  <2> HIDE DEF pending
  <2>2. ports \in [Ports -> PortType] /\ ports[p] = pending
        /\ \A q \in Ports : q # p => ports[q] = s.port[q]
    BY <1>1, <1>3
  <2> HIDE DEF ports
  <2>3. r \in LoopStates /\ r.port = ports /\ r.data = s.data /\ r.dmx = s.dmx /\ r.st = s.st
    BY <2>1, <2>2 DEF LoopStates
  <2> QED  BY <1>3, <2>2, <2>3 DEF Elsewhere
<1>5. CASE ~s.st.isSynchronized
  <2> DEFINE ports == [s.port EXCEPT ![p] = sending]
  <2>1. r = [s EXCEPT !.port = ports, !.dmx = lines]
    BY <1>1, <1>5 DEF Output, LoopStates, line
  <2> HIDE DEF sending
  <2>2. /\ ports \in [Ports -> PortType] /\ ports[p] = sending
        /\ \A q \in Ports : q # p => ports[q] = s.port[q]
        /\ lines \in [Ports -> DmxPort] /\ \A q \in Ports : q # p => lines[q] = s.dmx[q]
    BY <1>1, <1>2, <1>3
  <2> HIDE DEF ports, lines, r
  <2>3. r \in LoopStates /\ r.port = ports /\ r.data = s.data /\ r.dmx = lines /\ r.st = s.st
    BY <2>1, <2>2 DEF LoopStates
  <2> QED  BY <1>3, <1>5, <2>2, <2>3 DEF Elsewhere, r
<1> QED  BY <1>4, <1>5

(* The sources of a port after a packet that counts: chosen from old, with *)
(* the sources now left.                                                   *)
Placed(old, left, new, d, from) ==
    \E x \in Place(old, from) :
        /\ x \in Sides
        /\ new[x].sender = IF old[x].sender # from THEN from ELSE left[x].sender
        /\ new[Other(x)].sender = left[Other(x)].sender
        /\ Filled(d, old[Other(x)].sender # None)

Counted(s, r, p, old, pkt) ==
    /\ r \in LoopStates /\ Elsewhere(s, r, p)
    /\ r.st.priority = pkt.priority
    /\ \E left \in PortType :
          /\ Thinned(s.port[p], left, pkt.priority > s.st.priority)
          /\ \/ SameSenders(left, r.port[p]) /\ r.data[p] = s.data[p]
             \/ Placed(old, left, r.port[p], r.data[p], pkt.from)
    /\ Forced(s) => /\ Forced(r)
                    /\ Announces(pkt) => r.dmx = s.dmx
                    /\ ~Announces(pkt) => r.st.isSynchronized = s.st.isSynchronized
    /\ Forced(s) /\ s.st.isSynchronized => r.dmx = s.dmx

LEMMA PlaceIs == \A o, from : Place(o, from) \subseteq Sides
  BY DEF Place, Matched, Sides

LEMMA AcceptedIs ==
    ASSUME NEW s \in LoopStates, NEW p \in Ports, NEW old \in PortType, NEW matched,
           NEW pkt \in Packets
    PROVE  Counted(s, Accepted(s, p, old, matched, pkt), p, old, pkt)
<1> DEFINE c == Priority(s, p, pkt)
           x == CHOOSE y \in Place(old, pkt.from) : TRUE
           t == IF Place(old, pkt.from) = {} THEN c ELSE Received(c, p, old, x, pkt)
           u == Synchronization(t, p, matched, pkt)
           r == Accepted(s, p, old, matched, pkt)
<1>1. Ranked(s, c, p, pkt)
  BY PriorityIsSet
<1>2. r = Output(u, p)
  BY DEF Accepted
<1> HIDE DEF c
<1>3. c \in LoopStates /\ c.port[p] \in PortType
  BY <1>1 DEF Ranked, LoopStates
<1>4. /\ t \in LoopStates /\ Elsewhere(c, t, p) /\ SameState(c, t) /\ t.dmx[p] = c.dmx[p]
      /\ \/ SameSenders(c.port[p], t.port[p]) /\ t.data[p] = c.data[p]
         \/ Placed(old, c.port[p], t.port[p], t.data[p], pkt.from)
  <2>1. CASE Place(old, pkt.from) = {}
    BY <1>3, <2>1 DEF Elsewhere, SameState, SameSenders
  <2>2. CASE Place(old, pkt.from) # {}
    <3>1. x \in Place(old, pkt.from) /\ x \in Sides
      BY <2>2, PlaceIs
    <3> HIDE DEF x
    <3>2. Taken(c, t, p, old, x, pkt.from)
      BY <1>3, <2>2, <3>1, ReceivedIs
    <3> HIDE DEF t
    <3> QED  BY <3>1, <3>2 DEF Taken, Placed
  <2> QED  BY <2>1, <2>2
<1> HIDE DEF t
<1>5. /\ u \in LoopStates /\ u.port = t.port /\ u.data = t.data /\ u.dmx = t.dmx
      /\ Forced(t) => Aligned(t, u, pkt)
      /\ u.st.priority = t.st.priority
  BY <1>4, SynchronizationIs
<1> HIDE DEF u
<1>6. /\ r \in LoopStates /\ Elsewhere(u, r, p) /\ r.data = u.data /\ r.st = u.st
      /\ SameSenders(u.port[p], r.port[p])
      /\ u.st.isSynchronized => r.dmx = u.dmx
  BY <1>2, <1>5, OutputIs
<1> HIDE DEF r
<1>7. Elsewhere(s, r, p)
  BY <1>1, <1>4, <1>5, <1>6 DEF Elsewhere, Ranked
<1>8. r.st.priority = pkt.priority
  BY <1>1, <1>4, <1>5, <1>6 DEF Ranked, SameState
<1>9. /\ Thinned(s.port[p], c.port[p], pkt.priority > s.st.priority)
      /\ \/ SameSenders(c.port[p], r.port[p]) /\ r.data[p] = s.data[p]
         \/ Placed(old, c.port[p], r.port[p], r.data[p], pkt.from)
  <2>1. SameSenders(c.port[p], t.port[p]) => SameSenders(c.port[p], r.port[p])
    BY <1>5, <1>6 DEF SameSenders
  <2>2. ASSUME Placed(old, c.port[p], t.port[p], t.data[p], pkt.from)
        PROVE  Placed(old, c.port[p], r.port[p], r.data[p], pkt.from)
    <3>1. \A y \in Sides : r.port[p][y].sender = t.port[p][y].sender
                           /\ Other(y) \in Sides
      BY <1>5, <1>6 DEF SameSenders, Sides, Other
    <3> QED  BY <1>5, <1>6, <2>2, <3>1 DEF Placed
  <2> QED  BY <1>1, <1>4, <1>5, <1>6, <2>1, <2>2 DEF Ranked
<1>10. Forced(s) => Forced(t) /\ t.st.isSynchronized = s.st.isSynchronized
  BY <1>1, <1>4 DEF Ranked, SameState, Forced
<1>11. t.dmx = s.dmx
  <2>1. t.dmx \in [Ports -> DmxPort] /\ s.dmx \in [Ports -> DmxPort]
    BY <1>4 DEF LoopStates
  <2>2. \A q \in Ports : t.dmx[q] = s.dmx[q]
    BY <1>1, <1>4 DEF Ranked, Elsewhere
  <2> QED  BY <2>1, <2>2
<1>12. Forced(s) => /\ Forced(r)
                    /\ Announces(pkt) => r.dmx = s.dmx
                    /\ ~Announces(pkt) => r.st.isSynchronized = s.st.isSynchronized
                    /\ s.st.isSynchronized => r.dmx = s.dmx
  BY <1>5, <1>6, <1>10, <1>11 DEF Aligned, Forced
<1>13. Counted(s, r, p, old, pkt)
  BY <1>3, <1>6, <1>7, <1>8, <1>9, <1>12 DEF Counted
<1> QED  BY <1>13 DEF r

-----------------------------------------------------------------------------
(* A turn of the loop. *)

Turn(s, r, p, pkt) ==
    \/ Quiet(s, r, p)
    \/ pkt.kind = "terminated" /\ \E n \in LoopStates : Quiet(s, n, p) /\ Ended(n, r)
    \/ pkt.kind # "terminated"
         /\ \E c \in LoopStates : Quiet(s, c, p) /\ Counted(c, r, p, s.port[p], pkt)

LEMMA QuietTwice ==
    ASSUME NEW s, NEW n, NEW r, NEW p, Quiet(s, n, p), Quiet(n, r, p)
    PROVE  Quiet(s, r, p)
<1>1. Thinned(s.port[p], r.port[p], FALSE)
  BY DEF Quiet, Thinned, MayGo, Stale
<1> QED  BY <1>1 DEF Quiet, Elsewhere, SameState, SameBits

LEMMA HandlePortIs ==
    ASSUME NEW s \in LoopStates, NEW p \in Ports, NEW pkt \in Packets
    PROVE  HandlePort(s, p, pkt) \in LoopStates /\ Turn(s, HandlePort(s, p, pkt), p, pkt)
<1> DEFINE old == s.port[p]
           matched == Matched(old, pkt.from)
           x == CHOOSE y \in matched : TRUE
           n == IF matched = {} THEN s ELSE Noted(s, p, x, pkt.seq)
           c == CheckMergeTimeouts(n, p)
           r == HandlePort(s, p, pkt)
<1>1. old \in PortType /\ matched \in SUBSET Sides
  BY DEF LoopStates, Matched
<1>2. Quiet(s, n, p) /\ n \in LoopStates
  <2>1. CASE matched = {}
    BY <2>1, QuietItself
  <2>2. CASE matched # {}
    <3>1. x \in Sides
      BY <1>1, <2>2
    <3> HIDE DEF x, matched
    <3>2. Quiet(s, n, p)
      BY <2>2, <3>1, PacketIs, NotedIs
    <3> QED  BY <3>2 DEF Quiet
  <2> QED  BY <2>1, <2>2
<1>3. \/ r = n
      \/ r = c
      \/ pkt.kind = "terminated" /\ matched # {} /\ r = Terminated(n, matched)
      \/ pkt.kind # "terminated" /\ r = Accepted(c, p, old, matched, pkt)
  BY DEF HandlePort, Noted
<1> HIDE DEF n, matched
<1>4. Quiet(s, c, p) /\ c \in LoopStates
  BY <1>2, TimeoutsAre, QuietTwice DEF Quiet
<1> HIDE DEF c, r, old
<1>5. CASE r = n
  BY <1>2, <1>5 DEF Turn, r
<1>6. CASE r = c
  BY <1>4, <1>6 DEF Turn, r
<1>7. CASE pkt.kind = "terminated" /\ matched # {} /\ r = Terminated(n, matched)
  <2>1. Ended(n, r)
    BY <1>1, <1>2, <1>7, TerminatedIs
  <2>2. r \in LoopStates /\ Turn(s, r, p, pkt)
    BY <1>2, <1>7, <2>1 DEF Turn, Ended
  <2> QED  BY <2>2 DEF r
<1>8. CASE pkt.kind # "terminated" /\ r = Accepted(c, p, old, matched, pkt)
  <2>1. Counted(c, r, p, old, pkt)
    BY <1>1, <1>4, <1>8, AcceptedIs
  <2>2. r \in LoopStates /\ Turn(s, r, p, pkt)
    BY <1>4, <1>8, <2>1 DEF Turn, Counted, old
  <2> QED  BY <2>2 DEF r
<1> QED  BY <1>3, <1>5, <1>6, <1>7, <1>8

-----------------------------------------------------------------------------
(* The loop.  What holds of its first state and, turn by turn, of the next *)
(* one, holds of its last: I is the set of the pairs of a number of turns  *)
(* and a state for which it holds.                                         *)

Keeps(I, pkt) ==
    \A s \in LoopStates, p \in Ports :
        <<p, s>> \in I
            => /\ <<p + 1, s>> \in I
               /\ \A r \in LoopStates : Turn(s, r, p, pkt) => <<p + 1, r>> \in I

LEMMA LoopKeeps ==
    ASSUME NEW pkt \in Packets, Process \in LoopStates,
           NEW I, <<0, Process>> \in I, Keeps(I, pkt)
    PROVE  HandleDmx(pkt) \in LoopStates /\ <<MAX_PORTS, HandleDmx(pkt)>> \in I
<1> DEFINE Body(s, n) == IF PortUniverse[n - 1] # pkt.universe THEN s
                         ELSE HandlePort(s, n - 1, pkt)
           step == [n \in 1 .. MAX_PORTS |-> [s \in LoopStates |-> Body(s, n)]]
           Is(f) == f = [n \in 0 .. MAX_PORTS |->
                           IF n = 0 THEN Process
                           ELSE IF PortUniverse[n - 1] # pkt.universe THEN f[n - 1]
                                ELSE HandlePort(f[n - 1], n - 1, pkt)]
           after == CHOOSE f : Is(f)
<1>1. /\ MAX_PORTS \in Nat /\ MAX_PORTS \in 0 .. MAX_PORTS
      /\ \A n \in 1 .. MAX_PORTS : n - 1 \in Ports /\ n - 1 \in 0 .. MAX_PORTS /\ (n - 1) + 1 = n
  BY ConstantsAre
<1>2. \A n \in 1 .. MAX_PORTS, s \in LoopStates :
         Body(s, n) = s \/ (Body(s, n) \in LoopStates /\ Turn(s, Body(s, n), n - 1, pkt))
  <2> SUFFICES ASSUME NEW n \in 1 .. MAX_PORTS, NEW s \in LoopStates
               PROVE  \/ Body(s, n) = s
                      \/ Body(s, n) \in LoopStates /\ Turn(s, Body(s, n), n - 1, pkt)
    OBVIOUS
  <2>1. /\ HandlePort(s, n - 1, pkt) \in LoopStates
        /\ Turn(s, HandlePort(s, n - 1, pkt), n - 1, pkt)
    BY <1>1, HandlePortIs
  <2> QED  BY <2>1
<1> HIDE DEF Body
<1>3. step \in [1 .. MAX_PORTS -> [LoopStates -> LoopStates]]
  BY <1>2
<1>4. IsLoop(MAX_PORTS, LoopStates, Process, step)
  BY <1>1, <1>3 DEF IsLoop
<1>5. PICK g : IsRunOf(g, MAX_PORTS, LoopStates, Process, step)
  <2> HIDE DEF step
  <2> QED  BY <1>4, LoopRuns
<1>6. /\ g \in [0 .. MAX_PORTS -> LoopStates] /\ g[0] = Process
      /\ \A n \in 1 .. MAX_PORTS : g[n] = Body(g[n - 1], n)
  BY <1>1, <1>5 DEF IsRunOf
<1>7. Is(g)
  BY <1>1, <1>6 DEF Body
<1>8. Is(after)
  <2> HIDE DEF Is
  <2> QED  BY <1>7
<1> HIDE DEF after
<1>9. after[0] = Process /\ \A n \in 1 .. MAX_PORTS : after[n] = Body(after[n - 1], n)
  BY <1>1, <1>8 DEF Body
<1> DEFINE T == { n \in 0 .. MAX_PORTS : after[n] \in LoopStates /\ <<n, after[n]>> \in I }
<1>10. 0 \in T
  BY <1>1, <1>9
<1>11. ASSUME NEW n \in 1 .. MAX_PORTS, n - 1 \in T PROVE n \in T
  <2>1. after[n - 1] \in LoopStates /\ <<n - 1, after[n - 1]>> \in I
    BY <1>11
  <2>2. after[n] \in LoopStates
    BY <1>2, <1>9, <2>1
  <2>3. after[n] = after[n - 1] \/ Turn(after[n - 1], after[n], n - 1, pkt)
    BY <1>2, <1>9, <2>1
  <2>4. <<n, after[n]>> \in I
    BY <1>1, <2>1, <2>2, <2>3 DEF Keeps
  <2> QED  BY <2>2, <2>4
<1>12. 0 .. MAX_PORTS \subseteq T
  <2> HIDE DEF T
  <2> QED  BY <1>1, <1>10, <1>11, LoopInduction
<1>13. HandleDmx(pkt) = after[MAX_PORTS]
  BY DEF HandleDmx, after
<1> QED  BY <1>1, <1>12, <1>13

-----------------------------------------------------------------------------
(* Types. *)

(* TypeOK with the type of all of the state. *)
Types ==
    /\ Bridge \in LoopStates
    /\ syncAge \in 0 .. DATA_LOSS_TIMEOUT /\ packetAge \in 0 .. DATA_LOSS_TIMEOUT

LEMMA TypesAre == Types => TypeOK
<1> SUFFICES ASSUME Types PROVE TypeOK
  OBVIOUS
<1>1. port \in [Ports -> PortType] /\ data \in [Ports -> PortData] /\ dmx \in [Ports -> DmxPort]
      /\ st \in StateType
  BY DEF Types, Bridge, LoopStates
<1>2. {st.syncA, st.syncB} \subseteq {0} \cup { pkt.sync : pkt \in Packets }
  BY <1>1 DEF StateType, Announced
<1> QED  BY <1>1, <1>2 DEF Types, TypeOK, PortType, StateType

LEMMA InitTypes == Init => Types
<1> SUFFICES ASSUME Init PROVE Types
  OBVIOUS
<1>1. Free \in SourceType
  BY ConstantsAre DEF Free, SourceType
<1>2. port \in [Ports -> PortType]
  BY <1>1 DEF Init, PortType
<1>3. data \in [Ports -> PortData] /\ dmx \in [Ports -> DmxPort]
  BY NoDataIs, NoDmxIs DEF Init
<1>4. st \in StateType
  BY DEF Init, StateType, Announced
<1>5. Bridge \in LoopStates
  BY <1>2, <1>3, <1>4 DEF Bridge, LoopStates
<1>6. /\ syncAge = DATA_LOSS_TIMEOUT /\ packetAge = 0
      /\ DATA_LOSS_TIMEOUT \in Nat
  BY ConstantsAre DEF Init
<1> QED  BY <1>5, <1>6 DEF Types

LEMMA ProcessIs ==
    ASSUME Types
    PROVE  /\ Process \in LoopStates
           /\ Process.port = port /\ Process.data = data /\ Process.dmx = dmx
           /\ Process.st.priority = st.priority
           /\ Process.st.isForcedSynchronized = st.isForcedSynchronized
           /\ Process.st.isSynchronized => st.isSynchronized
           /\ Forced(Bridge) => Forced(Process)
<1> DEFINE late == syncAge >= DATA_LOSS_TIMEOUT /\ ~st.isForcedSynchronized
           on == st.isSynchronized /\ ~late
           state == [st EXCEPT !.isNetworkDataLoss = FALSE, !.isSynchronized = on]
<1>1. st \in StateType /\ on \in BOOLEAN /\ Bridge \in LoopStates
  BY DEF Types, Bridge, LoopStates, StateType
<1>2. Process = [Bridge EXCEPT !.st = state]
  BY <1>1 DEF Process, Bridge, StateType
<1>3. st.isForcedSynchronized => ~late
  OBVIOUS
<1>4. on => st.isSynchronized
  OBVIOUS
<1>5. st.isSynchronized /\ st.isForcedSynchronized => on
  BY <1>3
<1> HIDE DEF late, on
<1>6. /\ state \in StateType /\ state.priority = st.priority /\ state.isSynchronized = on
      /\ state.isForcedSynchronized = st.isForcedSynchronized
  BY <1>1 DEF StateType
<1> HIDE DEF state
<1>7. /\ Process \in LoopStates /\ Process.st = state
      /\ Process.port = port /\ Process.data = data /\ Process.dmx = dmx
  BY <1>1, <1>2, <1>6 DEF Bridge, LoopStates
<1> QED  BY <1>4, <1>5, <1>6, <1>7 DEF Forced, Bridge

LEMMA DataPacketTypes ==
    ASSUME Types, NEW pkt \in Packets
    PROVE  HandleDmx(pkt) \in LoopStates
<1> DEFINE I == (0 .. MAX_PORTS) \X LoopStates
<1>1. Process \in LoopStates
  BY ProcessIs
<1>2. <<0, Process>> \in I /\ Keeps(I, pkt)
  BY <1>1, ConstantsAre DEF Keeps
<1> HIDE DEF I
<1> QED  BY <1>1, <1>2, LoopKeeps

LEMMA SyncedPortIs ==
    ASSUME NEW o \in PortType
    PROVE  SyncedPort(o) \in PortType /\ SameSenders(o, SyncedPort(o)) /\ ~SyncedPort(o).isDataPending
  BY DEF SyncedPort, PortType, SameSenders

LEMMA SyncedDmxIs ==
    ASSUME Types, NEW p \in Ports
    PROVE  /\ SyncedDmx(p) \in DmxPort
           /\ ~port[p].isDataPending => SyncedDmx(p).sent = dmx[p].sent
<1>1. data[p] \in PortData /\ dmx[p] \in DmxPort
  BY DEF Types, Bridge, LoopStates
<1>2. SyncPort(dmx[p], data[p]) \in DmxPort
  BY <1>1, LineIs
<1>3. SyncStart(dmx[p], data[p]) \in DmxPort /\ SyncStart(dmx[p], data[p]).sent = dmx[p].sent
  BY <1>1, LineIs
<1>4. SyncStart(SyncPort(dmx[p], data[p]), data[p]) \in DmxPort
  <2> DEFINE m == SyncPort(dmx[p], data[p])
  <2> HIDE DEF m
  <2>1. m \in DmxPort => SyncStart(m, data[p]) \in DmxPort
    BY <1>1, LineIs
  <2> QED  BY <1>2, <2>1 DEF m
<1> QED  BY <1>3, <1>4 DEF SyncedDmx

Aged(o) == [o EXCEPT !.A.age = Older(@, OldAge), !.B.age = Older(@, OldAge)]

LEMMA AgedIs ==
    ASSUME NEW o \in PortType
    PROVE  Aged(o) \in PortType /\ SameSenders(o, Aged(o))
<1>1. \A age \in 0 .. OldAge : Older(age, OldAge) \in 0 .. OldAge
  BY ConstantsAre DEF Older
<1> DEFINE a == [o.A EXCEPT !.age = Older(@, OldAge)]
           b == [o.B EXCEPT !.age = Older(@, OldAge)]
           n == Aged(o)
<1>2. a \in SourceType /\ b \in SourceType /\ a.sender = o.A.sender /\ b.sender = o.B.sender
  BY <1>1 DEF PortType, SourceType
<1>3. n = [o EXCEPT !.A = a, !.B = b]
  BY DEF Aged, PortType
<1> HIDE DEF a, b, n
<1>4. n \in PortType /\ n.A = a /\ n.B = b
  BY <1>2, <1>3 DEF PortType
<1> QED  BY <1>2, <1>4 DEF SameSenders, n

LEMMA StepTypes == Types /\ [Next]_vars => Types'
<1> SUFFICES ASSUME Types, [Next]_vars PROVE Types'
  OBVIOUS
<1>1. /\ port \in [Ports -> PortType] /\ data \in [Ports -> PortData] /\ dmx \in [Ports -> DmxPort]
      /\ st \in StateType
      /\ syncAge \in 0 .. DATA_LOSS_TIMEOUT /\ packetAge \in 0 .. DATA_LOSS_TIMEOUT
  BY DEF Types, Bridge, LoopStates
<1>2. DATA_LOSS_TIMEOUT \in Nat /\ 0 \in 0 .. DATA_LOSS_TIMEOUT
  BY ConstantsAre
<1>3. ASSUME port' \in [Ports -> PortType], data' \in [Ports -> PortData],
             dmx' \in [Ports -> DmxPort], st' \in StateType,
             syncAge' \in 0 .. DATA_LOSS_TIMEOUT, packetAge' \in 0 .. DATA_LOSS_TIMEOUT
      PROVE  Types'
  BY <1>3 DEF Types, Bridge, LoopStates
<1>4. ASSUME NEW s \in LoopStates, Becomes(s)
      PROVE  port' \in [Ports -> PortType] /\ data' \in [Ports -> PortData]
             /\ dmx' \in [Ports -> DmxPort] /\ st' \in StateType
  BY <1>4 DEF Becomes, LoopStates
<1>5. ASSUME NEW pkt \in Packets, DataPacket(pkt) PROVE Types'
  BY <1>1, <1>2, <1>3, <1>4, <1>5, DataPacketTypes DEF DataPacket
<1>6. Process.st \in StateType
  BY ProcessIs DEF LoopStates
<1>7. ASSUME NEW address \in SyncAddresses, SyncPacket(address) PROVE Types'
  <2>1. ASSUME Synchronize
        PROVE  port' \in [Ports -> PortType] /\ data' \in [Ports -> PortData]
               /\ dmx' \in [Ports -> DmxPort] /\ syncAge' = 0
    <3>1. \A p \in Ports : /\ SyncedPort(port[p]) \in PortType /\ SyncClear(data[p]) \in PortData
                           /\ SyncedDmx(p) \in DmxPort
      BY <1>1, SyncedPortIs, ClearIs, SyncedDmxIs
    <3> QED  BY <2>1, <3>1 DEF Synchronize
  <2> QED  BY <1>1, <1>2, <1>3, <1>6, <1>7, <2>1 DEF SyncPacket
<1>8. ASSUME OtherPacket PROVE Types'
  BY <1>1, <1>2, <1>3, <1>6, <1>8 DEF OtherPacket
<1>9. ASSUME NetworkDataLoss PROVE Types'
  <2>1. LostAll(Bridge) \in LoopStates
    BY LostAllIs DEF Types, Ended
  <2> QED  BY <1>1, <1>3, <1>4, <1>9, <2>1 DEF NetworkDataLoss
<1>10. ASSUME NEW p \in Cleared, ClearPort(p) PROVE Types'
  <2>1. p \in Ports /\ Clear(data[p]) \in PortData
    BY <1>1, BridgeAssumption, ClearIs
  <2>2. data' \in [Ports -> PortData] /\ data'[p] \in PortData
    BY <1>1, <1>10, <2>1 DEF ClearPort
  <2>3. Started(SetData(dmx[p], data'[p], TRUE)) \in DmxPort
    <3> DEFINE m == SetData(dmx[p], data'[p], TRUE)
    <3>1. m \in DmxPort
      BY <1>1, <2>1, <2>2, LineIs
    <3> HIDE DEF m
    <3>2. Started(m) \in DmxPort
      BY <2>2, <3>1, LineIs
    <3> QED  BY <3>2 DEF m
  <2>4. dmx' \in [Ports -> DmxPort]
    BY <1>1, <1>10, <2>1, <2>3 DEF ClearPort
  <2>5. [port[p] EXCEPT !.isTransmitting = TRUE] \in PortType
    BY <1>1, <2>1 DEF PortType
  <2>6. port' \in [Ports -> PortType]
    BY <1>1, <1>10, <2>1, <2>5 DEF ClearPort
  <2>7. st' \in StateType
    BY <1>1, <1>10 DEF ClearPort, StateType
  <2> QED  BY <1>1, <1>3, <1>10, <2>2, <2>4, <2>6, <2>7 DEF ClearPort
<1>11. ASSUME Tick PROVE Types'
  <2>1. port' = [p \in Ports |-> Aged(port[p])]
    BY <1>11 DEF Tick, Aged
  <2>2. port' \in [Ports -> PortType]
    BY <1>1, <2>1, AgedIs
  <2>3. syncAge' \in 0 .. DATA_LOSS_TIMEOUT /\ packetAge' \in 0 .. DATA_LOSS_TIMEOUT
    <3>1. \A age \in 0 .. DATA_LOSS_TIMEOUT : Older(age, DATA_LOSS_TIMEOUT) \in 0 .. DATA_LOSS_TIMEOUT
      BY <1>2 DEF Older
    <3>2. /\ syncAge' = Older(syncAge, DATA_LOSS_TIMEOUT)
          /\ packetAge' = Older(packetAge, DATA_LOSS_TIMEOUT)
      BY <1>11 DEF Tick
    <3> QED  BY <1>1, <3>1, <3>2
  <2> QED  BY <1>1, <1>3, <1>11, <2>2, <2>3 DEF Tick
<1>12. ASSUME UNCHANGED vars PROVE Types'
  BY <1>1, <1>3, <1>12 DEF vars
<1> QED  BY <1>5, <1>7, <1>8, <1>9, <1>10, <1>11, <1>12 DEF Next

LEMMA TypesHold == Spec => []Types
  BY InitTypes, StepTypes, PTL DEF Spec

(* Every variable stays in its type: whatever packets, ends of streams and *)
(* time-outs come, the driver gets frames of at most SLOTS levels only.    *)
THEOREM BridgeTypeCorrect == Spec => []TypeOK
  BY TypesHold, TypesAre, PTL

-----------------------------------------------------------------------------
(* What a step does to the sources of a port and to its data.              *)

(* A packet of data takes the loop from where it starts to the next state. *)
LEMMA DataPacketIs ==
    ASSUME Types, NEW pkt \in Packets, DataPacket(pkt)
    PROVE  \E s \in LoopStates :
              /\ port' = s.port /\ data' = s.data /\ dmx' = s.dmx /\ st' = s.st
              /\ \A I : <<0, Process>> \in I /\ Keeps(I, pkt) => <<MAX_PORTS, s>> \in I
<1> DEFINE s == HandleDmx(pkt)
<1>1. Process \in LoopStates /\ s \in LoopStates
  BY ProcessIs, DataPacketTypes
<1>2. port' = s.port /\ data' = s.data /\ dmx' = s.dmx /\ st' = s.st
  BY DEF DataPacket, Becomes
<1>3. ASSUME NEW I, <<0, Process>> \in I, Keeps(I, pkt) PROVE <<MAX_PORTS, s>> \in I
  BY <1>1, <1>3, LoopKeeps
<1> HIDE DEF s
<1> QED  BY <1>1, <1>2, <1>3

(* All the ports of a state of the loop satisfy P, a set of pairs of a     *)
(* port and its data.                                                      *)
AllIn(s, P) == \A q \in Ports : <<s.port[q], s.data[q]>> \in P

LEMMA DataPacketAll ==
    ASSUME Types, NEW pkt \in Packets, DataPacket(pkt), NEW P, AllIn(Bridge, P),
           \A s, r \in LoopStates, p \in Ports :
               AllIn(s, P) /\ Turn(s, r, p, pkt) => AllIn(r, P)
    PROVE  \A q \in Ports : <<port'[q], data'[q]>> \in P
<1>1. PICK s \in LoopStates :
          /\ port' = s.port /\ data' = s.data
          /\ \A I : <<0, Process>> \in I /\ Keeps(I, pkt) => <<MAX_PORTS, s>> \in I
  BY DataPacketIs
<1> DEFINE I == { ns \in (0 .. MAX_PORTS) \X LoopStates : AllIn(ns[2], P) }
<1>2. <<0, Process>> \in I
  <2>1. AllIn(Process, P)
    BY ProcessIs DEF AllIn, Bridge
  <2> QED  BY <2>1, ProcessIs, ConstantsAre
<1>3. Keeps(I, pkt)
  BY ConstantsAre DEF Keeps
<1>4. <<MAX_PORTS, s>> \in I
  <2> HIDE DEF I
  <2> QED  BY <1>1, <1>2, <1>3
<1>5. AllIn(s, P)
  BY <1>4
<1> QED  BY <1>1, <1>5 DEF AllIn

(* The sources stay, and the data stays, is cleared or is set dark.        *)
LEMMA OtherSteps ==
    ASSUME Types, [Next]_vars, \A pkt \in Packets : ~DataPacket(pkt), ~NetworkDataLoss,
           NEW p \in Ports
    PROVE  /\ SameSenders(port[p], port'[p])
           /\ \/ data'[p] = data[p]
              \/ data'[p].length = 0
              \/ p \in Cleared
<1>1. /\ port \in [Ports -> PortType] /\ data \in [Ports -> PortData]
      /\ port[p] \in PortType /\ data[p] \in PortData
      /\ SameSenders(port[p], port[p])
  BY DEF Types, Bridge, LoopStates, SameSenders
<1>2. ASSUME NEW address \in SyncAddresses, SyncPacket(address)
      PROVE  SameSenders(port[p], port'[p]) /\ (data'[p] = data[p] \/ data'[p].length = 0)
  <2>1. CASE Synchronize
    <3>1. SyncClear(data[p]).length = 0 /\ SameSenders(port[p], SyncedPort(port[p]))
      BY <1>1, SyncedPortIs, ClearIs
    <3> QED  BY <2>1, <3>1 DEF Synchronize
  <2>2. CASE port' = port /\ data' = data
    BY <1>1, <2>2
  <2> QED  BY <1>2, <2>1, <2>2 DEF SyncPacket
<1>3. ASSUME OtherPacket \/ UNCHANGED vars PROVE SameSenders(port[p], port'[p]) /\ data'[p] = data[p]
  BY <1>1, <1>3 DEF OtherPacket, vars
<1>4. ASSUME NEW q \in Cleared, ClearPort(q)
      PROVE  SameSenders(port[p], port'[p]) /\ (data'[p] = data[p] \/ p \in Cleared)
  <2>1. SameSenders(port[p], [port[p] EXCEPT !.isTransmitting = TRUE])
    BY <1>1 DEF PortType, SameSenders
  <2>2. CASE p = q
    <3>1. port'[p] = [port[p] EXCEPT !.isTransmitting = TRUE]
      BY <1>1, <1>4, <2>2 DEF ClearPort
    <3> QED  BY <1>4, <2>1, <2>2, <3>1
  <2>3. CASE p # q
    <3>1. port'[p] = port[p] /\ data'[p] = data[p]
      BY <1>1, <1>4, <2>3 DEF ClearPort
    <3> QED  BY <1>1, <3>1
  <2> QED  BY <2>2, <2>3
<1>5. ASSUME Tick PROVE SameSenders(port[p], port'[p]) /\ data'[p] = data[p]
  <2>1. port' = [q \in Ports |-> Aged(port[q])] /\ data' = data
    BY <1>5 DEF Tick, Aged
  <2> QED  BY <1>1, <2>1, AgedIs
<1> QED  BY <1>2, <1>3, <1>4, <1>5 DEF Next

LEMMA LossIs ==
    ASSUME Types, NetworkDataLoss, NEW p \in Ports
    PROVE  Thinned(port[p], port'[p], TRUE) /\ (data'[p] = data[p] \/ data'[p].length = 0)
<1>1. Ended(Bridge, LostAll(Bridge))
  BY LostAllIs DEF Types
<1>2. port' = LostAll(Bridge).port /\ data' = LostAll(Bridge).data
  BY DEF NetworkDataLoss, Becomes
<1>3. Bridge.port = port /\ Bridge.data = data
  BY DEF Bridge
<1> QED  BY <1>1, <1>2, <1>3 DEF Ended

-----------------------------------------------------------------------------
(* Two streams. *)

Distinct(o) == Live(o) = Sides => o.A.sender # o.B.sender

LEMMA ThinnedDistinct ==
    ASSUME NEW o, NEW n, NEW reason, Thinned(o, n, reason), Distinct(o)
    PROVE  Distinct(n)
  BY ThinnedLive DEF Distinct

LEMMA SameDistinct ==
    ASSUME NEW o, NEW n, SameSenders(o, n), Distinct(o)
    PROVE  Distinct(n)
  BY LiveIs DEF Distinct, SameSenders

(* left has the sources of old but those that went. *)
Fewer(old, left) == \A y \in Sides : left[y].sender \in {old[y].sender, None}

LEMMA TwiceThinned ==
    ASSUME NEW o, NEW c, NEW n, NEW a, NEW b, Thinned(o, c, a), Thinned(c, n, b)
    PROVE  Fewer(o, n)
  BY DEF Thinned, MayGo, Fewer, Sides

LEMMA PlacedDistinct ==
    ASSUME NEW old, NEW left, NEW new, NEW d, NEW from, from # None,
           Placed(old, left, new, d, from), Fewer(old, left), Distinct(old)
    PROVE  Distinct(new)
<1> SUFFICES ASSUME Live(new) = Sides PROVE new.A.sender # new.B.sender
  BY DEF Distinct
<1>1. new.A.sender # None /\ new.B.sender # None
  BY LiveIs
<1>2. PICK x \in Sides :
          /\ x \in Place(old, from)
          /\ new[x].sender = IF old[x].sender # from THEN from ELSE left[x].sender
          /\ new[Other(x)].sender = left[Other(x)].sender
  BY DEF Placed
<1> DEFINE y == Other(x)
<1>3. y \in Sides /\ y # x /\ new[x].sender # None /\ new[y].sender # None
  BY <1>1 DEF Other, Sides
<1>4. new[y].sender = old[y].sender
  BY <1>2, <1>3 DEF Fewer
<1>5. new[x].sender = from
  BY <1>2, <1>3 DEF Fewer
<1>6. old[y].sender # from
  <2>1. CASE old[x].sender = from
    <3>1. old.A.sender # None /\ old.B.sender # None
      BY <1>3, <1>4, <2>1 DEF Sides, Other
    <3>2. old.A.sender # old.B.sender
      BY <3>1, LiveIs DEF Distinct
    <3> QED  BY <2>1, <3>2 DEF Sides, Other
  <2>2. CASE old[x].sender # from
    <3>1. x \notin Matched(old, from)
      BY <2>2 DEF Matched
    <3>2. Matched(old, from) = {}
      BY <1>2, <3>1 DEF Place
    <3> QED  BY <1>3, <3>2 DEF Matched
  <2> QED  BY <2>1, <2>2
<1>7. new[x].sender # new[y].sender
  BY <1>4, <1>5, <1>6
<1> QED  BY <1>7 DEF Sides, Other

(* What a turn does to the port it handles. *)
LEMMA CountedPort ==
    ASSUME NEW s, NEW c, NEW r, NEW p \in Ports, NEW pkt,
           Quiet(s, c, p), Counted(c, r, p, s.port[p], pkt)
    PROVE  \E left \in PortType :
              /\ Fewer(s.port[p], left)
              /\ \/ SameSenders(left, r.port[p]) /\ r.data[p] = s.data[p]
                 \/ Placed(s.port[p], left, r.port[p], r.data[p], pkt.from)
<1>1. PICK left \in PortType :
          /\ Thinned(c.port[p], left, pkt.priority > c.st.priority)
          /\ \/ SameSenders(left, r.port[p]) /\ r.data[p] = c.data[p]
             \/ Placed(s.port[p], left, r.port[p], r.data[p], pkt.from)
  BY DEF Counted
<1>2. Thinned(s.port[p], c.port[p], FALSE) /\ c.data[p] = s.data[p]
  BY DEF Quiet
<1>3. Fewer(s.port[p], left)
  BY <1>1, <1>2, TwiceThinned
<1> QED  BY <1>1, <1>2, <1>3

LEMMA FewerDistinct ==
    ASSUME NEW o, NEW n, Fewer(o, n), Distinct(o)
    PROVE  Distinct(n)
<1> SUFFICES ASSUME Live(n) = Sides PROVE n.A.sender # n.B.sender
  BY DEF Distinct
<1>1. n.A.sender # None /\ n.B.sender # None
  BY LiveIs
<1>2. n.A.sender = o.A.sender /\ n.B.sender = o.B.sender
  BY <1>1 DEF Fewer, Sides
<1> QED  BY <1>1, <1>2, LiveIs DEF Distinct

LEMMA TurnDistinct ==
    ASSUME NEW s, NEW r, NEW p \in Ports, NEW pkt \in Packets,
           Turn(s, r, p, pkt), \A q \in Ports : Distinct(s.port[q])
    PROVE  \A q \in Ports : Distinct(r.port[q])
<1>1. ASSUME NEW n, Quiet(s, n, p) PROVE \A q \in Ports : Distinct(n.port[q])
  <2>1. Distinct(n.port[p])
    BY <1>1, ThinnedDistinct DEF Quiet
  <2> QED  BY <1>1, <2>1 DEF Quiet, Elsewhere
<1>2. ASSUME NEW n \in LoopStates, Quiet(s, n, p), Ended(n, r) PROVE \A q \in Ports : Distinct(r.port[q])
  <2>1. \A q \in Ports : Distinct(n.port[q])
    BY <1>1, <1>2
  <2> QED  BY <1>2, <2>1, ThinnedDistinct DEF Ended
<1>3. ASSUME NEW c \in LoopStates, Quiet(s, c, p), Counted(c, r, p, s.port[p], pkt)
      PROVE  \A q \in Ports : Distinct(r.port[q])
  <2>1. PICK left \in PortType :
            /\ Fewer(s.port[p], left)
            /\ \/ SameSenders(left, r.port[p])
               \/ Placed(s.port[p], left, r.port[p], r.data[p], pkt.from)
    BY <1>3, CountedPort
  <2>2. ASSUME SameSenders(left, r.port[p]) PROVE Distinct(r.port[p])
    BY <2>1, <2>2, FewerDistinct, SameDistinct
  <2>3. ASSUME Placed(s.port[p], left, r.port[p], r.data[p], pkt.from) PROVE Distinct(r.port[p])
    BY <2>1, <2>3, PlacedDistinct, PacketIs
  <2>4. Distinct(r.port[p])
    BY <2>1, <2>2, <2>3
  <2>5. \A q \in Ports : q # p => r.port[q] = s.port[q]
    BY <1>3 DEF Quiet, Counted, Elsewhere
  <2> QED  BY <2>4, <2>5
<1> QED  BY <1>1, <1>2, <1>3 DEF Turn

LEMMA StepTwoStreams == Types /\ TwoStreams /\ [Next]_vars => TwoStreams'
<1> SUFFICES ASSUME Types, TwoStreams, [Next]_vars, NEW p \in Ports PROVE Distinct(port'[p])
  BY DEF TwoStreams, Distinct
<1>1. \A q \in Ports : Distinct(port[q])
  BY DEF TwoStreams, Distinct
<1>2. ASSUME NEW pkt \in Packets, DataPacket(pkt) PROVE Distinct(port'[p])
  <2> DEFINE P == { od \in PortType \X PortData : Distinct(od[1]) }
  <2>1. \A s \in LoopStates : AllIn(s, P) <=> \A q \in Ports : Distinct(s.port[q])
    BY DEF AllIn, LoopStates
  <2>2. \A s, r \in LoopStates, q \in Ports : AllIn(s, P) /\ Turn(s, r, q, pkt) => AllIn(r, P)
    <3> HIDE DEF P
    <3> QED  BY <2>1, TurnDistinct
  <2>3. AllIn(Bridge, P)
    <3>1. Bridge \in LoopStates /\ Bridge.port = port
      BY DEF Types, Bridge
    <3> QED  BY <1>1, <2>1, <3>1
  <2>4. <<port'[p], data'[p]>> \in P
    <3> HIDE DEF P
    <3> QED  BY <1>2, <2>2, <2>3, DataPacketAll
  <2> QED  BY <2>4
<1>3. CASE NetworkDataLoss
  BY <1>1, <1>3, LossIs, ThinnedDistinct
<1> QED  BY <1>1, <1>2, <1>3, OtherSteps, SameDistinct

LEMMA InitLive == Init => \A p \in Ports : Live(port[p]) # Sides
<1> SUFFICES ASSUME Init, NEW p \in Ports PROVE Live(port[p]) # Sides
  OBVIOUS
<1>1. port[p].A = Free
  BY DEF Init
<1> QED  BY <1>1, LiveIs DEF Free

(* The two places of a port hold two sources, although the place of a      *)
(* packet is chosen before the time-out and the priority clear any.        *)
THEOREM SourcesAreTwo == Spec => []TwoStreams
<1>1. Init => TwoStreams
  BY InitLive DEF TwoStreams
<1> QED  BY <1>1, StepTwoStreams, TypesHold, PTL DEF Spec

-----------------------------------------------------------------------------
(* The higher of both sources. *)

Highest(o, d) ==
    Live(o) = Sides /\ ~Ltp => \A i \in 1 .. d.length : d.out[i] = Higher(d.A[i], d.B[i])

LEMMA FewerHighest ==
    ASSUME NEW o, NEW n, NEW d, Fewer(o, n), Highest(o, d)
    PROVE  Highest(n, d)
<1>1. Live(n) = Sides => Live(o) = Sides
  BY LiveIs DEF Fewer, Sides
<1> QED  BY <1>1 DEF Highest

LEMMA ThinnedHighest ==
    ASSUME NEW o, NEW n, NEW reason, NEW d, Thinned(o, n, reason), Highest(o, d)
    PROVE  Highest(n, d)
  BY ThinnedLive DEF Highest

LEMMA EmptyHighest ==
    ASSUME NEW o, NEW d, d.length = 0
    PROVE  Highest(o, d)
  BY DEF Highest

LEMMA PlacedHighest ==
    ASSUME NEW old, NEW left, NEW new, NEW d, NEW from,
           Placed(old, left, new, d, from), Fewer(old, left)
    PROVE  Highest(new, d)
<1>1. PICK x \in Sides :
          /\ new[Other(x)].sender = left[Other(x)].sender
          /\ Filled(d, old[Other(x)].sender # None)
  BY DEF Placed
<1>2. Other(x) \in Sides
  BY DEF Other, Sides
<1>3. Live(new) = Sides => old[Other(x)].sender # None
  BY <1>1, <1>2 DEF Fewer, Live
<1> QED  BY <1>1, <1>3 DEF Filled, Highest

LEMMA TurnHighest ==
    ASSUME NEW s \in LoopStates, NEW r, NEW p \in Ports, NEW pkt,
           Turn(s, r, p, pkt), \A q \in Ports : Highest(s.port[q], s.data[q])
    PROVE  \A q \in Ports : Highest(r.port[q], r.data[q])
<1>1. ASSUME NEW n, Quiet(s, n, p) PROVE \A q \in Ports : Highest(n.port[q], n.data[q])
  <2>1. Highest(n.port[p], n.data[p])
    BY <1>1, ThinnedHighest DEF Quiet
  <2> QED  BY <1>1, <2>1 DEF Quiet, Elsewhere
<1>2. ASSUME NEW n \in LoopStates, Quiet(s, n, p), Ended(n, r)
      PROVE  \A q \in Ports : Highest(r.port[q], r.data[q])
  <2>1. \A q \in Ports : Highest(n.port[q], n.data[q])
    BY <1>1, <1>2
  <2>2. \A q \in Ports : /\ Thinned(n.port[q], r.port[q], TRUE)
                         /\ r.data[q] = n.data[q] \/ r.data[q].length = 0
    BY <1>2 DEF Ended
  <2> QED  BY <2>1, <2>2, ThinnedHighest, EmptyHighest
<1>3. ASSUME NEW c \in LoopStates, Quiet(s, c, p), Counted(c, r, p, s.port[p], pkt)
      PROVE  \A q \in Ports : Highest(r.port[q], r.data[q])
  <2>1. PICK left \in PortType :
            /\ Fewer(s.port[p], left)
            /\ \/ SameSenders(left, r.port[p]) /\ r.data[p] = s.data[p]
               \/ Placed(s.port[p], left, r.port[p], r.data[p], pkt.from)
    BY <1>3, CountedPort
  <2>2. ASSUME SameSenders(left, r.port[p]), r.data[p] = s.data[p]
        PROVE  Highest(r.port[p], r.data[p])
    <3>1. Fewer(s.port[p], r.port[p])
      BY <2>1, <2>2 DEF Fewer, SameSenders, Sides
    <3> QED  BY <2>2, <3>1, FewerHighest
  <2>3. ASSUME Placed(s.port[p], left, r.port[p], r.data[p], pkt.from)
        PROVE  Highest(r.port[p], r.data[p])
    BY <2>1, <2>3, PlacedHighest
  <2>4. Highest(r.port[p], r.data[p])
    BY <2>1, <2>2, <2>3
  <2>5. \A q \in Ports : q # p => r.port[q] = s.port[q] /\ r.data[q] = s.data[q]
    BY <1>3 DEF Quiet, Counted, Elsewhere
  <2> QED  BY <2>4, <2>5
<1> QED  BY <1>1, <1>2, <1>3 DEF Turn

LEMMA StepHighest ==
    ASSUME Cleared = {}, Types, HtpIsHighest, [Next]_vars
    PROVE  HtpIsHighest'
<1> SUFFICES ASSUME NEW p \in Ports PROVE Highest(port'[p], data'[p])
  BY DEF HtpIsHighest, Highest
<1>1. \A q \in Ports : Highest(port[q], data[q])
  BY DEF HtpIsHighest, Highest
<1>2. ASSUME NEW pkt \in Packets, DataPacket(pkt) PROVE Highest(port'[p], data'[p])
  <2> DEFINE P == { od \in PortType \X PortData : Highest(od[1], od[2]) }
  <2>1. \A s \in LoopStates : AllIn(s, P) <=> \A q \in Ports : Highest(s.port[q], s.data[q])
    BY DEF AllIn, LoopStates
  <2>2. \A s, r \in LoopStates, q \in Ports : AllIn(s, P) /\ Turn(s, r, q, pkt) => AllIn(r, P)
    <3> HIDE DEF P
    <3> QED  BY <2>1, TurnHighest
  <2>3. AllIn(Bridge, P)
    <3>1. Bridge \in LoopStates /\ Bridge.port = port /\ Bridge.data = data
      BY DEF Types, Bridge
    <3> QED  BY <1>1, <2>1, <3>1
  <2>4. <<port'[p], data'[p]>> \in P
    <3> HIDE DEF P
    <3> QED  BY <1>2, <2>2, <2>3, DataPacketAll
  <2> QED  BY <2>4
<1>3. CASE NetworkDataLoss
  BY <1>1, <1>3, LossIs, ThinnedHighest, EmptyHighest
<1>4. ASSUME \A pkt \in Packets : ~DataPacket(pkt), ~NetworkDataLoss
      PROVE  Highest(port'[p], data'[p])
  <2>1. SameSenders(port[p], port'[p]) /\ (data'[p] = data[p] \/ data'[p].length = 0)
    BY <1>4, OtherSteps
  <2>2. Fewer(port[p], port'[p])
    BY <2>1 DEF Fewer, SameSenders, Sides
  <2> QED  BY <1>1, <2>1, <2>2, FewerHighest, EmptyHighest
<1> QED  BY <1>2, <1>3, <1>4

(* As long as no command clears a port, each slot that a port in HTP mode  *)
(* has ready is the higher level of its two sources, whatever priorities,  *)
(* ends of streams and time-outs put other sources into the places.        *)
THEOREM HighestIsReady == ASSUME Cleared = {} PROVE Spec => []HtpIsHighest
<1>1. Init => HtpIsHighest
  BY InitLive DEF HtpIsHighest
<1>2. Types /\ HtpIsHighest /\ [Next]_vars => HtpIsHighest'
  BY StepHighest
<1> QED  BY <1>1, <1>2, TypesHold, PTL DEF Spec

-----------------------------------------------------------------------------
(* No source is evicted. *)

Risen(s, pkt) == s.st.priority = pkt.priority /\ pkt.priority > st.priority

Kept(old, new, risen) == old.sender \in {None, new.sender} \/ Stale(old) \/ risen

(* After n turns: the ports from n on are untouched. *)
UpTo(n, s, pkt) ==
    /\ s.st.priority \in {st.priority, pkt.priority}
    /\ \A q \in Ports :
          /\ q >= n => s.port[q] = port[q]
          /\ \A x \in Sides : Kept(port[q][x], s.port[q][x], Risen(s, pkt))

LEMMA CountedKeeps ==
    ASSUME NEW s, NEW c, NEW r, NEW p \in Ports, NEW pkt,
           Quiet(s, c, p), Counted(c, r, p, s.port[p], pkt), NEW x \in Sides
    PROVE  Kept(s.port[p][x], r.port[p][x], pkt.priority > s.st.priority)
<1> DEFINE old == s.port[p]
<1>1. PICK left \in PortType :
          /\ Thinned(c.port[p], left, pkt.priority > c.st.priority)
          /\ \/ SameSenders(left, r.port[p])
             \/ Placed(old, left, r.port[p], r.data[p], pkt.from)
  BY DEF Counted
<1>2. /\ Thinned(old, c.port[p], FALSE) /\ c.st.priority = s.st.priority
      /\ c.port[p].A.age = old.A.age /\ c.port[p].B.age = old.B.age
  BY DEF Quiet, SameState
<1>3. \A y \in Sides : Kept(old[y], left[y], pkt.priority > s.st.priority)
  BY <1>1, <1>2 DEF Thinned, MayGo, Kept, Stale, Sides
<1>4. CASE SameSenders(left, r.port[p])
  BY <1>3, <1>4 DEF SameSenders, Kept, Sides
<1>5. CASE Placed(old, left, r.port[p], r.data[p], pkt.from)
  <2>1. PICK y \in Sides :
            /\ y \in Place(old, pkt.from)
            /\ r.port[p][y].sender = IF old[y].sender # pkt.from THEN pkt.from ELSE left[y].sender
            /\ r.port[p][Other(y)].sender = left[Other(y)].sender
    BY <1>5 DEF Placed
  <2>2. CASE x # y
    <3>1. x = Other(y)
      BY <2>2 DEF Other, Sides
    <3> QED  BY <1>3, <2>1, <3>1 DEF Kept
  <2>3. CASE x = y /\ old[x].sender = pkt.from
    BY <1>3, <2>1, <2>3 DEF Kept
  <2>4. CASE x = y /\ old[x].sender # pkt.from
    <3>1. Matched(old, pkt.from) = {}
      BY <2>1, <2>4 DEF Place, Matched
    <3>2. old[x].sender = None
      BY <2>1, <2>4, <3>1 DEF Place
    <3> QED  BY <3>2 DEF Kept
  <2> QED  BY <2>2, <2>3, <2>4
<1> QED  BY <1>1, <1>4, <1>5

LEMMA TurnKeeps ==
    ASSUME NEW s \in LoopStates, NEW r, NEW p \in Ports, NEW pkt \in Packets,
           pkt.kind # "terminated", Turn(s, r, p, pkt), UpTo(p, s, pkt)
    PROVE  UpTo(p + 1, r, pkt)
<1>1. /\ s.port[p] = port[p] /\ p \in Int /\ \A q \in Ports : q \in Int
      /\ \A q \in Ports : q >= p + 1 => q >= p /\ q # p
  BY ConstantsAre DEF UpTo
<1>2. CASE Quiet(s, r, p)
  <2>1. r.st.priority = s.st.priority /\ (Risen(r, pkt) <=> Risen(s, pkt))
    BY <1>2 DEF Quiet, SameState, Risen
  <2>2. \A x \in Sides : Kept(port[p][x], r.port[p][x], Risen(r, pkt))
    BY <1>1, <1>2 DEF Quiet, Thinned, MayGo, Kept, Sides
  <2>3. \A q \in Ports : q # p => r.port[q] = s.port[q]
    BY <1>2 DEF Quiet, Elsewhere
  <2>4. \A q \in Ports : q >= p + 1 => r.port[q] = port[q]
    BY <1>1, <2>3 DEF UpTo
  <2>5. \A q \in Ports : q # p => \A x \in Sides : Kept(port[q][x], r.port[q][x], Risen(r, pkt))
    BY <2>1, <2>3 DEF UpTo, Kept
  <2>6. \A q \in Ports, x \in Sides : Kept(port[q][x], r.port[q][x], Risen(r, pkt))
    BY <2>2, <2>5
  <2>7. r.st.priority \in {st.priority, pkt.priority}
    BY <2>1 DEF UpTo
  <2> QED  BY <2>4, <2>6, <2>7 DEF UpTo
<1>3. ASSUME NEW c \in LoopStates, Quiet(s, c, p), Counted(c, r, p, s.port[p], pkt)
      PROVE  UpTo(p + 1, r, pkt)
  <2>1. r.st.priority = pkt.priority
    BY <1>3 DEF Counted
  <2>2. pkt.priority \in Nat /\ pkt.priority > s.st.priority => Risen(r, pkt)
    BY <2>1, PacketIs DEF UpTo, Risen
  <2>3. \A x \in Sides : Kept(port[p][x], r.port[p][x], Risen(r, pkt))
    BY <1>1, <1>3, <2>2, PacketIs, CountedKeeps DEF Kept
  <2>4. \A q \in Ports : q # p => r.port[q] = s.port[q]
    BY <1>3 DEF Quiet, Counted, Elsewhere
  <2>5. Risen(s, pkt) => Risen(r, pkt)
    BY <2>1 DEF Risen
  <2>6. \A q \in Ports : q # p => \A x \in Sides : Kept(port[q][x], r.port[q][x], Risen(r, pkt))
    BY <2>4, <2>5 DEF UpTo, Kept
  <2>7. \A q \in Ports : q >= p + 1 => r.port[q] = port[q]
    BY <1>1, <2>4 DEF UpTo
  <2>8. \A q \in Ports, x \in Sides : Kept(port[q][x], r.port[q][x], Risen(r, pkt))
    BY <2>3, <2>6
  <2> QED  BY <2>1, <2>7, <2>8 DEF UpTo
<1> QED  BY <1>2, <1>3 DEF Turn

LEMMA PacketKeeps ==
    ASSUME Types, NEW pkt \in Packets, pkt.kind # "terminated", DataPacket(pkt),
           NEW p \in Ports, NEW x \in Sides
    PROVE  Kept(port[p][x], port'[p][x], st'.priority > st.priority)
<1>1. PICK s \in LoopStates :
          /\ port' = s.port /\ st' = s.st
          /\ \A I : <<0, Process>> \in I /\ Keeps(I, pkt) => <<MAX_PORTS, s>> \in I
  BY DataPacketIs
<1> DEFINE I == { ns \in (0 .. MAX_PORTS) \X LoopStates : UpTo(ns[1], ns[2], pkt) }
<1>2. <<0, Process>> \in I
  <2>1. UpTo(0, Process, pkt)
    BY ProcessIs DEF UpTo, Kept
  <2> QED  BY <2>1, ProcessIs, ConstantsAre
<1>3. Keeps(I, pkt)
  <2>1. ASSUME NEW t \in LoopStates, NEW q \in Ports, UpTo(q, t, pkt)
        PROVE  UpTo(q + 1, t, pkt)
    <3>1. \A n \in Ports : n >= q + 1 => n >= q
      BY ConstantsAre
    <3> QED  BY <2>1, <3>1 DEF UpTo
  <2>2. ASSUME NEW t \in LoopStates, NEW r \in LoopStates, NEW q \in Ports,
               UpTo(q, t, pkt), Turn(t, r, q, pkt)
        PROVE  UpTo(q + 1, r, pkt)
    BY <2>2, TurnKeeps
  <2> QED  BY <2>1, <2>2, ConstantsAre DEF Keeps
<1>4. <<MAX_PORTS, s>> \in I
  <2> HIDE DEF I
  <2> QED  BY <1>1, <1>2, <1>3
<1>5. Kept(port[p][x], port'[p][x], Risen(s, pkt))
  BY <1>1, <1>4 DEF UpTo
<1>6. Risen(s, pkt) => st'.priority > st.priority
  BY <1>1 DEF Risen
<1> QED  BY <1>5, <1>6 DEF Kept

(* A source keeps its place until it is silent, a higher priority comes, a *)
(* stream ends or all data is lost, for any number of sources and for all  *)
(* ports that take the packet, although the place is chosen before the     *)
(* time-out and the priority clear any.                                    *)
THEOREM NobodyIsEvicted == Spec => NoEviction
<1>1. ASSUME Types, [Next]_vars PROVE KeepsPlace
  <2> SUFFICES ASSUME NEW p \in Ports, NEW x \in Sides,
                      port[p][x].sender \notin {None, port'[p][x].sender}
               PROVE  \/ Stale(port[p][x])
                      \/ st'.priority > st.priority
                      \/ \E pkt \in Packets : pkt.kind = "terminated" /\ DataPacket(pkt)
                      \/ st'.isNetworkDataLoss
    BY DEF KeepsPlace
  <2>1. ASSUME NEW pkt \in Packets, DataPacket(pkt), pkt.kind # "terminated"
        PROVE  Stale(port[p][x]) \/ st'.priority > st.priority
    BY <1>1, <2>1, PacketKeeps DEF Kept
  <2>2. ASSUME NetworkDataLoss PROVE st'.isNetworkDataLoss
    BY <1>1, <2>2, LostAllIs DEF NetworkDataLoss, Becomes, Types
  <2>3. ASSUME \A pkt \in Packets : ~DataPacket(pkt), ~NetworkDataLoss
        PROVE  port'[p][x].sender = port[p][x].sender
    BY <1>1, <2>3, OtherSteps DEF SameSenders, Sides
  <2> QED  BY <2>1, <2>2, <2>3
<1>2. Types /\ [Next]_vars => [KeepsPlace]_vars
  BY <1>1
<1> QED  BY <1>2, TypesHold, PTL DEF Spec, NoEviction

-----------------------------------------------------------------------------
(* In the synchronized state. *)

(* What is sent while a packet of data is handled goes on at once only     *)
(* when the packet leaves the bridge unsynchronized.                       *)
Waited(s, pkt) ==
    Forced(s) /\ (s.dmx = dmx \/ (~s.st.isSynchronized /\ ~Announces(pkt)))

(* While the end of a stream is handled ports only stop. *)
Stops(s) == \E q \in Ports : port[q].isTransmitting /\ ~s.port[q].isTransmitting

OnlyStops(s) ==
    /\ Forced(s)
    /\ s.dmx = dmx \/ ~s.st.isSynchronized \/ Stops(s)
    /\ \A q \in Ports : s.port[q].isTransmitting => port[q].isTransmitting

LEMMA QuietSends ==
    ASSUME NEW s \in LoopStates, NEW r \in LoopStates, NEW p \in Ports, Quiet(s, r, p)
    PROVE  /\ r.dmx = s.dmx
           /\ \A q \in Ports : r.port[q].isTransmitting = s.port[q].isTransmitting
           /\ r.st.isSynchronized = s.st.isSynchronized
           /\ Forced(s) => Forced(r)
<1>1. s.dmx \in [Ports -> DmxPort] /\ r.dmx \in [Ports -> DmxPort]
  BY DEF LoopStates
<1>2. \A q \in Ports : r.dmx[q] = s.dmx[q]
  BY DEF Quiet, Elsewhere
<1>3. r.dmx = s.dmx
  BY <1>1, <1>2
<1> QED  BY <1>3 DEF Quiet, Elsewhere, SameBits, SameState, Forced

LEMMA TurnWaits ==
    ASSUME NEW s \in LoopStates, NEW r \in LoopStates, NEW p \in Ports, NEW pkt,
           pkt.kind # "terminated", Turn(s, r, p, pkt), Waited(s, pkt)
    PROVE  Waited(r, pkt)
<1>1. CASE Quiet(s, r, p)
  BY <1>1, QuietSends DEF Waited
<1>2. ASSUME NEW c \in LoopStates, Quiet(s, c, p), Counted(c, r, p, s.port[p], pkt)
      PROVE  Waited(r, pkt)
  <2>1. Forced(c) /\ c.dmx = s.dmx /\ c.st.isSynchronized = s.st.isSynchronized
    BY <1>2, QuietSends DEF Waited
  <2>2. /\ Forced(r)
        /\ Announces(pkt) => r.dmx = c.dmx
        /\ ~Announces(pkt) => r.st.isSynchronized = c.st.isSynchronized
        /\ c.st.isSynchronized => r.dmx = c.dmx
    BY <1>2, <2>1 DEF Counted
  <2> QED  BY <2>1, <2>2 DEF Waited
<1> QED  BY <1>1, <1>2 DEF Turn

LEMMA TurnStops ==
    ASSUME NEW s \in LoopStates, NEW r \in LoopStates, NEW p \in Ports, NEW pkt,
           pkt.kind = "terminated", Turn(s, r, p, pkt), OnlyStops(s)
    PROVE  OnlyStops(r)
<1>1. ASSUME NEW n \in LoopStates, Quiet(s, n, p) PROVE OnlyStops(n)
  BY <1>1, QuietSends DEF OnlyStops, Stops
<1>2. ASSUME NEW n \in LoopStates, Quiet(s, n, p), Ended(n, r) PROVE OnlyStops(r)
  <2>1. OnlyStops(n)
    BY <1>1, <1>2
  <2>2. \A q \in Ports : r.port[q].isTransmitting => n.port[q].isTransmitting
    BY <1>2 DEF Ended
  <2>3. Forced(r) /\ (r.st.isSynchronized => n.st.isSynchronized)
    BY <1>2, <2>1 DEF Ended, SameState, Forced, OnlyStops
  <2>4. Stops(n) => Stops(r)
    BY <2>2 DEF Stops
  <2>5. (\E q \in Ports : n.port[q].isTransmitting /\ ~r.port[q].isTransmitting) => Stops(r)
    BY <2>1 DEF Stops, OnlyStops
  <2>6. r.dmx = dmx \/ ~r.st.isSynchronized \/ Stops(r)
    BY <1>2, <2>1, <2>3, <2>4, <2>5 DEF Ended, OnlyStops
  <2> QED  BY <2>1, <2>2, <2>3, <2>6 DEF OnlyStops
<1> QED  BY <1>1, <1>2 DEF Turn

LEMMA PacketWaits ==
    ASSUME Types, Forced(Bridge), NEW pkt \in Packets, DataPacket(pkt)
    PROVE  /\ Forced(Bridge)'
           /\ \/ dmx' = dmx
              \/ ~st'.isSynchronized
              \/ \E q \in Ports : port[q].isTransmitting /\ ~port'[q].isTransmitting
<1>1. PICK s \in LoopStates :
          /\ port' = s.port /\ dmx' = s.dmx /\ st' = s.st
          /\ \A I : <<0, Process>> \in I /\ Keeps(I, pkt) => <<MAX_PORTS, s>> \in I
  BY DataPacketIs
<1>2. Forced(s) => Forced(Bridge)'
  BY <1>1 DEF Forced, Bridge
<1>3. CASE pkt.kind # "terminated"
  <2> DEFINE I == { ns \in (0 .. MAX_PORTS) \X LoopStates : Waited(ns[2], pkt) }
  <2>1. <<0, Process>> \in I
    BY ProcessIs, ConstantsAre DEF Waited
  <2>2. Keeps(I, pkt)
    BY <1>3, TurnWaits, ConstantsAre DEF Keeps
  <2>3. <<MAX_PORTS, s>> \in I
    <3> HIDE DEF I
    <3> QED  BY <1>1, <2>1, <2>2
  <2>4. Waited(s, pkt)
    BY <2>3
  <2> QED  BY <1>1, <1>2, <2>4 DEF Waited
<1>4. CASE pkt.kind = "terminated"
  <2> DEFINE I == { ns \in (0 .. MAX_PORTS) \X LoopStates : OnlyStops(ns[2]) }
  <2>1. <<0, Process>> \in I
    BY ProcessIs, ConstantsAre DEF OnlyStops
  <2>2. Keeps(I, pkt)
    BY <1>4, TurnStops, ConstantsAre DEF Keeps
  <2>3. <<MAX_PORTS, s>> \in I
    <3> HIDE DEF I
    <3> QED  BY <1>1, <2>1, <2>2
  <2>4. OnlyStops(s)
    BY <2>3
  <2> QED  BY <1>1, <1>2, <2>4 DEF OnlyStops, Stops
<1> QED  BY <1>3, <1>4

LEMMA StepForced == Types /\ Forced(Bridge) /\ [Next]_vars => Forced(Bridge)'
<1> SUFFICES ASSUME Types, Forced(Bridge), [Next]_vars PROVE Forced(Bridge)'
  OBVIOUS
<1>1. ASSUME NEW pkt \in Packets, DataPacket(pkt) PROVE Forced(Bridge)'
  BY <1>1, PacketWaits
<1>2. ASSUME st' = Process.st PROVE Forced(Bridge)'
  BY <1>2, ProcessIs DEF Forced, Bridge
<1>3. ASSUME NetworkDataLoss PROVE Forced(Bridge)'
  BY <1>3, LostAllIs DEF NetworkDataLoss, Becomes, Types, Forced, Bridge
<1>4. ASSUME NEW p \in Cleared, ClearPort(p) PROVE Forced(Bridge)'
  BY <1>4 DEF ClearPort, Types, Bridge, LoopStates, StateType, Forced
<1>5. ASSUME st' = st PROVE Forced(Bridge)'
  BY <1>5 DEF Forced, Bridge
<1> QED  BY <1>1, <1>2, <1>3, <1>4, <1>5 DEF Next, SyncPacket, OtherPacket, Tick, vars

LEMMA StepWaits ==
    ASSUME Types, Forced(Bridge), [Next]_vars
    PROVE  WaitsForSync
<1> SUFFICES ASSUME st.isSynchronized, st'.isSynchronized, NEW p \in Ports,
                    dmx'[p].sent # dmx[p].sent
             PROVE  \/ port[p].isDataPending /\ ~port'[p].isDataPending
                    \/ \E q \in Cleared : ClearPort(q)
                    \/ \E q \in Ports : port[q].isTransmitting /\ ~port'[q].isTransmitting
  BY DEF WaitsForSync
<1>1. dmx' # dmx
  OBVIOUS
<1>2. ASSUME NEW pkt \in Packets, DataPacket(pkt)
      PROVE  \E q \in Ports : port[q].isTransmitting /\ ~port'[q].isTransmitting
  BY <1>1, <1>2, PacketWaits
<1>3. ASSUME NEW address \in SyncAddresses, SyncPacket(address)
      PROVE  port[p].isDataPending /\ ~port'[p].isDataPending
  <2>1. Synchronize
    BY <1>1, <1>3 DEF SyncPacket
  <2>2. port[p] \in PortType
    BY DEF Types, Bridge, LoopStates
  <2>3. ~port'[p].isDataPending
    BY <2>1, <2>2, SyncedPortIs DEF Synchronize
  <2> QED  BY <2>1, <2>3, SyncedDmxIs DEF Synchronize
<1>4. ~OtherPacket /\ ~Tick /\ ~UNCHANGED vars
  BY <1>1 DEF OtherPacket, Tick, vars
<1>5. ~NetworkDataLoss
  BY LostAllIs DEF NetworkDataLoss, Becomes, Types
<1> QED  BY <1>2, <1>3, <1>4, <1>5 DEF Next

(* In the synchronized state a port sends nothing new but the frame that a *)
(* synchronization packet releases, unless a port is cleared or a stream   *)
(* ends: one packet cannot leave a port that it sent at once behind in the *)
(* synchronized state that another port announces.                         *)
THEOREM WaitingForSync == Spec => BufferedUntilSync
<1>1. Init => Forced(Bridge)
  BY DEF Init, Forced, Bridge
<1>2. Types /\ Forced(Bridge) /\ [Next]_vars => Forced(Bridge)'
  BY StepForced
<1>3. Types /\ Forced(Bridge) /\ [Next]_vars => [WaitsForSync]_vars
  BY StepWaits
<1> QED  BY <1>1, <1>2, <1>3, TypesHold, PTL DEF Spec, BufferedUntilSync
=============================================================================
