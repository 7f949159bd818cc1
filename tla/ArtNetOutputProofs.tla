------------------------- MODULE ArtNetOutputProofs --------------------------
(***************************************************************************)
(* Theorems about ArtNetOutput, for any number of ports, controllers and   *)
(* slots.                                                                  *)
(***************************************************************************)
EXTENDS ArtNetOutput, LightSetProofs

LoopStates ==
    [port : [Ports -> OutputPort], data : [Ports -> PortData], dmx : [Ports -> DmxPort],
     isMergeMode : BOOLEAN, returned : BOOLEAN]

-----------------------------------------------------------------------------
(* What a time-out does to a port.                                         *)

(* What a check of time-outs may do to a source, and to a port.            *)
MayExpire(old, new) ==
    /\ new.physical = old.physical /\ new.age = old.age
    /\ new.ip = old.ip \/ (new.ip = NoIp /\ Stale(old))

Checked(old, new) ==
    /\ new \in OutputPort
    /\ MayExpire(old.A, new.A) /\ MayExpire(old.B, new.B)
    /\ new.isMerging => old.isMerging /\ new.A.ip = old.A.ip /\ new.B.ip = old.B.ip
    /\ Live(new) = Sides => Live(old) = Sides /\ new.isMerging = old.isMerging
    /\ new.ltp = old.ltp /\ new.isTransmitting = old.isTransmitting
    /\ new.isDataPending = old.isDataPending

LEMMA LiveIs ==
    ASSUME NEW o
    PROVE  /\ Live(o) = Sides <=> o.A.ip # NoIp /\ o.B.ip # NoIp
           /\ Live(o) = {} <=> o.A.ip = NoIp /\ o.B.ip = NoIp
  BY DEF Live, Sides

LEMMA CheckPortIs ==
    ASSUME NEW o \in OutputPort
    PROVE  Checked(o, CheckPort(o))
<1>1. ASSUME NEW source \in Source
      PROVE  /\ Expire(source) \in Source /\ MayExpire(source, Expire(source))
             /\ Stale(source) => Expire(source).ip = NoIp
             /\ ~Stale(source) => Expire(source) = source
  BY DEF Source, Expire, MayExpire
<1>2. o.A \in Source /\ o.B \in Source
  BY DEF OutputPort
<1> DEFINE n == CheckPort(o)
<1>3. /\ n \in OutputPort
      /\ n.A = Expire(o.A) /\ n.B = Expire(o.B)
      /\ n.isMerging = (o.isMerging /\ ~Stale(o.A) /\ ~Stale(o.B))
      /\ n.ltp = o.ltp /\ n.isTransmitting = o.isTransmitting
      /\ n.isDataPending = o.isDataPending
  BY <1>1, <1>2 DEF CheckPort, OutputPort
<1> HIDE DEF n
<1>4. MayExpire(o.A, n.A) /\ MayExpire(o.B, n.B)
  BY <1>1, <1>2, <1>3
<1>5. n.isMerging => o.isMerging /\ n.A.ip = o.A.ip /\ n.B.ip = o.B.ip
  BY <1>1, <1>2, <1>3
<1>6. ASSUME Live(n) = Sides PROVE Live(o) = Sides /\ n.isMerging = o.isMerging
  <2>1. n.A.ip # NoIp /\ n.B.ip # NoIp
    BY <1>6, LiveIs
  <2>2. ~Stale(o.A) /\ ~Stale(o.B)
    BY <1>1, <1>2, <1>3, <2>1
  <2>3. o.A.ip # NoIp /\ o.B.ip # NoIp
    BY <1>1, <1>2, <1>3, <2>1, <2>2
  <2>4. o.isMerging \in BOOLEAN
    BY DEF OutputPort
  <2> QED  BY <1>3, <2>2, <2>3, <2>4, LiveIs
<1> QED  BY <1>3, <1>4, <1>5, <1>6 DEF Checked, n

LEMMA UncheckedIs == \A o \in OutputPort : Checked(o, o)
<1> SUFFICES ASSUME NEW o \in OutputPort PROVE Checked(o, o)
  OBVIOUS
<1> QED  BY DEF Checked, MayExpire

(* The loop's state after CheckMergeTimeouts. *)
LEMMA TimeoutsIs ==
    ASSUME NEW s \in LoopStates, NEW p \in Ports
    PROVE  LET c == CheckMergeTimeouts(s, p)
           IN  /\ c \in LoopStates
               /\ c.data = s.data /\ c.dmx = s.dmx /\ c.returned = s.returned
               /\ \A q \in Ports : q # p => c.port[q] = s.port[q]
               /\ Checked(s.port[p], c.port[p])
               /\ \/ c.port = s.port /\ c.isMergeMode = s.isMergeMode
                  \/ c.isMergeMode = \E q \in Ports : c.port[q].isMerging
<1> DEFINE checked == [s.port EXCEPT ![p] = CheckPort(@)]
           c == CheckMergeTimeouts(s, p)
<1>1. s.port \in [Ports -> OutputPort] /\ s.port[p] \in OutputPort
  BY DEF LoopStates
<1>2. Checked(s.port[p], CheckPort(s.port[p])) /\ Checked(s.port[p], s.port[p])
  BY <1>1, CheckPortIs, UncheckedIs
<1>3. checked \in [Ports -> OutputPort] /\ checked[p] = CheckPort(s.port[p])
      /\ \A q \in Ports : q # p => checked[q] = s.port[q]
  BY <1>1, <1>2 DEF Checked
<1> HIDE DEF checked
<1>4. CASE s.isMergeMode /\ ~DisableMergeTimeout
  <2>1. c = [s EXCEPT !.port = checked, !.isMergeMode = \E q \in Ports : checked[q].isMerging]
    BY <1>4 DEF CheckMergeTimeouts, checked
  <2>2. /\ c \in LoopStates /\ c.port = checked
        /\ c.data = s.data /\ c.dmx = s.dmx /\ c.returned = s.returned
        /\ c.isMergeMode = \E q \in Ports : checked[q].isMerging
    BY <1>3, <2>1 DEF LoopStates
  <2> QED  BY <1>2, <1>3, <2>2
<1>5. CASE ~(s.isMergeMode /\ ~DisableMergeTimeout)
  <2>1. c = s
    BY <1>5 DEF CheckMergeTimeouts
  <2> QED  BY <1>2, <2>1
<1> QED  BY <1>4, <1>5

-----------------------------------------------------------------------------
(* What one turn of the loop does to the port it handles.                  *)

(* The packet is from source x of the port o, which becomes new. *)
Taken(o, new, x, ip, physical) ==
    /\ IsFrom(o, x, ip, physical)
    /\ new \in OutputPort
    /\ new[x] = [ip |-> ip, age |-> 0, physical |-> physical]
    /\ new[Other(x)] = o[Other(x)]
    /\ new.isMerging = (o.isMerging \/ o[Other(x)].ip # NoIp)
    /\ new.ltp = o.ltp

LEMMA ReceivedIs ==
    ASSUME NEW o \in OutputPort, NEW x \in Sides, NEW ip \in Controllers, NEW physical \in Physicals,
           IsFrom(o, x, ip, physical)
    PROVE  LET new == Received(o, x, ip, physical)
           IN  /\ Taken(o, new, x, ip, physical)
               /\ new.isTransmitting = o.isTransmitting /\ new.isDataPending = o.isDataPending
<1> DEFINE n == [ip |-> ip, age |-> 0, physical |-> physical]
           m == (o.isMerging \/ o[Other(x)].ip # NoIp)
           new == Received(o, x, ip, physical)
<1>1. n \in Source /\ m \in BOOLEAN
  BY OutputAssumption DEF Source, OutputPort
<1>2. new = [o EXCEPT ![x] = n, !.isMerging = m]
  BY DEF Received, OutputPort
<1> HIDE DEF n, m, new
<1>3. CASE x = "A"
  <2>1. /\ new \in OutputPort /\ new.A = n /\ new.B = o.B /\ new.isMerging = m /\ new.ltp = o.ltp
        /\ new.isTransmitting = o.isTransmitting /\ new.isDataPending = o.isDataPending
    BY <1>1, <1>2, <1>3 DEF OutputPort
  <2> QED  BY <1>3, <2>1 DEF Taken, Other, n, m, new
<1>4. CASE x = "B"
  <2>1. /\ new \in OutputPort /\ new.B = n /\ new.A = o.A /\ new.isMerging = m /\ new.ltp = o.ltp
        /\ new.isTransmitting = o.isTransmitting /\ new.isDataPending = o.isDataPending
    BY <1>1, <1>2, <1>4 DEF OutputPort
  <2> QED  BY <1>4, <2>1 DEF Taken, Other, n, m, new
<1> QED  BY <1>3, <1>4 DEF Sides

(* The data of a port after a frame: it has a length, and in HTP mode the  *)
(* higher levels when there is another source.                             *)
Filled(o, d, x, frame) ==
    /\ d \in PortData /\ d.length = Len(frame)
    /\ o[Other(x)].ip # NoIp /\ ~o.ltp
         => \A i \in 1 .. d.length : d.out[i] = Higher(d.A[i], d.B[i])

LEMMA MergedIs ==
    ASSUME NEW d \in PortData, NEW o \in OutputPort, NEW x \in Sides, NEW frame \in Frame
    PROVE  Filled(o, Merged(d, o, x, frame), x, frame)
<1>1. o.ltp \in BOOLEAN
  BY DEF OutputPort
<1>2. CASE o[Other(x)].ip # NoIp
  BY <1>1, <1>2, MergeIs DEF Merged, Filled
<1>3. CASE o[Other(x)].ip = NoIp
  BY <1>3, SetSourceIs DEF Merged, Filled
<1> QED  BY <1>2, <1>3

(* Whether a frame waits for the ArtSync. *)
Waits(new) == isSynchronousMode' /\ ~new.isMerging

(* The effect of Output on the port that was n, with the line m. *)
Sent(n, m, new, line) ==
    /\ new \in OutputPort /\ line \in DmxPort
    /\ new.A = n.A /\ new.B = n.B /\ new.isMerging = n.isMerging /\ new.ltp = n.ltp
    /\ Waits(n) => line = m
    /\ ~Waits(n) => new.isDataPending = n.isDataPending

(* The state of the loop but for port p. *)
Elsewhere(s, r, p) ==
    \A q \in Ports : q # p => r.port[q] = s.port[q] /\ r.data[q] = s.data[q] /\ r.dmx[q] = s.dmx[q]

LEMMA OutputIs ==
    ASSUME NEW s \in LoopStates, NEW p \in Ports
    PROVE  LET r == Output(s, p)
           IN  /\ r \in LoopStates
               /\ r.data = s.data /\ r.isMergeMode = s.isMergeMode /\ r.returned = s.returned
               /\ Elsewhere(s, r, p)
               /\ Sent(s.port[p], s.dmx[p], r.port[p], r.dmx[p])
<1> DEFINE o == s.port[p]
           waiting == [s.port EXCEPT ![p].isDataPending = TRUE]
           sending == [s.port EXCEPT ![p].isTransmitting = TRUE]
           line == IF o.isTransmitting THEN SetData(s.dmx[p], s.data[p], TRUE)
                   ELSE Started(SetData(s.dmx[p], s.data[p], TRUE))
           r == Output(s, p)
<1>1. /\ s.port \in [Ports -> OutputPort] /\ s.dmx \in [Ports -> DmxPort]
      /\ s.data \in [Ports -> PortData] /\ o \in OutputPort /\ s.dmx[p] \in DmxPort
  BY DEF LoopStates
<1>2. line \in DmxPort
  <2>1. SetData(s.dmx[p], s.data[p], TRUE) \in DmxPort
    BY <1>1, LineIs
  <2>2. Started(SetData(s.dmx[p], s.data[p], TRUE)) \in DmxPort
    <3> DEFINE m == SetData(s.dmx[p], s.data[p], TRUE)
    <3>1. m \in DmxPort /\ NoData \in PortData
      BY <2>1, NoDataIs
    <3> HIDE DEF m
    <3>2. Started(m) \in DmxPort
      BY <3>1, LineIs
    <3> QED  BY <3>2 DEF m
  <2> QED  BY <2>1, <2>2
<1> HIDE DEF line
<1>3. CASE Waits(o)
  <2>1. r = [s EXCEPT !.port = waiting]
    BY <1>1, <1>3 DEF Output, Waits, LoopStates
  <2>2. /\ waiting \in [Ports -> OutputPort]
        /\ \A q \in Ports : q # p => waiting[q] = s.port[q]
        /\ waiting[p] = [o EXCEPT !.isDataPending = TRUE]
    BY <1>1 DEF OutputPort
  <2> HIDE DEF waiting
  <2>3. /\ r \in LoopStates /\ r.port = waiting /\ r.data = s.data /\ r.dmx = s.dmx
        /\ r.isMergeMode = s.isMergeMode /\ r.returned = s.returned
    BY <2>1, <2>2 DEF LoopStates
  <2>4. Sent(o, s.dmx[p], waiting[p], s.dmx[p])
    BY <1>1, <1>3, <2>2 DEF Sent, OutputPort
  <2> QED  BY <2>2, <2>3, <2>4 DEF Elsewhere
<1>4. CASE ~Waits(o)
  <2> DEFINE lines == [s.dmx EXCEPT ![p] = line]
  <2>1. r = [s EXCEPT !.dmx = lines, !.port = sending]
    BY <1>1, <1>4 DEF Output, Waits, LoopStates, line
  <2>2. /\ sending \in [Ports -> OutputPort]
        /\ \A q \in Ports : q # p => sending[q] = s.port[q]
        /\ sending[p] = [o EXCEPT !.isTransmitting = TRUE]
    BY <1>1 DEF OutputPort
  <2>3. /\ lines \in [Ports -> DmxPort] /\ lines[p] = line
        /\ \A q \in Ports : q # p => lines[q] = s.dmx[q]
    BY <1>1, <1>2
  <2> HIDE DEF sending, lines
  <2>4. /\ r \in LoopStates /\ r.port = sending /\ r.data = s.data /\ r.dmx = lines
        /\ r.isMergeMode = s.isMergeMode /\ r.returned = s.returned
    BY <2>1, <2>2, <2>3 DEF LoopStates
  <2>5. Sent(o, s.dmx[p], sending[p], line)
    BY <1>1, <1>2, <1>4, <2>2 DEF Sent, OutputPort
  <2> QED  BY <2>2, <2>3, <2>4, <2>5 DEF Elsewhere
<1> QED  BY <1>3, <1>4

(* A turn of the loop: the time-outs take s to c, the packet c to r. *)
TimedOut(s, c, p) ==
    /\ c \in LoopStates /\ Elsewhere(s, c, p)
    /\ c.data[p] = s.data[p] /\ c.dmx[p] = s.dmx[p]
    /\ Checked(s.port[p], c.port[p])
    /\ \/ c.port = s.port /\ c.isMergeMode = s.isMergeMode
       \/ c.isMergeMode = \E q \in Ports : c.port[q].isMerging

Left(c, r, p) ==
    /\ r.port[p] = c.port[p] /\ r.data[p] = c.data[p] /\ r.dmx[p] = c.dmx[p]
    /\ r.isMergeMode = c.isMergeMode

Came(c, r, p, x, ip, physical, frame) ==
    \E new \in OutputPort :
        /\ Taken(c.port[p], new, x, ip, physical)
        /\ Filled(c.port[p], r.data[p], x, frame)
        /\ Sent(new, c.dmx[p], r.port[p], r.dmx[p])
        /\ r.isMergeMode = (c.isMergeMode \/ c.port[p][Other(x)].ip # NoIp)

Turn(s, r, p, ip, physical, frame) ==
    /\ r \in LoopStates
    /\ \E c \in LoopStates :
          /\ TimedOut(s, c, p) /\ Elsewhere(c, r, p)
          /\ Left(c, r, p) \/ \E x \in Sides : Came(c, r, p, x, ip, physical, frame)

LEMMA HandlePortIs ==
    ASSUME NEW s \in LoopStates, NEW p \in Ports,
           NEW ip \in Controllers, NEW physical \in Physicals, NEW frame \in Frames
    PROVE  Turn(s, HandlePort(s, p, ip, physical, frame), p, ip, physical, frame)
<1> DEFINE c == CheckMergeTimeouts(s, p)
           o == c.port[p]
           x == CHOOSE y \in Sides : IsFrom(o, y, ip, physical)
           new == Received(o, x, ip, physical)
           r == HandlePort(s, p, ip, physical, frame)
<1>1. c \in LoopStates /\ TimedOut(s, c, p)
  BY TimeoutsIs DEF TimedOut, Elsewhere
<1> HIDE DEF c
<1>2. /\ c.port \in [Ports -> OutputPort] /\ c.data \in [Ports -> PortData]
      /\ c.dmx \in [Ports -> DmxPort] /\ o \in OutputPort /\ c.data[p] \in PortData
      /\ c.isMergeMode \in BOOLEAN
  BY <1>1 DEF LoopStates
<1>3. CASE Discarded(o, ip, physical)
  <2>1. r = [c EXCEPT !.returned = TRUE]
    BY <1>3 DEF HandlePort, c
  <2>2. /\ r \in LoopStates /\ r.port = c.port /\ r.data = c.data /\ r.dmx = c.dmx
        /\ r.isMergeMode = c.isMergeMode
    BY <1>1, <2>1 DEF LoopStates
  <2> HIDE DEF r
  <2>3. Elsewhere(c, r, p) /\ Left(c, r, p)
    BY <2>2 DEF Left, Elsewhere
  <2>4. Turn(s, r, p, ip, physical, frame)
    BY <1>1, <2>2, <2>3 DEF Turn
  <2> QED  BY <2>4 DEF r
<1>4. CASE ~Discarded(o, ip, physical)
  <2> DEFINE m == (c.isMergeMode \/ o[Other(x)].ip # NoIp)
             ports == [c.port EXCEPT ![p] = new]
             datas == [c.data EXCEPT ![p] = Merged(@, o, x, frame)]
             t == [c EXCEPT !.port = ports, !.data = datas, !.isMergeMode = m]
  <2>1. x \in Sides /\ IsFrom(o, x, ip, physical)
    BY <1>4 DEF Discarded
  <2>2. frame \in Frame
    BY OutputAssumption
  <2>3. Taken(o, new, x, ip, physical)
    <3> HIDE DEF x, o
    <3> QED  BY <1>2, <2>1, ReceivedIs
  <2>4. Filled(o, Merged(c.data[p], o, x, frame), x, frame)
    <3> HIDE DEF x, o
    <3> QED  BY <1>2, <2>1, <2>2, MergedIs
  <2>5. r = Output(t, p)
    BY <1>4 DEF HandlePort, c
  <2>6. new \in OutputPort
    BY <2>3 DEF Taken
  <2>7. Merged(c.data[p], o, x, frame) \in PortData
    BY <2>4 DEF Filled
  <2> HIDE DEF x, new
  <2>8. ports \in [Ports -> OutputPort] /\ ports[p] = new
        /\ \A q \in Ports : q # p => ports[q] = c.port[q]
    BY <1>2, <2>6
  <2>9. datas \in [Ports -> PortData] /\ datas[p] = Merged(c.data[p], o, x, frame)
        /\ \A q \in Ports : q # p => datas[q] = c.data[q]
    BY <1>2, <2>7
  <2>10. m \in BOOLEAN
    BY <1>2
  <2> HIDE DEF ports, datas, m
  <2>11. /\ t \in LoopStates /\ t.port = ports /\ t.data = datas /\ t.dmx = c.dmx
         /\ t.isMergeMode = m
    BY <1>1, <2>8, <2>9, <2>10 DEF LoopStates
  <2> HIDE DEF t, r
  <2>12. /\ r \in LoopStates
         /\ r.data = t.data /\ r.isMergeMode = t.isMergeMode
         /\ Elsewhere(t, r, p)
         /\ Sent(t.port[p], t.dmx[p], r.port[p], r.dmx[p])
    BY <2>5, <2>11, OutputIs
  <2>13. Elsewhere(c, r, p)
    BY <2>8, <2>9, <2>11, <2>12 DEF Elsewhere
  <2>14. /\ Filled(o, r.data[p], x, frame)
         /\ Sent(new, c.dmx[p], r.port[p], r.dmx[p])
         /\ r.isMergeMode = (c.isMergeMode \/ o[Other(x)].ip # NoIp)
    BY <2>4, <2>8, <2>9, <2>11, <2>12 DEF m
  <2>15. Came(c, r, p, x, ip, physical, frame)
    BY <2>3, <2>6, <2>14 DEF Came
  <2>16. \E y \in Sides : Came(c, r, p, y, ip, physical, frame)
    BY <2>1, <2>15
  <2>17. Turn(s, r, p, ip, physical, frame)
    BY <1>1, <2>12, <2>13, <2>16 DEF Turn
  <2> QED  BY <2>17 DEF r
<1> QED  BY <1>3, <1>4

-----------------------------------------------------------------------------
(* The loop.  What holds of its first state and, turn by turn, of the next *)
(* one, holds of its last: I is the set of the pairs of a number of turns  *)
(* and a state for which it holds.                                         *)

Keeps(I, ip, physical, frame) ==
    \A s \in LoopStates, p \in Ports :
        <<p, s>> \in I
            => /\ <<p + 1, s>> \in I
               /\ \A r \in LoopStates : Turn(s, r, p, ip, physical, frame) => <<p + 1, r>> \in I

LEMMA LoopKeeps ==
    ASSUME NEW ip \in Controllers, NEW address, NEW physical \in Physicals, NEW frame \in Frames,
           LoopStart \in LoopStates,
           NEW I, <<0, LoopStart>> \in I, Keeps(I, ip, physical, frame)
    PROVE  LET s == Loop(ip, address, physical, frame)
           IN  s \in LoopStates /\ <<MAX_PORTS, s>> \in I
<1> DEFINE Body(s, n) == IF s.returned \/ PortAddress[n - 1] # address THEN s
                         ELSE HandlePort(s, n - 1, ip, physical, frame)
           step == [n \in 1 .. MAX_PORTS |-> [s \in LoopStates |-> Body(s, n)]]
           Is(f) == f = [n \in 0 .. MAX_PORTS |->
                           IF n = 0 THEN LoopStart
                           ELSE IF f[n - 1].returned \/ PortAddress[n - 1] # address
                                THEN f[n - 1]
                                ELSE HandlePort(f[n - 1], n - 1, ip, physical, frame)]
           after == CHOOSE f : Is(f)
<1>1. /\ MAX_PORTS \in Nat /\ MAX_PORTS \in 0 .. MAX_PORTS
      /\ \A n \in 1 .. MAX_PORTS : n - 1 \in Ports /\ n - 1 \in 0 .. MAX_PORTS /\ (n - 1) + 1 = n
  BY OutputAssumption DEF Ports
<1>2. \A n \in 1 .. MAX_PORTS, s \in LoopStates :
         Body(s, n) = s \/ (Body(s, n) \in LoopStates /\ Turn(s, Body(s, n), n - 1, ip, physical, frame))
  <2> SUFFICES ASSUME NEW n \in 1 .. MAX_PORTS, NEW s \in LoopStates
               PROVE  \/ Body(s, n) = s
                      \/ Body(s, n) \in LoopStates /\ Turn(s, Body(s, n), n - 1, ip, physical, frame)
    OBVIOUS
  <2>1. Turn(s, HandlePort(s, n - 1, ip, physical, frame), n - 1, ip, physical, frame)
    BY <1>1, HandlePortIs
  <2> QED  BY <2>1 DEF Turn
<1> HIDE DEF Body
<1>3. step \in [1 .. MAX_PORTS -> [LoopStates -> LoopStates]]
  BY <1>2
<1>4. IsLoop(MAX_PORTS, LoopStates, LoopStart, step)
  BY <1>1, <1>3 DEF IsLoop
<1>5. PICK g : IsRunOf(g, MAX_PORTS, LoopStates, LoopStart, step)
  <2> HIDE DEF step
  <2> QED  BY <1>4, LoopRuns
<1>6. /\ g \in [0 .. MAX_PORTS -> LoopStates] /\ g[0] = LoopStart
      /\ \A n \in 1 .. MAX_PORTS : g[n] = Body(g[n - 1], n)
  BY <1>1, <1>5 DEF IsRunOf
<1>7. Is(g)
  BY <1>1, <1>6 DEF Body
<1>8. Is(after)
  <2> HIDE DEF Is
  <2> QED  BY <1>7
<1> HIDE DEF after
<1>9. after[0] = LoopStart /\ \A n \in 1 .. MAX_PORTS : after[n] = Body(after[n - 1], n)
  BY <1>1, <1>8 DEF Body
<1> DEFINE T == { n \in 0 .. MAX_PORTS : after[n] \in LoopStates /\ <<n, after[n]>> \in I }
<1>10. 0 \in T
  BY <1>1, <1>9
<1>11. ASSUME NEW n \in 1 .. MAX_PORTS, n - 1 \in T PROVE n \in T
  <2>1. after[n - 1] \in LoopStates /\ <<n - 1, after[n - 1]>> \in I
    BY <1>11
  <2>2. after[n] \in LoopStates
    BY <1>2, <1>9, <2>1
  <2>3. after[n] = after[n - 1] \/ Turn(after[n - 1], after[n], n - 1, ip, physical, frame)
    BY <1>2, <1>9, <2>1
  <2>4. <<n, after[n]>> \in I
    BY <1>1, <2>1, <2>2, <2>3 DEF Keeps
  <2> QED  BY <2>2, <2>4
<1>12. 0 .. MAX_PORTS \subseteq T
  <2> HIDE DEF T
  <2> QED  BY <1>1, <1>10, <1>11, LoopInduction
<1>13. Loop(ip, address, physical, frame) = after[MAX_PORTS]
  BY DEF Loop, after
<1> QED  BY <1>1, <1>12, <1>13

-----------------------------------------------------------------------------
(* What the other operators do to a port.                                  *)

SameSource(old, new) == new.ip = old.ip /\ new.physical = old.physical

(* Only the ages, the merge mode and the bits of the output may change. *)
SameSources(old, new) ==
    /\ SameSource(old.A, new.A) /\ SameSource(old.B, new.B)
    /\ new.isMerging = old.isMerging

Forgotten(new) == new.A.ip = NoIp /\ new.B.ip = NoIp

LEMMA ForgetIs ==
    ASSUME NEW o \in OutputPort
    PROVE  /\ Forget(o) \in OutputPort /\ Forgotten(Forget(o))
           /\ [Forget(o) EXCEPT !.isMerging = FALSE] \in OutputPort
           /\ Forgotten([Forget(o) EXCEPT !.isMerging = FALSE])
           /\ [Forget(o) EXCEPT !.isMerging = FALSE].isMerging = FALSE
           /\ [Forget(o) EXCEPT !.isMerging = FALSE].isDataPending = o.isDataPending
<1> DEFINE a == [o.A EXCEPT !.ip = NoIp]
           b == [o.B EXCEPT !.ip = NoIp]
           n == Forget(o)
           m == [n EXCEPT !.isMerging = FALSE]
<1>1. a \in Source /\ b \in Source /\ a.ip = NoIp /\ b.ip = NoIp
  BY DEF OutputPort, Source
<1>2. n = [o EXCEPT !.A = a, !.B = b]
  BY DEF Forget, OutputPort
<1> HIDE DEF a, b, n
<1>3. n \in OutputPort /\ n.A = a /\ n.B = b /\ n.isDataPending = o.isDataPending
  BY <1>1, <1>2 DEF OutputPort
<1>4. /\ m \in OutputPort /\ m.A = a /\ m.B = b /\ m.isMerging = FALSE
      /\ m.isDataPending = n.isDataPending
  BY <1>3 DEF OutputPort
<1> QED  BY <1>1, <1>3, <1>4 DEF Forgotten, n

LEMMA SyncedPortIs ==
    ASSUME NEW o \in OutputPort
    PROVE  /\ SyncedPort(o) \in OutputPort /\ SameSources(o, SyncedPort(o))
           /\ SyncedPort(o).ltp = o.ltp /\ ~SyncedPort(o).isDataPending
  BY DEF SyncedPort, OutputPort, SameSources, SameSource

Aged(o) == [o EXCEPT !.A.age = Older(@, MERGE_TIMEOUT + 1), !.B.age = Older(@, MERGE_TIMEOUT + 1)]

LEMMA AgedIs ==
    ASSUME NEW o \in OutputPort
    PROVE  /\ Aged(o) \in OutputPort /\ SameSources(o, Aged(o))
           /\ Aged(o).ltp = o.ltp /\ Aged(o).isDataPending = o.isDataPending
<1>1. \A age \in 0 .. MERGE_TIMEOUT + 1 : Older(age, MERGE_TIMEOUT + 1) \in 0 .. MERGE_TIMEOUT + 1
  BY OutputAssumption DEF Older
<1> DEFINE a == [o.A EXCEPT !.age = Older(@, MERGE_TIMEOUT + 1)]
           b == [o.B EXCEPT !.age = Older(@, MERGE_TIMEOUT + 1)]
           n == Aged(o)
<1>2. a \in Source /\ b \in Source /\ SameSource(o.A, a) /\ SameSource(o.B, b)
  BY <1>1 DEF OutputPort, Source, SameSource
<1>3. n = [o EXCEPT !.A = a, !.B = b]
  BY DEF Aged, OutputPort
<1> HIDE DEF a, b, n
<1>4. /\ n \in OutputPort /\ n.A = a /\ n.B = b /\ n.isMerging = o.isMerging /\ n.ltp = o.ltp
      /\ n.isDataPending = o.isDataPending
  BY <1>2, <1>3 DEF OutputPort
<1> QED  BY <1>2, <1>4 DEF SameSources, n

LEMMA ModeIs ==
    ASSUME NEW o \in OutputPort, NEW ltp \in BOOLEAN
    PROVE  LET n == [o EXCEPT !.ltp = ltp]
           IN  /\ n \in OutputPort /\ SameSources(o, n)
               /\ n.ltp = ltp /\ n.isDataPending = o.isDataPending
  BY DEF OutputPort, SameSources, SameSource

LEMMA FailSafeIs ==
    ASSUME NEW m \in DmxPort
    PROVE  FailSafeDmx(m) \in DmxPort
<1>1. 0 \in Level /\ LEVELS \in Level
  BY LightSetAssumption DEF Level
<1>2. FillLine(m, 0) \in DmxPort /\ FillLine(m, LEVELS) \in DmxPort
  BY <1>1, NoDataIs, LineIs
<1> QED  BY <1>2, OutputAssumption DEF FailSafeDmx

-----------------------------------------------------------------------------
(* Types. *)

LEMMA InitTypes == Init => TypeOK
<1> SUFFICES ASSUME Init PROVE TypeOK
  OBVIOUS
<1>1. NoSource \in Source
  BY OutputAssumption DEF NoSource, Source
<1>2. port \in [Ports -> OutputPort]
  BY <1>1 DEF Init, OutputPort
<1>3. data \in [Ports -> PortData] /\ dmx \in [Ports -> DmxPort]
  BY NoDataIs, NoDmxIs DEF Init
<1>4. 0 \in 0 .. SYNC_TIMEOUT /\ 0 \in 0 .. MaxSilence
  BY OutputAssumption
<1> QED  BY <1>2, <1>3, <1>4 DEF Init, TypeOK

LEMMA StartIs == TypeOK => LoopStart \in LoopStates
  BY DEF TypeOK, LoopStart, LoopStates

LEMMA DmxTypes ==
    ASSUME TypeOK, NEW ip \in Controllers, NEW address, NEW physical \in Physicals,
           NEW frame \in Frames, HandleDmx(ip, address, physical, frame)
    PROVE  TypeOK'
<1> DEFINE s == Loop(ip, address, physical, frame)
           I == (0 .. MAX_PORTS) \X LoopStates
<1>1. LoopStart \in LoopStates
  BY StartIs
<1>2. MAX_PORTS \in Nat /\ Ports = 0 .. MAX_PORTS - 1
  BY OutputAssumption DEF Ports
<1>3. <<0, LoopStart>> \in I /\ Keeps(I, ip, physical, frame)
  BY <1>1, <1>2 DEF Keeps
<1>4. s \in LoopStates
  <2> HIDE DEF I
  <2> QED  BY <1>1, <1>3, LoopKeeps
<1>5. /\ port' = s.port /\ data' = s.data /\ dmx' = s.dmx /\ isMergeMode' = s.isMergeMode
      /\ artDmxIp' = ip /\ syncAge' = syncAge /\ AnyPacket
  BY DEF HandleDmx
<1> HIDE DEF s
<1>6. packetAge' \in 0 .. MaxSilence /\ isSynchronousMode' \in BOOLEAN
  BY <1>5, OutputAssumption DEF AnyPacket
<1> QED  BY <1>4, <1>5, <1>6 DEF TypeOK, LoopStates

LEMMA AnyPacketIs == AnyPacket => packetAge' \in 0 .. MaxSilence /\ isSynchronousMode' \in BOOLEAN
  BY OutputAssumption DEF AnyPacket

LEMMA SyncedIs ==
    ASSUME TypeOK
    PROVE  SyncedDmx \in [Ports -> DmxPort]
<1>1. ASSUME NEW p \in Ports, NEW m \in DmxPort PROVE SyncStart(m, data[p]) \in DmxPort
  BY <1>1, LineIs DEF TypeOK
<1>2. \A p \in Ports : SyncPort(dmx[p], data[p]) \in DmxPort
  BY LineIs DEF TypeOK
<1> QED  BY <1>1, <1>2 DEF SyncedDmx, TypeOK

LEMMA StepTypes == TypeOK /\ [Next]_vars => TypeOK'
<1> SUFFICES ASSUME TypeOK, [Next]_vars PROVE TypeOK'
  OBVIOUS
<1>1. ASSUME NEW ip \in Controllers, NEW p \in Ports, NEW physical \in Physicals, NEW frame \in Frames,
             HandleDmx(ip, PortAddress[p], physical, frame)
      PROVE  TypeOK'
  BY <1>1, DmxTypes
<1>2. ASSUME NEW ip \in Controllers, ArtSync(ip) PROVE TypeOK'
  <2>1. 0 \in 0 .. MaxSilence /\ 0 \in 0 .. SYNC_TIMEOUT
    BY OutputAssumption
  <2>2. ASSUME HandleSync
        PROVE  port' \in [Ports -> OutputPort] /\ data' \in [Ports -> PortData] /\ dmx' \in [Ports -> DmxPort]
    <3>1. \A p \in Ports : SyncedPort(port[p]) \in OutputPort /\ SyncClear(data[p]) \in PortData
      BY SyncedPortIs, ClearIs DEF TypeOK
    <3> QED  BY <2>2, <3>1, SyncedIs DEF HandleSync
  <2> QED  BY <1>2, <2>1, <2>2 DEF ArtSync, TypeOK
<1>3. ASSUME CancelMerge PROVE TypeOK'
  <2>1. \A p \in Ports : [Forget(port[p]) EXCEPT !.isMerging = FALSE] \in OutputPort
    BY ForgetIs DEF TypeOK
  <2> QED  BY <1>3, <2>1, AnyPacketIs DEF CancelMerge, TypeOK
<1>4. ASSUME NEW p \in Ports, NEW ltp \in BOOLEAN, SetMergeMode(p, ltp) PROVE TypeOK'
  <2>1. [port[p] EXCEPT !.ltp = ltp] \in OutputPort
    BY ModeIs DEF TypeOK
  <2>2. port' \in [Ports -> OutputPort]
    BY <1>4, <2>1 DEF SetMergeMode, TypeOK
  <2> QED  BY <1>4, <2>2, AnyPacketIs DEF SetMergeMode, TypeOK
<1>5. ASSUME NEW p \in Ports, ClearOutput(p) PROVE TypeOK'
  <2>1. Clear(data[p]) \in PortData
    BY ClearIs DEF TypeOK
  <2>2. data' \in [Ports -> PortData]
    BY <1>5, <2>1 DEF ClearOutput, TypeOK
  <2>3. SetData(dmx[p], data'[p], TRUE) \in DmxPort
    BY <2>2, LineIs DEF TypeOK
  <2>4. dmx' \in [Ports -> DmxPort]
    BY <1>5, <2>3 DEF ClearOutput, TypeOK
  <2> QED  BY <1>5, <2>2, <2>4, AnyPacketIs DEF ClearOutput, TypeOK
<1>6. ASSUME OtherPacket PROVE TypeOK'
  BY <1>6, AnyPacketIs DEF OtherPacket, TypeOK
<1>7. ASSUME SetNetworkDataLossCondition PROVE TypeOK'
  <2>1. \A p \in Ports : /\ Forget(port[p]) \in OutputPort /\ ClearLength(data[p]) \in PortData
                         /\ FailSafeDmx(dmx[p]) \in DmxPort
    BY ForgetIs, ClearIs, FailSafeIs DEF TypeOK
  <2> QED  BY <1>7, <2>1 DEF SetNetworkDataLossCondition, TypeOK
<1>8. ASSUME Tick PROVE TypeOK'
  <2>1. port' = [p \in Ports |-> Aged(port[p])]
    BY <1>8 DEF Tick, Aged
  <2>2. port' \in [Ports -> OutputPort]
    BY <2>1, AgedIs DEF TypeOK
  <2>3. syncAge' \in 0 .. SYNC_TIMEOUT /\ packetAge' \in 0 .. MaxSilence
    <3>1. syncAge \in 0 .. SYNC_TIMEOUT /\ packetAge \in 0 .. MaxSilence
      BY DEF TypeOK
    <3>2. packetAge < MaxSilence /\ packetAge' = packetAge + 1 /\ syncAge' = Older(syncAge, SYNC_TIMEOUT)
      BY <1>8 DEF Tick
    <3>3. SYNC_TIMEOUT \in Nat /\ MaxSilence \in Nat
      BY OutputAssumption
    <3> QED  BY <3>1, <3>2, <3>3 DEF Older
  <2> QED  BY <1>8, <2>2, <2>3 DEF Tick, TypeOK
<1>9. ASSUME UNCHANGED vars PROVE TypeOK'
  BY <1>9 DEF vars, TypeOK
<1> QED  BY <1>1, <1>2, <1>3, <1>4, <1>5, <1>6, <1>7, <1>8, <1>9 DEF Next, ArtDmx, ArtAddress

(* Every variable stays in its type: a loop over any number of ports hands *)
(* the driver frames of at most SLOTS levels only.                         *)
THEOREM OutputTypeCorrect == Spec => []TypeOK
  BY InitTypes, StepTypes, PTL DEF Spec

-----------------------------------------------------------------------------
(* What a step does to the sources: a packet of data handles some ports,   *)
(* or the sources of all ports are kept, or all are forgotten.             *)

DataStep == \E ip \in Controllers, p \in Ports, physical \in Physicals, frame \in Frames :
                HandleDmx(ip, PortAddress[p], physical, frame)

AllKept ==
    /\ \A p \in Ports : SameSources(port[p], port'[p])
    /\ isMergeMode' = isMergeMode

AllForgotten == \A p \in Ports : Forgotten(port'[p])

LEMMA StepKinds ==
    ASSUME TypeOK, [Next]_vars
    PROVE  \/ DataStep \/ AllKept
           \/ AllForgotten /\ (CancelMerge \/ SetNetworkDataLossCondition)
<1>1. \A p \in Ports : port[p] \in OutputPort /\ SameSources(port[p], port[p])
  BY DEF TypeOK, SameSources, SameSource
<1>2. ASSUME ArtDmx PROVE DataStep
  BY <1>2 DEF ArtDmx, DataStep
<1>3. ASSUME NEW ip \in Controllers, ArtSync(ip) PROVE AllKept
  <2>1. CASE HandleSync
    <3>1. \A p \in Ports : SameSources(port[p], port'[p])
      BY <1>1, <2>1, SyncedPortIs DEF HandleSync
    <3> QED  BY <1>3, <3>1 DEF ArtSync, AllKept
  <2>2. CASE port' = port
    BY <1>1, <1>3, <2>2 DEF ArtSync, AllKept
  <2> QED  BY <1>3, <2>1, <2>2 DEF ArtSync
<1>4. ASSUME CancelMerge PROVE AllForgotten
  BY <1>1, <1>4, ForgetIs DEF CancelMerge, AllForgotten
<1>5. ASSUME NEW p \in Ports, NEW ltp \in BOOLEAN, SetMergeMode(p, ltp) PROVE AllKept
  <2>1. port' = [port EXCEPT ![p] = [port[p] EXCEPT !.ltp = ltp]]
    BY <1>5 DEF SetMergeMode, TypeOK
  <2>2. SameSources(port[p], [port[p] EXCEPT !.ltp = ltp])
    BY <1>1, ModeIs
  <2>3. port \in [Ports -> OutputPort]
    BY DEF TypeOK
  <2>4. \A q \in Ports : SameSources(port[q], port'[q])
    BY <1>1, <2>1, <2>2, <2>3
  <2> QED  BY <1>5, <2>4 DEF SetMergeMode, AllKept
<1>6. ASSUME NEW p \in Ports, ClearOutput(p) PROVE AllKept
  BY <1>1, <1>6 DEF ClearOutput, AllKept
<1>7. ASSUME OtherPacket PROVE AllKept
  BY <1>1, <1>7 DEF OtherPacket, AllKept
<1>8. ASSUME SetNetworkDataLossCondition PROVE AllForgotten
  <2>1. CASE \E p \in Ports : Live(port[p]) # {}
    BY <1>1, <1>8, <2>1, ForgetIs DEF SetNetworkDataLossCondition, AllForgotten
  <2>2. CASE \A p \in Ports : Live(port[p]) = {}
    <3>1. \A p \in Ports : Forgotten(port[p])
      BY <2>2, LiveIs DEF Forgotten
    <3> QED  BY <1>8, <2>2, <3>1 DEF SetNetworkDataLossCondition, AllForgotten
  <2> QED  BY <2>1, <2>2
<1>9. ASSUME Tick PROVE AllKept
  <2>1. port' = [p \in Ports |-> Aged(port[p])]
    BY <1>9 DEF Tick, Aged
  <2>2. \A p \in Ports : SameSources(port[p], port'[p])
    BY <1>1, <2>1, AgedIs
  <2> QED  BY <1>9, <2>2 DEF Tick, AllKept
<1>10. ASSUME UNCHANGED vars PROVE AllKept
  BY <1>1, <1>10 DEF vars, AllKept
<1> QED  BY <1>2, <1>3, <1>4, <1>5, <1>6, <1>7, <1>8, <1>9, <1>10 DEF Next, ArtAddress

LEMMA StepIs == TypeOK /\ [Next]_vars => DataStep \/ AllKept \/ AllForgotten
  BY StepKinds

HandlesDmx(ip, physical, frame) ==
    \E p \in Ports : HandleDmx(ip, PortAddress[p], physical, frame)

(* A packet of data takes the loop from where it starts to the next state. *)
LEMMA DataStepIs ==
    ASSUME TypeOK, DataStep
    PROVE  \E s \in LoopStates, ip \in Controllers, physical \in Physicals, frame \in Frames :
              /\ HandlesDmx(ip, physical, frame)
              /\ port' = s.port /\ data' = s.data /\ dmx' = s.dmx /\ isMergeMode' = s.isMergeMode
              /\ \A I : <<0, LoopStart>> \in I /\ Keeps(I, ip, physical, frame) => <<MAX_PORTS, s>> \in I
<1>1. PICK ip \in Controllers, p \in Ports, physical \in Physicals, frame \in Frames :
           HandleDmx(ip, PortAddress[p], physical, frame)
  BY DEF DataStep
<1> DEFINE s == Loop(ip, PortAddress[p], physical, frame)
           All == (0 .. MAX_PORTS) \X LoopStates
<1>2. LoopStart \in LoopStates
  BY StartIs
<1>3. MAX_PORTS \in Nat /\ Ports = 0 .. MAX_PORTS - 1
  BY OutputAssumption DEF Ports
<1>4. <<0, LoopStart>> \in All /\ Keeps(All, ip, physical, frame)
  BY <1>2, <1>3 DEF Keeps
<1>5. s \in LoopStates
  <2> HIDE DEF All
  <2> QED  BY <1>2, <1>4, LoopKeeps
<1>6. \A I : <<0, LoopStart>> \in I /\ Keeps(I, ip, physical, frame) => <<MAX_PORTS, s>> \in I
  BY <1>2, LoopKeeps
<1>7. port' = s.port /\ data' = s.data /\ dmx' = s.dmx /\ isMergeMode' = s.isMergeMode
  BY <1>1 DEF HandleDmx
<1>8. HandlesDmx(ip, physical, frame)
  BY <1>1 DEF HandlesDmx
<1> HIDE DEF s
<1> QED  BY <1>5, <1>6, <1>7, <1>8

-----------------------------------------------------------------------------
(* The node knows that it merges. *)

KnownIn(s) ==
    \A q \in Ports : Live(s.port[q]) = Sides => s.port[q].isMerging /\ s.isMergeMode

LEMMA OtherIs == \A x \in Sides : Other(x) \in Sides /\ Sides = {x, Other(x)} /\ Other(x) # x
  BY DEF Other, Sides

(* With the packet taken by x, both sources are live when the other one is. *)
LEMMA TakenIs ==
    ASSUME NEW o \in OutputPort, NEW n, NEW x \in Sides, NEW ip \in Controllers, NEW physical,
           Taken(o, n, x, ip, physical)
    PROVE  Live(n) = Sides <=> o[Other(x)].ip # NoIp
<1>1. ip # NoIp
  BY OutputAssumption
<1>2. n[x].ip # NoIp /\ n[Other(x)].ip = o[Other(x)].ip
  BY <1>1 DEF Taken
<1>3. CASE x = "A"
  BY <1>2, <1>3, LiveIs DEF Other
<1>4. CASE x = "B"
  BY <1>2, <1>4, LiveIs DEF Other
<1> QED  BY <1>3, <1>4 DEF Sides

LEMMA SentIs ==
    ASSUME NEW n, NEW m, NEW new, NEW line, Sent(n, m, new, line)
    PROVE  Live(new) = Live(n) /\ new.isMerging = n.isMerging /\ new.ltp = n.ltp
<1>1. new.A = n.A /\ new.B = n.B
  BY DEF Sent
<1> QED  BY <1>1 DEF Sent, Live, Sides

LEMMA TimeoutKnown ==
    ASSUME NEW s \in LoopStates, NEW c, NEW p \in Ports, TimedOut(s, c, p), KnownIn(s)
    PROVE  KnownIn(c)
<1> SUFFICES ASSUME NEW q \in Ports, Live(c.port[q]) = Sides
             PROVE  c.port[q].isMerging /\ c.isMergeMode
  BY DEF KnownIn
<1>1. Live(s.port[q]) = Sides /\ c.port[q].isMerging = s.port[q].isMerging
  <2>1. CASE q = p
    BY <2>1 DEF TimedOut, Checked
  <2>2. CASE q # p
    BY <2>2 DEF TimedOut, Elsewhere
  <2> QED  BY <2>1, <2>2
<1>2. s.port[q].isMerging /\ s.isMergeMode
  BY <1>1 DEF KnownIn
<1>3. c.port[q].isMerging
  BY <1>1, <1>2
<1> QED  BY <1>2, <1>3 DEF TimedOut

LEMMA TurnKnown ==
    ASSUME NEW s \in LoopStates, NEW r, NEW p \in Ports, NEW ip \in Controllers, NEW physical, NEW frame,
           Turn(s, r, p, ip, physical, frame), KnownIn(s)
    PROVE  KnownIn(r)
<1>1. PICK c \in LoopStates :
          /\ TimedOut(s, c, p) /\ Elsewhere(c, r, p)
          /\ Left(c, r, p) \/ \E x \in Sides : Came(c, r, p, x, ip, physical, frame)
  BY DEF Turn
<1>2. KnownIn(c)
  BY <1>1, TimeoutKnown
<1>3. c.isMergeMode \in BOOLEAN /\ c.port[p] \in OutputPort
  BY DEF LoopStates
<1>4. CASE Left(c, r, p)
  BY <1>1, <1>2, <1>4 DEF KnownIn, Left, Elsewhere
<1>5. ASSUME NEW x \in Sides, Came(c, r, p, x, ip, physical, frame) PROVE KnownIn(r)
  <2>1. PICK n \in OutputPort :
           /\ Taken(c.port[p], n, x, ip, physical)
           /\ Sent(n, c.dmx[p], r.port[p], r.dmx[p])
           /\ r.isMergeMode = (c.isMergeMode \/ c.port[p][Other(x)].ip # NoIp)
    BY <1>5 DEF Came
  <2>2. Live(r.port[p]) = Sides => r.port[p].isMerging /\ r.isMergeMode
    <3>1. Live(n) = Sides <=> c.port[p][Other(x)].ip # NoIp
      BY <1>3, <2>1, TakenIs
    <3>2. Live(r.port[p]) = Live(n) /\ r.port[p].isMerging = n.isMerging
      BY <2>1, SentIs
    <3>3. c.port[p][Other(x)].ip # NoIp => n.isMerging
      BY <1>3, <2>1 DEF Taken
    <3> QED  BY <2>1, <3>1, <3>2, <3>3
  <2>3. ASSUME NEW q \in Ports, q # p, Live(r.port[q]) = Sides
        PROVE  r.port[q].isMerging /\ r.isMergeMode
    <3>1. r.port[q] = c.port[q]
      BY <1>1, <2>3 DEF Elsewhere
    <3>2. c.port[q].isMerging /\ c.isMergeMode
      BY <1>2, <2>3, <3>1 DEF KnownIn
    <3> QED  BY <2>1, <3>1, <3>2
  <2> QED  BY <2>2, <2>3 DEF KnownIn
<1> QED  BY <1>1, <1>4, <1>5

LEMMA StepKnown == TypeOK /\ MergingPortKnown /\ [Next]_vars => MergingPortKnown'
<1> SUFFICES ASSUME TypeOK, MergingPortKnown, [Next]_vars PROVE MergingPortKnown'
  OBVIOUS
<1>1. CASE DataStep
  <2>1. PICK s \in LoopStates, ip \in Controllers, physical \in Physicals, frame \in Frames :
              /\ port' = s.port /\ isMergeMode' = s.isMergeMode
              /\ \A I : <<0, LoopStart>> \in I /\ Keeps(I, ip, physical, frame) => <<MAX_PORTS, s>> \in I
    BY <1>1, DataStepIs
  <2> DEFINE I == { ns \in (0 .. MAX_PORTS) \X LoopStates : KnownIn(ns[2]) }
  <2>2. MAX_PORTS \in Nat /\ \A p \in Ports : p + 1 \in 0 .. MAX_PORTS
    BY OutputAssumption DEF Ports
  <2>3. <<0, LoopStart>> \in I
    <3>1. KnownIn(LoopStart)
      BY DEF MergingPortKnown, KnownIn, LoopStart
    <3> QED  BY <2>2, <3>1, StartIs
  <2>4. Keeps(I, ip, physical, frame)
    BY <2>2, TurnKnown DEF Keeps
  <2>5. <<MAX_PORTS, s>> \in I
    <3> HIDE DEF I
    <3> QED  BY <2>1, <2>3, <2>4
  <2>6. KnownIn(s)
    BY <2>5
  <2> QED  BY <2>1, <2>6 DEF KnownIn, MergingPortKnown
<1>2. CASE AllKept
  <2> SUFFICES ASSUME NEW p \in Ports, Live(port'[p]) = Sides
               PROVE  port'[p].isMerging /\ isMergeMode'
    BY DEF MergingPortKnown
  <2>1. Live(port[p]) = Sides
    BY <1>2, LiveIs DEF AllKept, SameSources, SameSource
  <2> QED  BY <1>2, <2>1 DEF MergingPortKnown, AllKept, SameSources
<1>3. CASE AllForgotten
  <2>1. \A p \in Ports : Live(port'[p]) # Sides
    BY <1>3, LiveIs DEF AllForgotten, Forgotten
  <2> QED  BY <2>1 DEF MergingPortKnown
<1> QED  BY <1>1, <1>2, <1>3, StepIs

LEMMA InitSources == Init => \A p \in Ports : Live(port[p]) = {} /\ ~port[p].isMerging /\ ~port[p].isDataPending
<1> SUFFICES ASSUME Init, NEW p \in Ports
             PROVE  Live(port[p]) = {} /\ ~port[p].isMerging /\ ~port[p].isDataPending
  OBVIOUS
<1>1. port[p].A = NoSource /\ port[p].B = NoSource /\ port[p].isMerging = FALSE /\ port[p].isDataPending = FALSE
  BY DEF Init
<1> QED  BY <1>1, LiveIs DEF NoSource

(* A port with two live sources is marked, and the node is in merge mode,  *)
(* although the ports share that mode and each time-out of one port sets   *)
(* it anew: no ArtSync gets through to a merging port.                     *)
THEOREM MergingIsKnown == Spec => []MergingPortKnown
<1>1. Init => MergingPortKnown
  <2> SUFFICES ASSUME Init PROVE MergingPortKnown
    OBVIOUS
  <2>1. \A p \in Ports : Live(port[p]) # Sides
    BY InitSources DEF Sides
  <2> QED  BY <2>1 DEF MergingPortKnown
<1> QED  BY <1>1, StepKnown, OutputTypeCorrect, PTL DEF Spec

-----------------------------------------------------------------------------
(* Port by port.  The loop handles each port once at most, and nothing but *)
(* the mode goes from one port to the next.                                *)

PortTurn(p, new, d, line, ip, physical, frame) ==
    \E c \in OutputPort :
        /\ Checked(port[p], c)
        /\ \/ new = c /\ d = data[p] /\ line = dmx[p]
           \/ \E x \in Sides, n \in OutputPort :
                 /\ Taken(c, n, x, ip, physical) /\ Filled(c, d, x, frame)
                 /\ Sent(n, dmx[p], new, line)

Untouched(s, p) == s.port[p] = port[p] /\ s.data[p] = data[p] /\ s.dmx[p] = dmx[p]

Handled(s, p, ip, physical, frame) ==
    Untouched(s, p) \/ PortTurn(p, s.port[p], s.data[p], s.dmx[p], ip, physical, frame)

(* After n turns the ports below n may have been handled. *)
UpTo(n, s, ip, physical, frame) ==
    \A q \in Ports : Handled(s, q, ip, physical, frame) /\ (q >= n => Untouched(s, q))

LEMMA TurnHandles ==
    ASSUME NEW s \in LoopStates, NEW r, NEW p \in Ports, NEW ip \in Controllers, NEW physical, NEW frame,
           Turn(s, r, p, ip, physical, frame), Untouched(s, p)
    PROVE  /\ Handled(r, p, ip, physical, frame)
           /\ \A q \in Ports : q # p => /\ r.port[q] = s.port[q] /\ r.data[q] = s.data[q]
                                        /\ r.dmx[q] = s.dmx[q]
<1>1. PICK c \in LoopStates :
          /\ TimedOut(s, c, p) /\ Elsewhere(c, r, p)
          /\ Left(c, r, p) \/ \E x \in Sides : Came(c, r, p, x, ip, physical, frame)
  BY DEF Turn
<1>2. /\ c.port[p] \in OutputPort /\ Checked(port[p], c.port[p])
      /\ c.data[p] = data[p] /\ c.dmx[p] = dmx[p]
  BY <1>1 DEF LoopStates, TimedOut, Untouched
<1>3. \A q \in Ports : q # p => /\ r.port[q] = s.port[q] /\ r.data[q] = s.data[q]
                                /\ r.dmx[q] = s.dmx[q]
  BY <1>1 DEF TimedOut, Elsewhere
<1>4. CASE Left(c, r, p)
  BY <1>2, <1>3, <1>4 DEF Left, Handled, PortTurn
<1>5. ASSUME NEW x \in Sides, Came(c, r, p, x, ip, physical, frame) PROVE Handled(r, p, ip, physical, frame)
  <2>1. PICK n \in OutputPort :
           /\ Taken(c.port[p], n, x, ip, physical)
           /\ Filled(c.port[p], r.data[p], x, frame)
           /\ Sent(n, dmx[p], r.port[p], r.dmx[p])
    BY <1>2, <1>5 DEF Came
  <2> QED  BY <1>2, <2>1 DEF Handled, PortTurn
<1> QED  BY <1>1, <1>3, <1>4, <1>5

LEMMA DataStepPorts ==
    ASSUME TypeOK, DataStep
    PROVE  \E ip \in Controllers, physical \in Physicals, frame \in Frames :
              /\ HandlesDmx(ip, physical, frame)
              /\ \A p \in Ports :
                 \/ port'[p] = port[p] /\ data'[p] = data[p] /\ dmx'[p] = dmx[p]
                 \/ PortTurn(p, port'[p], data'[p], dmx'[p], ip, physical, frame)
<1>1. PICK s \in LoopStates, ip \in Controllers, physical \in Physicals, frame \in Frames :
          /\ HandlesDmx(ip, physical, frame)
          /\ port' = s.port /\ data' = s.data /\ dmx' = s.dmx
          /\ \A I : <<0, LoopStart>> \in I /\ Keeps(I, ip, physical, frame) => <<MAX_PORTS, s>> \in I
  BY DataStepIs
<1> DEFINE I == { ns \in (0 .. MAX_PORTS) \X LoopStates : UpTo(ns[1], ns[2], ip, physical, frame) }
<1>2. MAX_PORTS \in Nat /\ Ports = 0 .. MAX_PORTS - 1 /\ \A p \in Ports : p + 1 \in 0 .. MAX_PORTS
  BY OutputAssumption DEF Ports
<1>3. <<0, LoopStart>> \in I
  <2>1. UpTo(0, LoopStart, ip, physical, frame)
    BY DEF UpTo, Handled, Untouched, LoopStart
  <2> QED  BY <1>2, <2>1, StartIs
<1>4. Keeps(I, ip, physical, frame)
  <2> SUFFICES ASSUME NEW t \in LoopStates, NEW p \in Ports, UpTo(p, t, ip, physical, frame)
               PROVE  /\ UpTo(p + 1, t, ip, physical, frame)
                      /\ \A r \in LoopStates : Turn(t, r, p, ip, physical, frame) => UpTo(p + 1, r, ip, physical, frame)
    BY <1>2 DEF Keeps
  <2>1. \A q \in Ports : q >= p + 1 => q >= p /\ q # p
    BY <1>2
  <2>2. UpTo(p + 1, t, ip, physical, frame)
    BY <2>1 DEF UpTo
  <2>3. ASSUME NEW r \in LoopStates, Turn(t, r, p, ip, physical, frame)
        PROVE  UpTo(p + 1, r, ip, physical, frame)
    <3>1. Untouched(t, p)
      BY <1>2 DEF UpTo
    <3>2. /\ Handled(r, p, ip, physical, frame)
          /\ \A q \in Ports : q # p => /\ r.port[q] = t.port[q] /\ r.data[q] = t.data[q]
                                       /\ r.dmx[q] = t.dmx[q]
      BY <2>3, <3>1, TurnHandles
    <3>3. \A q \in Ports : q # p => /\ Handled(t, q, ip, physical, frame) => Handled(r, q, ip, physical, frame)
                                    /\ Untouched(t, q) => Untouched(r, q)
      BY <3>2 DEF Handled, Untouched
    <3> QED  BY <2>1, <3>2, <3>3 DEF UpTo
  <2> QED  BY <2>2, <2>3
<1>5. <<MAX_PORTS, s>> \in I
  <2> HIDE DEF I
  <2> QED  BY <1>1, <1>3, <1>4
<1>6. \A p \in Ports : Handled(s, p, ip, physical, frame)
  BY <1>5 DEF UpTo
<1> QED  BY <1>1, <1>6 DEF Handled, Untouched

-----------------------------------------------------------------------------
(* Two streams. *)

Distinct(o) == Live(o) = Sides => ~Matches(o.A, o.B.ip, o.B.physical)

LEMMA CheckedDistinct ==
    ASSUME NEW o, NEW n, Checked(o, n), Distinct(o)
    PROVE  Distinct(n)
<1> SUFFICES ASSUME Live(n) = Sides PROVE ~Matches(n.A, n.B.ip, n.B.physical)
  BY DEF Distinct
<1>1. n.A.ip # NoIp /\ n.B.ip # NoIp /\ Live(o) = Sides
  BY LiveIs DEF Checked
<1>2. /\ n.A.ip = o.A.ip /\ n.A.physical = o.A.physical
      /\ n.B.ip = o.B.ip /\ n.B.physical = o.B.physical
  BY <1>1 DEF Checked, MayExpire
<1> QED  BY <1>1, <1>2 DEF Distinct, Matches

LEMMA TakenDistinct ==
    ASSUME NEW o \in OutputPort, NEW n, NEW x \in Sides, NEW ip \in Controllers, NEW physical,
           Taken(o, n, x, ip, physical), Distinct(o)
    PROVE  Distinct(n)
<1> SUFFICES ASSUME Live(n) = Sides PROVE ~Matches(n.A, n.B.ip, n.B.physical)
  BY DEF Distinct
<1> DEFINE other == o[Other(x)]
<1>1. ip # NoIp /\ other.ip # NoIp
  BY OutputAssumption, TakenIs
<1>2. ~(other.ip = ip /\ other.physical = physical)
  <2>1. CASE Matches(o[x], ip, physical)
    <3>1. o[x].ip = ip /\ o[x].physical = physical
      BY <2>1 DEF Matches
    <3>2. Live(o) = Sides
      <4>1. CASE x = "A"
        BY <1>1, <3>1, <4>1, LiveIs DEF Other
      <4>2. CASE x = "B"
        BY <1>1, <3>1, <4>2, LiveIs DEF Other
      <4> QED  BY <4>1, <4>2 DEF Sides
    <3>3. ~Matches(o.A, o.B.ip, o.B.physical)
      BY <3>2 DEF Distinct
    <3>4. CASE x = "A"
      BY <3>1, <3>3, <3>4 DEF Matches, Other
    <3>5. CASE x = "B"
      BY <3>1, <3>3, <3>5 DEF Matches, Other
    <3> QED  BY <3>4, <3>5 DEF Sides
  <2>2. CASE ~Matches(o[x], ip, physical)
    BY <1>1, <2>2 DEF Taken, IsFrom
  <2> QED  BY <2>1, <2>2
<1>3. n[x].ip = ip /\ n[x].physical = physical /\ n[Other(x)] = other
  BY DEF Taken
<1>4. CASE x = "A"
  BY <1>2, <1>3, <1>4 DEF Other, Matches
<1>5. CASE x = "B"
  BY <1>2, <1>3, <1>5 DEF Other, Matches
<1> QED  BY <1>4, <1>5 DEF Sides

LEMMA PortTurnDistinct ==
    ASSUME NEW p \in Ports, NEW new, NEW d, NEW line, NEW ip \in Controllers, NEW physical, NEW frame,
           PortTurn(p, new, d, line, ip, physical, frame), Distinct(port[p])
    PROVE  Distinct(new)
<1>1. PICK c \in OutputPort :
        /\ Checked(port[p], c)
        /\ \/ new = c
           \/ \E x \in Sides, n \in OutputPort :
                 Taken(c, n, x, ip, physical) /\ Sent(n, dmx[p], new, line)
  BY DEF PortTurn
<1>2. Distinct(c)
  BY <1>1, CheckedDistinct
<1>3. ASSUME NEW x \in Sides, NEW n \in OutputPort,
             Taken(c, n, x, ip, physical), Sent(n, dmx[p], new, line)
      PROVE  Distinct(new)
  <2>1. Distinct(n)
    BY <1>2, <1>3, TakenDistinct
  <2>2. new.A = n.A /\ new.B = n.B /\ Live(new) = Live(n)
    BY <1>3, SentIs DEF Sent
  <2> QED  BY <2>1, <2>2 DEF Distinct
<1> QED  BY <1>1, <1>2, <1>3

LEMMA StepTwoStreams == TypeOK /\ TwoStreams /\ [Next]_vars => TwoStreams'
<1> SUFFICES ASSUME TypeOK, TwoStreams, [Next]_vars, NEW p \in Ports PROVE Distinct(port'[p])
  BY DEF TwoStreams, Distinct
<1>1. Distinct(port[p])
  BY DEF TwoStreams, Distinct
<1>2. CASE DataStep
  <2>1. PICK ip \in Controllers, physical \in Physicals, frame \in Frames :
          port'[p] = port[p] \/ PortTurn(p, port'[p], data'[p], dmx'[p], ip, physical, frame)
    BY <1>2, DataStepPorts
  <2> QED  BY <1>1, <2>1, PortTurnDistinct
<1>3. CASE AllKept
  BY <1>1, <1>3, LiveIs DEF AllKept, SameSources, SameSource, Distinct, Matches
<1>4. CASE AllForgotten
  BY <1>4, LiveIs DEF AllForgotten, Forgotten, Distinct
<1> QED  BY <1>2, <1>3, <1>4, StepIs

(* The two sources of a port are two streams, whatever time-outs freed a   *)
(* place and left its physical port behind.                                *)
THEOREM StreamsAreTwo == Spec => []TwoStreams
<1>1. Init => TwoStreams
  <2> SUFFICES ASSUME Init PROVE TwoStreams
    OBVIOUS
  <2>1. \A p \in Ports : Live(port[p]) # Sides
    BY InitSources DEF Sides
  <2> QED  BY <2>1 DEF TwoStreams
<1> QED  BY <1>1, StepTwoStreams, OutputTypeCorrect, PTL DEF Spec

-----------------------------------------------------------------------------
(* No source is evicted. *)

LEMMA PortTurnKeeps ==
    ASSUME NEW p \in Ports, NEW new, NEW d, NEW line, NEW ip \in Controllers, NEW physical, NEW frame,
           PortTurn(p, new, d, line, ip, physical, frame), NEW y \in Sides, port[p] \in OutputPort
    PROVE  new[y].ip = port[p][y].ip \/ port[p][y].ip = NoIp \/ Stale(port[p][y])
<1>1. PICK c \in OutputPort :
        /\ Checked(port[p], c)
        /\ \/ new = c
           \/ \E x \in Sides, n \in OutputPort :
                 Taken(c, n, x, ip, physical) /\ Sent(n, dmx[p], new, line)
  BY DEF PortTurn
<1>2. c[y].ip = port[p][y].ip \/ Stale(port[p][y])
  BY <1>1 DEF Checked, MayExpire, Sides
<1>3. ASSUME NEW x \in Sides, NEW n \in OutputPort,
             Taken(c, n, x, ip, physical), Sent(n, dmx[p], new, line)
      PROVE  new[y].ip = c[y].ip \/ c[y].ip = NoIp
  <2>1. new[y] = n[y]
    BY <1>3 DEF Sent, Sides
  <2>2. CASE y = x
    BY <1>3, <2>1, <2>2 DEF Taken, IsFrom, Matches
  <2>3. CASE y # x
    <3>1. y = Other(x)
      BY <2>3, OtherIs
    <3> QED  BY <1>3, <2>1, <3>1 DEF Taken
  <2> QED  BY <2>2, <2>3
<1> QED  BY <1>1, <1>2, <1>3

(* A source keeps its place until it is silent for the merge time-out or   *)
(* all places are cleared: for any number of controllers, whatever they    *)
(* send, and for all ports with one Port-Address.                          *)
THEOREM NobodyIsEvicted == Spec => NoEviction
<1>1. ASSUME TypeOK, [Next]_vars PROVE KeepsPlace
  <2> SUFFICES ASSUME NEW p \in Ports, NEW x \in Sides, port'[p][x].ip # port[p][x].ip
               PROVE  \/ port[p][x].ip = NoIp
                      \/ Stale(port[p][x])
                      \/ \A q \in Ports : Live(port'[q]) = {}
    BY DEF KeepsPlace
  <2>1. CASE DataStep
    <3>1. PICK ip \in Controllers, physical \in Physicals, frame \in Frames :
            port'[p] = port[p] \/ PortTurn(p, port'[p], data'[p], dmx'[p], ip, physical, frame)
      BY <1>1, <2>1, DataStepPorts
    <3>2. port[p] \in OutputPort
      BY <1>1 DEF TypeOK
    <3> QED  BY <3>1, <3>2, PortTurnKeeps
  <2>2. CASE AllKept
    BY <2>2 DEF AllKept, SameSources, SameSource, Sides
  <2>3. CASE AllForgotten
    BY <2>3, LiveIs DEF AllForgotten, Forgotten
  <2> QED  BY <1>1, <2>1, <2>2, <2>3, StepIs
<1>2. TypeOK /\ [Next]_vars => [KeepsPlace]_vars
  BY <1>1
<1> QED  BY <1>2, OutputTypeCorrect, PTL DEF Spec, NoEviction

-----------------------------------------------------------------------------
(* The higher of both sources. *)

Highest(o, d) ==
    Live(o) = Sides /\ ~o.ltp => \A i \in 1 .. d.length : d.out[i] = Higher(d.A[i], d.B[i])

LEMMA PortTurnHighest ==
    ASSUME NEW p \in Ports, NEW new, NEW d, NEW line, NEW ip \in Controllers, NEW physical, NEW frame,
           PortTurn(p, new, d, line, ip, physical, frame), Highest(port[p], data[p])
    PROVE  Highest(new, d)
<1>1. PICK c \in OutputPort :
        /\ Checked(port[p], c)
        /\ \/ new = c /\ d = data[p]
           \/ \E x \in Sides, n \in OutputPort :
                 Taken(c, n, x, ip, physical) /\ Filled(c, d, x, frame) /\ Sent(n, dmx[p], new, line)
  BY DEF PortTurn
<1>2. CASE new = c /\ d = data[p]
  BY <1>1, <1>2 DEF Checked, Highest
<1>3. ASSUME NEW x \in Sides, NEW n \in OutputPort,
             Taken(c, n, x, ip, physical), Filled(c, d, x, frame), Sent(n, dmx[p], new, line)
      PROVE  Highest(new, d)
  <2>1. Live(new) = Live(n) /\ new.ltp = n.ltp
    BY <1>3, SentIs
  <2>2. Live(n) = Sides => c[Other(x)].ip # NoIp
    BY <1>3, TakenIs
  <2>3. n.ltp = c.ltp
    BY <1>3 DEF Taken
  <2> QED  BY <1>3, <2>1, <2>2, <2>3 DEF Filled, Highest
<1> QED  BY <1>1, <1>2, <1>3

(* Only AcClear and a change to HTP may disturb it, until the next frame. *)
LEMMA StepHighest ==
    ASSUME TypeOK, HtpIsHighest, [Next]_vars,
           \A p \in Ports : ~ClearOutput(p) /\ ~SetMergeMode(p, FALSE)
    PROVE  HtpIsHighest'
<1> SUFFICES ASSUME NEW p \in Ports PROVE Highest(port'[p], data'[p])
  BY DEF HtpIsHighest, Highest
<1>1. Highest(port[p], data[p]) /\ port[p] \in OutputPort /\ data[p] \in PortData
  BY DEF HtpIsHighest, Highest, TypeOK
<1>2. CASE DataStep
  <2>1. PICK ip \in Controllers, physical \in Physicals, frame \in Frames :
          \/ port'[p] = port[p] /\ data'[p] = data[p]
          \/ PortTurn(p, port'[p], data'[p], dmx'[p], ip, physical, frame)
    BY <1>2, DataStepPorts
  <2> QED  BY <1>1, <2>1, PortTurnHighest
<1>3. CASE AllForgotten
  BY <1>3, LiveIs DEF AllForgotten, Forgotten, Highest
<1>4. ASSUME AllKept, port'[p].ltp = port[p].ltp \/ port'[p].ltp,
             data'[p] = data[p] \/ data'[p].length = 0
      PROVE  Highest(port'[p], data'[p])
  <2>1. Live(port'[p]) = Sides => Live(port[p]) = Sides
    BY <1>4, LiveIs DEF AllKept, SameSources, SameSource
  <2> QED  BY <1>1, <1>4, <2>1 DEF Highest
<1>5. ASSUME AllKept, ~DataStep, ~AllForgotten
      PROVE  /\ port'[p].ltp = port[p].ltp \/ port'[p].ltp
             /\ data'[p] = data[p] \/ data'[p].length = 0
  <2>1. ASSUME NEW ip \in Controllers, ArtSync(ip)
        PROVE  port'[p].ltp = port[p].ltp /\ (data'[p] = data[p] \/ data'[p].length = 0)
    <3>1. SyncedPort(port[p]).ltp = port[p].ltp /\ SyncClear(data[p]).length = 0
      BY <1>1, SyncedPortIs, ClearIs
    <3> QED  BY <2>1, <3>1 DEF ArtSync, HandleSync
  <2>2. ASSUME NEW q \in Ports, SetMergeMode(q, TRUE)
        PROVE  (port'[p].ltp = port[p].ltp \/ port'[p].ltp) /\ data'[p] = data[p]
    BY <1>1, <2>2 DEF SetMergeMode, TypeOK, OutputPort
  <2>3. ASSUME OtherPacket \/ UNCHANGED vars
        PROVE  port'[p].ltp = port[p].ltp /\ data'[p] = data[p]
    BY <2>3 DEF OtherPacket, vars
  <2>4. ASSUME Tick PROVE port'[p].ltp = port[p].ltp /\ data'[p] = data[p]
    <3>1. port' = [q \in Ports |-> Aged(port[q])] /\ data' = data
      BY <2>4 DEF Tick, Aged
    <3> QED  BY <1>1, <3>1, AgedIs
  <2>5. ASSUME CancelMerge PROVE AllForgotten
    BY <2>5, ForgetIs DEF CancelMerge, AllForgotten, TypeOK
  <2>6. ASSUME SetNetworkDataLossCondition
        PROVE  /\ port'[p].ltp = port[p].ltp
               /\ data'[p] = data[p] \/ data'[p].length = 0
    <3>1. Forget(port[p]).ltp = port[p].ltp
      BY <1>1 DEF Forget, OutputPort
    <3> QED  BY <1>1, <2>6, <3>1, ClearIs DEF SetNetworkDataLossCondition
  <2> QED  BY <1>5, <2>1, <2>2, <2>3, <2>4, <2>5, <2>6 DEF Next, ArtDmx, DataStep, ArtAddress
<1> QED  BY <1>2, <1>3, <1>4, <1>5, StepIs

(* When no command clears an output or changes a port to HTP while it      *)
(* merges, each slot that a port in HTP mode has ready is the higher level *)
(* of both sources, for any lengths of frames.                             *)
THEOREM HighestIsSent ==
    ASSUME Commands \cap {"CLR", "MERGE_HTP"} = {}
    PROVE  Spec => []HtpIsHighest
<1>1. Init => HtpIsHighest
  <2> SUFFICES ASSUME Init PROVE HtpIsHighest
    OBVIOUS
  <2>1. \A p \in Ports : Live(port[p]) # Sides
    BY InitSources DEF Sides
  <2> QED  BY <2>1 DEF HtpIsHighest
<1>2. \A p \in Ports : ~ClearOutput(p) /\ ~SetMergeMode(p, FALSE)
  BY DEF ClearOutput, SetMergeMode
<1>3. TypeOK /\ HtpIsHighest /\ [Next]_vars => HtpIsHighest'
  BY <1>2, StepHighest
<1> QED  BY <1>1, <1>3, OutputTypeCorrect, PTL DEF Spec

-----------------------------------------------------------------------------
(* Frames that wait for the ArtSync.                                       *)

LEMMA StepPending == ASSUME TypeOK, [Next]_vars PROVE KeepsPending
<1> SUFFICES ASSUME NEW p \in Ports,
                    port'[p].isDataPending, data'[p].length = 0,
                    port[p].isDataPending => data[p].length # 0,
                    ~SetNetworkDataLossCondition
             PROVE  EmptyDmx
  BY DEF KeepsPending, Unfilled
<1>1. port[p] \in OutputPort /\ data[p] \in PortData
  BY DEF TypeOK
<1>2. ASSUME DataStep PROVE EmptyDmx
  <2>1. PICK ip \in Controllers, physical \in Physicals, frame \in Frames :
          /\ HandlesDmx(ip, physical, frame)
          /\ \/ port'[p] = port[p] /\ data'[p] = data[p]
             \/ PortTurn(p, port'[p], data'[p], dmx'[p], ip, physical, frame)
    BY <1>2, DataStepPorts
  <2>2. PortTurn(p, port'[p], data'[p], dmx'[p], ip, physical, frame)
    BY <2>1
  <2>3. \/ data'[p] = data[p] /\ Checked(port[p], port'[p])
        \/ data'[p].length = Len(frame)
    BY <2>2 DEF PortTurn, Filled
  <2>4. Len(frame) = 0
    BY <2>3 DEF Checked
  <2>5. frame = << >>
    <3>1. frame \in Frame
      BY OutputAssumption
    <3>2. frame \in [1 .. Len(frame) -> Level]
      BY <3>1, FrameIs
    <3>3. frame \in Seq(Level)
      BY <2>4, <3>2
    <3> QED  BY <2>4, <3>3
  <2> QED  BY <2>1, <2>5 DEF HandlesDmx, EmptyDmx
<1>3. ASSUME NEW ip \in Controllers, ArtSync(ip) PROVE FALSE
  <2>1. ~SyncedPort(port[p]).isDataPending
    BY <1>1, SyncedPortIs
  <2> QED  BY <1>1, <1>3, <2>1 DEF ArtSync, HandleSync
<1>4. ~CancelMerge
  BY <1>1, ForgetIs DEF CancelMerge
<1>5. ASSUME NEW q \in Ports, NEW ltp \in BOOLEAN, SetMergeMode(q, ltp) PROVE FALSE
  BY <1>1, <1>5 DEF SetMergeMode, TypeOK, OutputPort
<1>6. ASSUME NEW q \in Ports, ClearOutput(q) PROVE FALSE
  BY <1>1, <1>6, ClearIs DEF ClearOutput, TypeOK
<1>7. ~OtherPacket /\ ~UNCHANGED vars
  BY <1>1 DEF OtherPacket, vars
<1>8. ASSUME Tick PROVE FALSE
  <2>1. port' = [q \in Ports |-> Aged(port[q])] /\ data' = data
    BY <1>8 DEF Tick, Aged
  <2> QED  BY <1>1, <2>1, AgedIs
<1> QED  BY <1>2, <1>3, <1>4, <1>5, <1>6, <1>7, <1>8 DEF Next, ArtDmx, DataStep, ArtAddress

(* Whatever frames and commands come, a port comes to wait without data    *)
(* by the loss of the network data or by an ArtDmx without slots only: the *)
(* merge, the time-outs, AcClear and the ArtSync itself, which clears the  *)
(* length of every port, leave none behind.                                *)
THEOREM PendingIsFilled == Spec => PendingHasData
<1>1. TypeOK /\ [Next]_vars => [KeepsPending]_vars
  BY StepPending
<1> QED  BY <1>1, OutputTypeCorrect, PTL DEF Spec, PendingHasData

-----------------------------------------------------------------------------
(* In synchronous mode, as long as the network is not silent for so long   *)
(* that the data counts as lost.                                           *)

NeverLost == MaxSilence < NETWORK_DATA_LOSS_TIMEOUT

LEMMA NoLoss == NeverLost /\ TypeOK => ~SetNetworkDataLossCondition
  BY OutputAssumption DEF NeverLost, TypeOK, SetNetworkDataLossCondition

(* Only a port with two sources is marked as merging.                      *)

MergingIsTwo(o) == o.isMerging => Live(o) = Sides
OnlyTwoMerge == \A p \in Ports : MergingIsTwo(port[p])

LEMMA CheckedTwo ==
    ASSUME NEW o, NEW n, Checked(o, n), MergingIsTwo(o)
    PROVE  MergingIsTwo(n)
<1> SUFFICES ASSUME n.isMerging PROVE Live(n) = Sides
  BY DEF MergingIsTwo
<1>1. o.isMerging /\ n.A.ip = o.A.ip /\ n.B.ip = o.B.ip
  BY DEF Checked
<1> QED  BY <1>1, LiveIs DEF MergingIsTwo

LEMMA TakenTwo ==
    ASSUME NEW o \in OutputPort, NEW n, NEW x \in Sides, NEW ip \in Controllers, NEW physical,
           Taken(o, n, x, ip, physical), MergingIsTwo(o)
    PROVE  MergingIsTwo(n)
<1> SUFFICES ASSUME n.isMerging PROVE Live(n) = Sides
  BY DEF MergingIsTwo
<1>1. n[x].ip = ip /\ ip # NoIp /\ n[Other(x)] = o[Other(x)]
  BY OutputAssumption DEF Taken
<1>2. o[Other(x)].ip # NoIp
  <2>1. CASE o.isMerging
    <3>1. o.A.ip # NoIp /\ o.B.ip # NoIp
      BY <2>1, LiveIs DEF MergingIsTwo
    <3> QED  BY <3>1 DEF Sides, Other
  <2>2. CASE ~o.isMerging
    BY <2>2 DEF Taken
  <2> QED  BY <2>1, <2>2
<1>3. CASE x = "A"
  BY <1>1, <1>2, <1>3, LiveIs DEF Other
<1>4. CASE x = "B"
  BY <1>1, <1>2, <1>4, LiveIs DEF Other
<1> QED  BY <1>3, <1>4 DEF Sides

(* A port that is not left with two sources sends only at once when the    *)
(* node is not in synchronous mode.                                        *)
LEMMA PortTurnWaits ==
    ASSUME NEW p \in Ports, NEW new, NEW d, NEW line, NEW ip \in Controllers, NEW physical, NEW frame,
           PortTurn(p, new, d, line, ip, physical, frame), MergingIsTwo(port[p])
    PROVE  /\ MergingIsTwo(new)
           /\ isSynchronousMode' /\ Live(new) # Sides => line = dmx[p]
<1>1. PICK c \in OutputPort :
        /\ Checked(port[p], c)
        /\ \/ new = c /\ line = dmx[p]
           \/ \E x \in Sides, n \in OutputPort :
                 Taken(c, n, x, ip, physical) /\ Sent(n, dmx[p], new, line)
  BY DEF PortTurn
<1>2. MergingIsTwo(c)
  BY <1>1, CheckedTwo
<1>3. ASSUME NEW x \in Sides, NEW n \in OutputPort,
             Taken(c, n, x, ip, physical), Sent(n, dmx[p], new, line)
      PROVE  /\ MergingIsTwo(new)
             /\ isSynchronousMode' /\ Live(new) # Sides => line = dmx[p]
  <2>1. MergingIsTwo(n)
    BY <1>2, <1>3, TakenTwo
  <2>2. new.isMerging = n.isMerging /\ Live(new) = Live(n)
    BY <1>3, SentIs DEF Sent
  <2>3. Waits(n) => line = dmx[p]
    BY <1>3 DEF Sent
  <2>4. isSynchronousMode' /\ Live(new) # Sides => Waits(n)
    BY <2>1, <2>2 DEF MergingIsTwo, Waits
  <2>5. MergingIsTwo(new)
    BY <2>1, <2>2 DEF MergingIsTwo
  <2> QED  BY <2>3, <2>4, <2>5
<1> QED  BY <1>1, <1>2, <1>3

LEMMA StepTwo ==
    ASSUME NeverLost, TypeOK, OnlyTwoMerge, [Next]_vars
    PROVE  OnlyTwoMerge'
<1> SUFFICES ASSUME NEW p \in Ports PROVE MergingIsTwo(port'[p])
  BY DEF OnlyTwoMerge, MergingIsTwo
<1>1. MergingIsTwo(port[p]) /\ port[p] \in OutputPort
  BY DEF OnlyTwoMerge, TypeOK
<1>2. CASE DataStep
  <2>1. PICK ip \in Controllers, physical \in Physicals, frame \in Frames :
          port'[p] = port[p] \/ PortTurn(p, port'[p], data'[p], dmx'[p], ip, physical, frame)
    BY <1>2, DataStepPorts
  <2>2. CASE PortTurn(p, port'[p], data'[p], dmx'[p], ip, physical, frame)
    BY <1>1, <2>2, PortTurnWaits
  <2> QED  BY <1>1, <2>1, <2>2
<1>3. CASE AllKept
  BY <1>1, <1>3, LiveIs DEF AllKept, SameSources, SameSource, MergingIsTwo
<1>4. CASE CancelMerge
  BY <1>1, <1>4, ForgetIs DEF CancelMerge, MergingIsTwo
<1> QED  BY <1>2, <1>3, <1>4, StepKinds, NoLoss

LEMMA StepWaits ==
    ASSUME NeverLost, TypeOK, OnlyTwoMerge, [Next]_vars
    PROVE  WaitsForSync
<1> SUFFICES ASSUME isSynchronousMode, isSynchronousMode', NEW p \in Ports,
                    Live(port'[p]) # Sides, dmx'[p].sent # dmx[p].sent
             PROVE  \/ port[p].isDataPending /\ ~port'[p].isDataPending
                    \/ ClearOutput(p)
  BY DEF WaitsForSync
<1>1. /\ MergingIsTwo(port[p]) /\ port[p] \in OutputPort /\ data[p] \in PortData
      /\ dmx[p] \in DmxPort /\ dmx \in [Ports -> DmxPort]
  BY DEF OnlyTwoMerge, TypeOK
<1>2. CASE DataStep
  <2>1. PICK ip \in Controllers, physical \in Physicals, frame \in Frames :
          \/ dmx'[p] = dmx[p]
          \/ PortTurn(p, port'[p], data'[p], dmx'[p], ip, physical, frame)
    BY <1>2, DataStepPorts
  <2>2. CASE PortTurn(p, port'[p], data'[p], dmx'[p], ip, physical, frame)
    <3>1. dmx'[p] = dmx[p]
      BY <1>1, <2>2, PortTurnWaits
    <3> QED  BY <3>1
  <2> QED  BY <2>1, <2>2
<1>3. ASSUME NEW ip \in Controllers, ArtSync(ip)
      PROVE  port[p].isDataPending /\ ~port'[p].isDataPending
  <2>1. HandleSync
    BY <1>3 DEF ArtSync
  <2>2. ~SyncedPort(port[p]).isDataPending
    BY <1>1, SyncedPortIs
  <2>3. SyncStart(dmx[p], data[p]).sent = dmx[p].sent
    BY <1>1, LineIs
  <2>4. ASSUME ~port[p].isDataPending PROVE dmx'[p].sent = dmx[p].sent
    BY <2>1, <2>3, <2>4 DEF HandleSync, SyncedDmx
  <2> QED  BY <2>1, <2>2, <2>4 DEF HandleSync
<1>4. ASSUME NEW q \in Ports, ClearOutput(q) PROVE ClearOutput(p)
  <2>1. CASE q = p
    BY <1>4, <2>1
  <2>2. CASE q # p
    <3>1. dmx'[p] = dmx[p]
      BY <1>1, <1>4, <2>2 DEF ClearOutput
    <3> QED  BY <3>1
  <2> QED  BY <2>1, <2>2
<1>5. ASSUME OtherPacket \/ CancelMerge \/ Tick \/ UNCHANGED vars PROVE FALSE
  BY <1>5 DEF OtherPacket, CancelMerge, Tick, vars
<1>6. ASSUME NEW q \in Ports, NEW ltp \in BOOLEAN, SetMergeMode(q, ltp) PROVE FALSE
  BY <1>6 DEF SetMergeMode
<1> QED  BY <1>2, <1>3, <1>4, <1>5, <1>6, NoLoss DEF Next, ArtDmx, DataStep, ArtAddress

(* In synchronous mode a port with one source sends nothing new but the    *)
(* frame an ArtSync releases, on any number of ports and although the      *)
(* merging of one port bypasses the wait, as long as data is never lost.   *)
THEOREM WaitingForSync == ASSUME NeverLost PROVE Spec => BufferedUntilSync
<1>1. Init => OnlyTwoMerge
  BY InitSources DEF OnlyTwoMerge, MergingIsTwo
<1>2. TypeOK /\ OnlyTwoMerge /\ [Next]_vars => OnlyTwoMerge'
  BY StepTwo
<1>3. TypeOK /\ OnlyTwoMerge /\ [Next]_vars => [WaitsForSync]_vars
  BY StepWaits
<1> QED  BY <1>1, <1>2, <1>3, OutputTypeCorrect, PTL DEF Spec, BufferedUntilSync
=============================================================================
