---------------------------- MODULE RdmTodProofs ----------------------------
(***************************************************************************)
(* The Table of Devices lists no UID twice and none that was made up, for  *)
(* a discovery on its own (TodGenuine of RdmDiscovery) and for the         *)
(* discovery that the gateway of ArtNetRdm drives, together with the types *)
(* of the gateway's variables and the status that it publishes; and a      *)
(* discovery that loses fewer messages than it has retries finds every     *)
(* responder (FinishedComplete and PresentStay of RdmDiscovery).           *)
(***************************************************************************)
EXTENDS ArtNetRdm, RdmDiscoveryProofs, FiniteSetTheorems

-----------------------------------------------------------------------------
(* The operators of the table.                                             *)

Genuine(t, known) ==
    /\ \A i, j \in DOMAIN t : t[i] = t[j] => i = j
    /\ TodUids(t) \subseteq known

LEMMA AddUidGenuine ==
    ASSUME NEW t \in Seq(Uid), NEW known \in SUBSET Uid, Genuine(t, known),
           NEW uid \in known
    PROVE  Genuine(AddUid(t, uid), known)
<1>1. CASE AddUid(t, uid) = t
  BY <1>1
<1>2. CASE ~Exist(t, uid) /\ AddUid(t, uid) = Append(t, uid)
  <2> DEFINE n == Len(t)
             s == Append(t, uid)
  <2>1. /\ n \in Nat /\ DOMAIN t = 1 .. n /\ DOMAIN s = 1 .. n + 1
        /\ s[n + 1] = uid /\ \A i \in 1 .. n : s[i] = t[i] /\ t[i] # uid
    BY <1>2 DEF Exist, TodUids
  <2> HIDE DEF n, s
  <2>2. \A i \in 1 .. n + 1 : i \in 1 .. n \/ i = n + 1
    BY <2>1
  <2>3. \A i, j \in DOMAIN s : s[i] = s[j] => i = j
    BY <2>1, <2>2 DEF Genuine
  <2>4. TodUids(s) \subseteq known
    BY <2>1, <2>2 DEF Genuine, TodUids
  <2> QED
    BY <1>2, <2>3, <2>4 DEF Genuine, s
<1> QED
  BY <1>1, <1>2 DEF AddUid

LEMMA DeleteGenuine ==
    ASSUME NEW t \in Seq(Uid), NEW known \in SUBSET Uid, Genuine(t, known),
           NEW uid
    PROVE  Genuine(Delete(t, uid), known)
<1> DEFINE first == CHOOSE i \in DOMAIN t :
                        t[i] = uid /\ \A j \in DOMAIN t : t[j] = uid => i <= j
           n == Len(t)
           From(i) == IF i < first THEN i ELSE i + 1
           s == [i \in 1 .. (n - 1) |-> IF i < first THEN t[i] ELSE t[i + 1]]
<1>1. CASE ~Exist(t, uid)
  BY <1>1 DEF Delete
<1>2. CASE Exist(t, uid)
  <2>1. n \in Nat /\ DOMAIN t = 1 .. n
    OBVIOUS
  <2>2. first \in Nat
    <3>1. PICK k \in DOMAIN t : t[k] = uid
      BY <1>2 DEF Exist, TodUids
    <3>2. \A j \in DOMAIN t : t[j] = uid => k <= j
      BY <2>1, <3>1 DEF Genuine
    <3> QED
      BY <2>1, <3>1, <3>2
  <2>3. Delete(t, uid) = s /\ DOMAIN s = 1 .. (n - 1)
    BY <1>2 DEF Delete
  <2> HIDE DEF first, n
  <2>4. \A i \in 1 .. (n - 1) : s[i] = t[From(i)] /\ From(i) \in 1 .. n
    BY <2>1, <2>2
  <2>5. \A i, j \in 1 .. (n - 1) : From(i) = From(j) => i = j
    BY <2>1, <2>2
  <2> HIDE DEF s, From
  <2>6. \A i, j \in DOMAIN s : s[i] = s[j] => i = j
    BY <2>1, <2>3, <2>4, <2>5 DEF Genuine
  <2>7. TodUids(s) \subseteq known
    BY <2>1, <2>3, <2>4 DEF Genuine, TodUids
  <2> QED
    BY <2>3, <2>6, <2>7 DEF Genuine
<1> QED
  BY <1>1, <1>2

-----------------------------------------------------------------------------
(* The line.                                                               *)

(* Only a responder of that line has ever acknowledged a DISC_MUTE. *)
GenuineLine ==
    \A p \in Ports :
        /\ devices[p] \subseteq Devices[p]
        /\ line[p].kind = "MUTE_ACK" => line[p].uid \in Devices[p]

GInv == IInv /\ GenuineLine /\ TodGenuine

(* A step either sends a request or takes replies off the line. *)
QuietLine ==
    /\ devices' = devices
    /\ \/ line' = line
       \/ line' = [line EXCEPT ![portIndex] = NoReply]

Pids == {"DISC_UNIQUE_BRANCH", "DISC_MUTE", "DISC_UN_MUTE"}

LEMMA TransmitGenuine ==
    ASSUME GInv, NEW request, NEW budget,
           request.pid \in Pids, Transmit(request, budget)
    PROVE  GenuineLine'
<1> DEFINE reply == ReplyTo(request, devices[portIndex], muted[portIndex])
           Heard(r) == line' = [line EXCEPT ![portIndex] = IF r = NoReply THEN @ ELSE r]
<1>1. devices' = devices
  BY DEF Transmit
<1>2. reply.kind = "MUTE_ACK" => reply.uid \in devices[portIndex]
  <2>1. CASE request.pid = "DISC_UNIQUE_BRANCH"
    BY <2>1 DEF ReplyTo, NoReply, DubReply, Collision
  <2>2. CASE request.pid = "DISC_MUTE"
    BY <2>2 DEF ReplyTo, MuteAck, NoReply
  <2>3. CASE request.pid = "DISC_UN_MUTE"
    BY <2>3 DEF ReplyTo, NoReply
  <2> QED
    BY <2>1, <2>2, <2>3 DEF Pids
<1>3. \A r \in Noise : r.kind # "MUTE_ACK"
  BY DiscoveryAssumption DEF NoReply, Collision, DubReply
<1>4. portIndex \in Ports /\ line \in [Ports -> Replies]
  BY DEF GInv, IInv, TypeOK, MachineTypeOK, LineTypeOK
<1>5. Heard(reply) \/ line' = line \/ \E r \in Noise : Heard(r)
  BY DEF Transmit
<1> HIDE DEF reply
<1> QED
  BY <1>1, <1>2, <1>3, <1>4, <1>5 DEF GInv, GenuineLine

LEMMA QuietGenuine ==
    ASSUME GInv, QuietLine
    PROVE  GenuineLine'
<1>1. NoReply.kind # "MUTE_ACK"
  BY DEF NoReply
<1>2. portIndex \in Ports /\ line \in [Ports -> Replies]
  BY DEF GInv, IInv, TypeOK, MachineTypeOK, LineTypeOK
<1> QED
  BY <1>1, <1>2 DEF GInv, GenuineLine, QuietLine

LEMMA SentPid ==
    ASSUME NEW uid, NEW lower, NEW upper
    PROVE  /\ DiscMute(uid).pid \in Pids
           /\ DiscUnMute.pid \in Pids
           /\ DiscUniqueBranch(lower, upper).pid \in Pids
BY DEF DiscMute, DiscUnMute, DiscUniqueBranch, Pids

LEMMA ProcessLine ==
    ASSUME GInv, Process
    PROVE  GenuineLine'
<1>1. CASE LateResponse \/ UnMuteWait
  BY <1>1, QuietGenuine DEF LateResponse, UnMuteWait, QuietLine
<1>2. CASE UnMuteDone \/ MuteDone \/ MuteGone \/ DiscoveryFinished
             \/ DiscoverySingleUid \/ SingleGiveUp \/ DubSilence \/ DubFound
             \/ DubSplit \/ QuickGiveUp \/ QuickDiscoveryGiveUp \/ Finished
  <2>1. UNCHANGED lineVars
    BY <1>2
    DEF UnMuteDone, MuteDone, MuteGone, DiscoveryFinished, DiscoverySingleUid,
        SingleGiveUp, DubSilence, DubFound, DubSplit, QuickGiveUp,
        QuickDiscoveryGiveUp, Finished
  <2> QED
    BY <2>1, QuietGenuine DEF lineVars, QuietLine
<1>3. CASE MuteAnswer \/ DiscoveryAnswer \/ SingleAnswer \/ QuickAnswer
             \/ QuickInvalid \/ QuickDiscoveryFound \/ QuickDiscoveryCollision
  <2>1. Receive \/ UNCHANGED lineVars
    BY <1>3
    DEF MuteAnswer, DiscoveryAnswer, SingleAnswer, QuickAnswer, QuickInvalid,
        QuickDiscoveryFound, QuickDiscoveryCollision
  <2> QED
    BY <2>1, QuietGenuine DEF Receive, lineVars, QuietLine
<1>4. CASE QuickTimeOut \/ QuickDiscoveryTimeOut
  BY <1>4, QuietGenuine
  DEF QuickTimeOut, QuickDiscoveryTimeOut, TimeOutQuietly, QuietLine
<1>5. CASE UnMuteSend \/ MuteSend \/ DiscoverySend \/ SingleSend \/ QuickSend
             \/ QuickDiscoverySend
  BY <1>5, TransmitGenuine, SentPid
  DEF UnMuteSend, MuteSend, DiscoverySend, SingleSend, QuickSend,
      QuickDiscoverySend
<1>6. CASE MuteTimeOut \/ DiscoveryTimeOut \/ SingleTimeOut
  BY <1>6, TransmitGenuine, SentPid
  DEF MuteTimeOut, DiscoveryTimeOut, SingleTimeOut
<1> QED
  BY <1>1, <1>2, <1>3, <1>4, <1>5, <1>6 DEF Process

-----------------------------------------------------------------------------
(* The table.                                                              *)

(* What a step may make of the table of a port. *)
LEMMA ChangedTod ==
    ASSUME GInv, NEW p \in Ports, NEW t, tod' = [tod EXCEPT ![p] = t],
           Genuine(t, Devices[p])
    PROVE  TodGenuine'
BY DEF GInv, IInv, TypeOK, MachineTypeOK, TodGenuine, Genuine

LEMMA GenuineNow ==
    ASSUME GInv
    PROVE  /\ portIndex \in Ports
           /\ \A p \in Ports : /\ tod[p] \in Seq(Uid)
                               /\ Devices[p] \in SUBSET Uid
                               /\ Genuine(tod[p], Devices[p])
BY DiscoveryAssumption
   DEF GInv, IInv, TypeOK, MachineTypeOK, TodGenuine, Genuine

LEMMA ProcessTod ==
    ASSUME GInv, Process
    PROVE  TodGenuine'
<1>1. CASE MuteGone
  <2>1. Genuine(Delete(tod[portIndex], mute.uid), Devices[portIndex])
    BY GenuineNow, DeleteGenuine
  <2> QED
    BY <1>1, <2>1, GenuineNow, ChangedTod DEF MuteGone
<1>2. CASE SingleAnswer
  <2>1. CASE Received = MuteAck(branch.lower)
    <3>1. branch.lower \in Devices[portIndex]
      BY <2>1, GenuineNow DEF Received, MuteAck, GInv, GenuineLine
    <3>2. Genuine(AddUid(tod[portIndex], branch.lower), Devices[portIndex])
      BY <3>1, GenuineNow, AddUidGenuine
    <3> QED
      BY <1>2, <2>1, <3>2, GenuineNow, ChangedTod DEF SingleAnswer
  <2>2. CASE Received # MuteAck(branch.lower)
    BY <1>2, <2>2 DEF SingleAnswer, GInv, TodGenuine
  <2> QED
    BY <2>1, <2>2
<1>3. CASE QuickAnswer
  <2>1. CASE Received.uid = quikFind.uid
    <3>1. Received.uid \in Devices[portIndex]
      BY <1>3, GenuineNow DEF QuickAnswer, Received, GInv, GenuineLine
    <3>2. Genuine(AddUid(tod[portIndex], Received.uid), Devices[portIndex])
      BY <3>1, GenuineNow, AddUidGenuine
    <3> QED
      BY <1>3, <2>1, <3>2, GenuineNow, ChangedTod DEF QuickAnswer
  <2>2. CASE Received.uid # quikFind.uid
    BY <1>3, <2>2, GenuineNow, ChangedTod DEF QuickAnswer
  <2> QED
    BY <2>1, <2>2
<1>4. CASE ~(MuteGone \/ SingleAnswer \/ QuickAnswer)
  <2>1. UNCHANGED tod
    BY <1>4
    DEF Process, LateResponse, UnMuteDone, UnMuteSend, UnMuteWait, MuteDone,
        MuteSend, MuteAnswer, MuteTimeOut, DiscoveryAnswer, DiscoveryTimeOut,
        DiscoveryFinished, DiscoverySingleUid, DiscoverySend, SingleGiveUp,
        SingleSend, SingleTimeOut, DubSilence, DubFound, DubSplit, QuickGiveUp,
        QuickSend, QuickInvalid, QuickTimeOut, QuickDiscoveryGiveUp,
        QuickDiscoverySend, QuickDiscoveryFound, QuickDiscoveryCollision,
        QuickDiscoveryTimeOut, Finished
  <2> QED
    BY <2>1 DEF GInv, TodGenuine
<1> QED
  BY <1>1, <1>2, <1>3, <1>4

LEMMA CallsGenuine ==
    ASSUME GInv, Calls
    PROVE  GenuineLine' /\ TodGenuine'
<1>1. QuietLine
  BY DEF Calls, Full, Incremental, Start, Stop, IsFinished, lineVars, QuietLine
<1>2. TodGenuine'
  <2>1. CASE \E p \in Ports : Full(p)
    <3>1. \A known : Genuine(EmptyTod, known)
      BY DEF Genuine, EmptyTod, TodUids
    <3> QED
      BY <2>1, <3>1, ChangedTod DEF Full
  <2>2. CASE UNCHANGED tod
    BY <2>2 DEF GInv, TodGenuine
  <2> QED
    BY <2>1, <2>2 DEF Calls, Incremental, Stop, IsFinished
<1> QED
  BY <1>1, <1>2, QuietGenuine

LEMMA EnvironmentGenuine ==
    ASSUME GInv, Environment
    PROVE  GenuineLine' /\ TodGenuine'
<1> SUFFICES ASSUME NEW p \in Ports, NEW d \in Devices[p],
                    Unplug(p, d) \/ Plug(p, d)
             PROVE  GenuineLine' /\ TodGenuine'
  BY DEF Environment
<1>1. line' = line /\ tod' = tod
  BY DEF Unplug, Plug
<1>2. devices \in [Ports -> SUBSET Uid]
  BY DEF GInv, IInv, TypeOK, LineTypeOK
<1>3. \A q \in Ports : devices'[q] \subseteq Devices[q]
  BY <1>2 DEF Unplug, Plug, GInv, GenuineLine
<1> QED
  BY <1>1, <1>3 DEF GInv, GenuineLine, TodGenuine

-----------------------------------------------------------------------------
LEMMA InitGInv == Init => GInv
<1> SUFFICES ASSUME Init PROVE GInv
  OBVIOUS
<1>1. GenuineLine
  BY DEF Init, GenuineLine, NoReply
<1>2. TodGenuine
  BY DEF Init, TodGenuine, EmptyTod, TodUids
<1> QED
  BY <1>1, <1>2, InitIInv DEF GInv

LEMMA NextGInv == GInv /\ [Next]_vars => GInv'
<1> SUFFICES ASSUME GInv, [Next]_vars PROVE GInv'
  OBVIOUS
<1>1. IInv'
  BY NextIInv DEF GInv
<1>2. CASE UNCHANGED vars
  BY <1>1, <1>2 DEF vars, lineVars, GInv, GenuineLine, TodGenuine
<1> QED
  BY <1>1, <1>2, ProcessLine, ProcessTod, CallsGenuine, EnvironmentGenuine
  DEF Next, GInv

(* With any number of responders, faults and retries, and whatever is      *)
(* called in the middle of a discovery, no table ever lists a UID twice or *)
(* a UID that no responder on its line has.                                *)
THEOREM TodIsGenuine == Spec => []TodGenuine
<1>1. GInv => TodGenuine
  BY DEF GInv
<1> QED
  BY <1>1, InitGInv, NextGInv, PTL DEF Spec

-----------------------------------------------------------------------------
(* The gateway.  The calls of ArtNetRdm come with the rest of their        *)
(* handler, and two of its steps change the discovery's variables without  *)
(* a call: the ATC_FLUSH of an input clears its table, and the requests of *)
(* controllers use the line.                                               *)

NodeVarsTypeOK ==
    /\ phase \in Phases
    /\ isDiscoveryRunning \in BOOLEAN /\ discoveryPortIndex \in Ports
    /\ notRunning \in [Ports -> BOOLEAN] /\ disabled \in [Ports -> BOOLEAN]
    /\ ipRdm \in [Ports -> BOOLEAN]
    /\ todControls \in 0 .. MaxTodControls /\ artRdms \in 0 .. MaxArtRdms

NodeInv == GInv /\ NodeVarsTypeOK

(* The line changes, the search and the tables do not. *)
LEMMA OtherTraffic ==
    ASSUME GInv, UNCHANGED <<state, savedState, control, counters, stack, branch,
                             response, tod, devices, muted, faults, replugs>>,
           line' \in [Ports -> Replies],
           \A p \in Ports : line'[p].kind = "MUTE_ACK" => line'[p] = line[p]
    PROVE  GInv'
<1>1. SearchInv'
  BY SearchUntouched DEF GInv, counters
<1>2. MachineTypeOK'
  BY DEF GInv, IInv, TypeOK, MachineTypeOK, control, counters
<1>3. LineTypeOK'
  BY DEF GInv, IInv, TypeOK, LineTypeOK
<1>4. GenuineLine' /\ TodGenuine'
  BY DEF GInv, GenuineLine, TodGenuine
<1> QED
  BY <1>1, <1>2, <1>3, <1>4 DEF GInv, IInv, TypeOK

(* A table is cleared, the discovery goes on. *)
LEMMA TableCleared ==
    ASSUME GInv, NEW p \in Ports, tod' = [tod EXCEPT ![p] = EmptyTod],
           UNCHANGED <<state, savedState, control, counters, stack, branch,
                       response, lineVars>>
    PROVE  GInv'
<1>1. SearchInv'
  BY SearchUntouched DEF GInv, counters
<1>2. tod' \in [Ports -> Seq(Uid)]
  BY DEF EmptyTod, GInv, IInv, TypeOK, MachineTypeOK
<1>3. MachineTypeOK'
  BY <1>2 DEF GInv, IInv, TypeOK, MachineTypeOK, control, counters
<1>4. LineTypeOK'
  BY QuietLineType DEF GInv, IInv
<1>5. TodGenuine'
  <2>1. Genuine(EmptyTod, Devices[p])
    BY DEF Genuine, EmptyTod, TodUids
  <2> QED
    BY <2>1, ChangedTod
<1>6. GenuineLine'
  BY DEF GInv, GenuineLine, lineVars
<1> QED
  BY <1>1, <1>3, <1>4, <1>5, <1>6 DEF GInv, IInv, TypeOK

LEMMA TodControlStep ==
    ASSUME NodeInv, NEW p \in Ports, NEW command, HandleTodControl(p, command)
    PROVE  NodeInv'
<1>1. /\ GInv /\ NodeVarsTypeOK
      /\ TRUE \in BOOLEAN /\ FALSE \in BOOLEAN /\ (command = "ATC_INCOFF") \in BOOLEAN
  BY DEF NodeInv
<1>2. todControls' \in 0 .. MaxTodControls
  BY <1>1, ArtNetRdmAssumption DEF HandleTodControl, NodeVarsTypeOK
<1>3. CASE p \in OutputPorts /\ command = "ATC_FLUSH"
  <2>1. Full(p) /\ notRunning' = [notRunning EXCEPT ![p] = FALSE] /\ UNCHANGED disabled
    BY <1>3, ArtNetRdmAssumption DEF HandleTodControl
  <2>2. GInv'
    BY <1>1, <2>1, NextGInv DEF Next, Calls
  <2>3. NodeVarsTypeOK'
    BY <1>1, <1>2, <2>1 DEF HandleTodControl, NodeVarsTypeOK, scan, Phases
  <2> QED
    BY <2>2, <2>3 DEF NodeInv
<1>4. CASE p \in OutputPorts /\ command = "ATC_END"
  <2>1. /\ Stop \/ UNCHANGED vars
        /\ notRunning' = [notRunning EXCEPT ![p] = TRUE] /\ UNCHANGED disabled
    BY <1>4 DEF HandleTodControl
  <2>2. GInv'
    BY <1>1, <2>1, NextGInv DEF Next, Calls
  <2>3. NodeVarsTypeOK'
    BY <1>1, <1>2, <2>1 DEF HandleTodControl, NodeVarsTypeOK, scan, Phases
  <2> QED
    BY <2>2, <2>3 DEF NodeInv
<1>5. CASE p \in OutputPorts /\ command \in {"ATC_INCON", "ATC_INCOFF"}
  <2>1. /\ disabled' = [disabled EXCEPT ![p] = (command = "ATC_INCOFF")]
        /\ UNCHANGED <<vars, notRunning>>
    BY <1>5 DEF HandleTodControl
  <2>2. GInv'
    BY <1>1, <2>1, NextGInv
  <2>3. NodeVarsTypeOK'
    BY <1>1, <1>2, <2>1 DEF HandleTodControl, NodeVarsTypeOK, scan, Phases
  <2> QED
    BY <2>2, <2>3 DEF NodeInv
<1>6. CASE p \notin OutputPorts /\ command = "ATC_FLUSH"
  <2>1. /\ tod' = [tod EXCEPT ![p] = EmptyTod]
        /\ UNCHANGED <<state, savedState, control, counters, stack, branch,
                       response, lineVars>>
        /\ UNCHANGED flags
    BY <1>6 DEF HandleTodControl
  <2>2. GInv'
    BY <1>1, <2>1, TableCleared
  <2>3. NodeVarsTypeOK'
    BY <1>1, <1>2, <2>1 DEF HandleTodControl, NodeVarsTypeOK, scan, flags, Phases
  <2> QED
    BY <2>2, <2>3 DEF NodeInv
<1> QED
  BY <1>3, <1>4, <1>5, <1>6 DEF HandleTodControl

LEMMA RdmStep ==
    ASSUME NodeInv, NEW p \in Ports, NEW uid \in Devices[p], HandleRdm(p, uid)
    PROVE  NodeInv'
<1>1. GInv /\ NodeVarsTypeOK /\ uid \in Uid /\ TRUE \in BOOLEAN
  BY DiscoveryAssumption DEF NodeInv
<1>2. line \in [Ports -> Replies]
  BY <1>1 DEF GInv, IInv, TypeOK, LineTypeOK
<1>3. OtherReply(uid) \in Replies /\ OtherReply(uid).kind # "MUTE_ACK"
  BY <1>1 DEF OtherReply, Replies
<1>4. \/ line' = line
      \/ line' = [line EXCEPT ![p] = OtherReply(uid)]
  BY <1>2 DEF HandleRdm
<1>5. /\ line' \in [Ports -> Replies]
      /\ \A q \in Ports : line'[q].kind = "MUTE_ACK" => line'[q] = line[q]
  BY <1>2, <1>3, <1>4
<1>6. GInv'
  BY <1>1, <1>5, OtherTraffic DEF HandleRdm
<1>7. NodeVarsTypeOK'
  BY <1>1, ArtNetRdmAssumption
  DEF HandleRdm, NodeVarsTypeOK, scan, flags, Phases
<1> QED
  BY <1>6, <1>7 DEF NodeInv

LEMMA RdmInStep ==
    ASSUME NodeInv, HandleRdmIn
    PROVE  NodeInv'
<1>1. GInv /\ NodeVarsTypeOK
  BY DEF NodeInv
<1>2. line \in [Ports -> Replies]
  BY <1>1 DEF GInv, IInv, TypeOK, LineTypeOK
<1>3. PICK taken \in SUBSET { p \in OutputPorts : ipRdm[p] /\ line[p] # NoReply } :
          /\ line' = [p \in Ports |-> IF p \in taken THEN NoReply ELSE line[p]]
          /\ ipRdm' = [p \in Ports |-> ipRdm[p] /\ p \notin taken]
  BY DEF HandleRdmIn
<1>4. NoReply.kind # "MUTE_ACK"
  BY DEF NoReply
<1>5. /\ line' \in [Ports -> Replies]
      /\ \A q \in Ports : line'[q].kind = "MUTE_ACK" => line'[q] = line[q]
  BY <1>2, <1>3, <1>4, NoReplyType
<1>6. GInv'
  BY <1>1, <1>5, OtherTraffic DEF HandleRdmIn
<1>7. ipRdm' \in [Ports -> BOOLEAN]
  BY <1>1, <1>3 DEF NodeVarsTypeOK
<1>8. NodeVarsTypeOK'
  BY <1>1, <1>7 DEF HandleRdmIn, NodeVarsTypeOK, scan, flags, packets, Phases
<1> QED
  BY <1>6, <1>8 DEF NodeInv

LEMMA NextPortType ==
    ASSUME discoveryPortIndex \in Ports, NextPort
    PROVE  isDiscoveryRunning' \in BOOLEAN /\ discoveryPortIndex' \in Ports
<1>1. discoveryPortIndex + 1 # MAX_PORTS => discoveryPortIndex + 1 \in Ports
  BY DiscoveryAssumption DEF Ports
<1>2. 0 \in Ports
  BY DiscoveryAssumption DEF Ports
<1> QED
  BY <1>1, <1>2 DEF NextPort

LEMMA ScanStep ==
    ASSUME NodeInv, Scan \/ NoScan
    PROVE  NodeInv'
<1>1. GInv /\ NodeVarsTypeOK /\ discoveryPortIndex \in Ports
      /\ TRUE \in BOOLEAN /\ FALSE \in BOOLEAN
  BY DEF NodeInv, NodeVarsTypeOK
<1>2. IsFinished \/ Incremental(discoveryPortIndex) \/ UNCHANGED vars
  BY DEF Scan, NoScan, ScanSkip, ScanFinished, ScanStart, ScanWait
<1>3. GInv'
  BY <1>1, <1>2, NextGInv DEF Next, Calls
<1>4. phase' = "packet" /\ UNCHANGED <<ipRdm, packets, disabled>>
  BY DEF Scan, NoScan, ScanSkip, ScanFinished, ScanStart, ScanWait, ScanDue, flags
<1>5. isDiscoveryRunning' \in BOOLEAN /\ discoveryPortIndex' \in Ports
  BY <1>1, NextPortType
  DEF Scan, NoScan, ScanSkip, ScanFinished, ScanStart, ScanWait, scan,
      NodeVarsTypeOK
<1>6. notRunning' \in [Ports -> BOOLEAN]
  BY <1>1
  DEF Scan, NoScan, ScanSkip, ScanFinished, ScanStart, ScanWait, flags,
      NodeVarsTypeOK
<1>7. NodeVarsTypeOK'
  BY <1>1, <1>4, <1>5, <1>6 DEF NodeVarsTypeOK, packets, Phases
<1> QED
  BY <1>3, <1>7 DEF NodeInv

LEMMA NodeSame ==
    ASSUME NodeInv, [Next]_vars, phase' \in Phases,
           UNCHANGED <<scan, flags, ipRdm, packets>>
    PROVE  NodeInv'
BY NextGInv DEF NodeInv, NodeVarsTypeOK, scan, flags, packets

LEMMA InitNodeInv == NodeInit => NodeInv
<1> SUFFICES ASSUME NodeInit PROVE NodeInv
  OBVIOUS
<1>1. GInv
  BY InitGInv DEF NodeInit
<1>2. NodeVarsTypeOK
  BY DiscoveryAssumption, ArtNetRdmAssumption
  DEF NodeInit, NodeVarsTypeOK, Phases, Ports
<1> QED
  BY <1>1, <1>2 DEF NodeInv

LEMMA NextNodeInv == NodeInv /\ [NodeNext]_nodeVars => NodeInv'
<1> SUFFICES ASSUME NodeInv, [NodeNext]_nodeVars PROVE NodeInv'
  OBVIOUS
<1>1. CASE UNCHANGED nodeVars
  <2>1. phase' \in Phases
    BY <1>1 DEF nodeVars, NodeInv, NodeVarsTypeOK
  <2> QED
    BY <1>1, <2>1, NodeSame DEF nodeVars
<1>2. CASE NoPacket \/ RunIdle \/ RunProcess
  <2>1. Process \/ UNCHANGED vars
    BY <1>2 DEF NoPacket, RunIdle, RunProcess
  <2>2. phase' \in Phases /\ UNCHANGED <<scan, flags, ipRdm, packets>>
    BY <1>2 DEF NoPacket, RunIdle, RunProcess, Phases
  <2> QED
    BY <2>1, <2>2, NodeSame DEF Next
<1>3. CASE NodeEnvironment
  <2>1. phase' \in Phases
    BY <1>3 DEF NodeEnvironment, NodeInv, NodeVarsTypeOK
  <2> QED
    BY <1>3, <2>1, NodeSame DEF NodeEnvironment, Next
<1>4. CASE Packet
  BY <1>4, TodControlStep, RdmStep DEF Packet
<1> QED
  BY <1>1, <1>2, <1>3, <1>4, RdmInStep, ScanStep DEF NodeNext, LoopStep

LEMMA NodeInvariance == NodeSpec => []NodeInv
BY InitNodeInv, NextNodeInv, PTL DEF NodeSpec

(* Whatever the controllers send, every variable of the gateway and of the *)
(* discovery keeps its type: the scan never leaves the ports.              *)
THEOREM NodeTypeCorrect == NodeSpec => []NodeTypeOK
<1>1. NodeInv => NodeTypeOK
  BY DEF NodeInv, NodeVarsTypeOK, GInv, IInv, NodeTypeOK
<1> QED
  BY <1>1, NodeInvariance, PTL

(* Commands and requests of controllers at any moment of a discovery leave *)
(* it a search without gaps, a stack within its places, and tables that    *)
(* list only responders of their line, each of them once.                  *)
THEOREM NodeKeepsSearch == NodeSpec => [](BranchesTile /\ StackBound /\ TodGenuine)
<1>1. NodeInv => BranchesTile /\ StackBound /\ TodGenuine
  BY DEF NodeInv, GInv, IInv, SearchInv, SizeBound, StackBound
<1> QED
  BY <1>1, NodeInvariance, PTL

-----------------------------------------------------------------------------
(* The published status.                                                   *)

(* A discovery is at work, or its end is not yet collected. *)
Busy == state # "IDLE" \/ isFinished

(* Without ATC_FLUSH, ATC_END and ATC_INCOFF only the background scan      *)
(* starts a discovery, on the port that it is at, and it collects the end  *)
(* in the call of Run in which the discovery finishes.                     *)
ExactInv ==
    /\ \A p \in Ports : ~disabled[p]
    /\ state = "LATE_RESPONSE" => savedState # "IDLE"
    /\ isFinished => state = "IDLE" /\ phase = "scan"
    /\ Busy => /\ isDiscoveryRunning /\ portIndex = discoveryPortIndex
               /\ discoveryPortIndex \in OutputPorts
    /\ \A p \in Ports : notRunning[p] = ~(Busy /\ portIndex = p)

NodeExact == NodeInv /\ ExactInv

(* A step of the discovery stays on its port and comes to IDLE only when   *)
(* it is finished.                                                         *)
LEMMA ProcessBusy ==
    ASSUME Process, state = "LATE_RESPONSE" => savedState # "IDLE"
    PROVE  /\ state # "IDLE" /\ portIndex' = portIndex
           /\ state' = "LATE_RESPONSE" => savedState' # "IDLE"
           /\ \/ state' = "IDLE" /\ isFinished' = TRUE
              \/ state' # "IDLE" /\ isFinished' = isFinished
<1>1. CASE LateResponse
  BY <1>1 DEF LateResponse, control
<1>2. CASE UnMuteSend \/ UnMuteWait \/ MuteGone \/ MuteSend \/ MuteAnswer
             \/ MuteTimeOut \/ DiscoveryTimeOut \/ SingleSend \/ SingleTimeOut
             \/ QuickSend \/ QuickInvalid \/ QuickTimeOut \/ QuickDiscoverySend
             \/ QuickDiscoveryTimeOut
  BY <1>2
  DEF UnMuteSend, UnMuteWait, MuteGone, MuteSend, MuteAnswer, MuteTimeOut,
      DiscoveryTimeOut, SingleSend, SingleTimeOut, QuickSend, QuickInvalid,
      QuickTimeOut, QuickDiscoverySend, QuickDiscoveryTimeOut, control
<1>3. CASE UnMuteDone \/ MuteDone \/ DiscoveryAnswer \/ DiscoveryFinished
             \/ DiscoverySingleUid \/ DiscoverySend
  BY <1>3
  DEF UnMuteDone, MuteDone, DiscoveryAnswer, DiscoveryFinished,
      DiscoverySingleUid, DiscoverySend, control, NewState
<1>4. CASE SingleGiveUp \/ SingleAnswer \/ DubSilence \/ DubFound \/ DubSplit
             \/ QuickGiveUp \/ QuickAnswer \/ QuickDiscoveryGiveUp
             \/ QuickDiscoveryFound \/ QuickDiscoveryCollision
  BY <1>4
  DEF SingleGiveUp, SingleAnswer, DubSilence, DubFound, DubSplit, QuickGiveUp,
      QuickAnswer, QuickDiscoveryGiveUp, QuickDiscoveryFound,
      QuickDiscoveryCollision, control, NewState
<1>5. CASE Finished
  BY <1>5 DEF Finished, NewState
<1> QED
  BY <1>1, <1>2, <1>3, <1>4, <1>5 DEF Process

(* The steps that the status and the discovery's progress do not see. *)
LEMMA ExactKept ==
    ASSUME NodeExact, phase # "scan",
           UNCHANGED <<state, savedState, portIndex, isFinished, scan, notRunning>>,
           \A p \in Ports : ~disabled'[p]
    PROVE  ExactInv'
BY DEF NodeExact, ExactInv, Busy, scan

LEMMA PacketExact ==
    ASSUME NodeExact, TodControls \subseteq {"ATC_INCON"}, Packet
    PROVE  ExactInv'
<1>1. ASSUME NEW p \in Ports, NEW command \in TodControls,
             HandleTodControl(p, command)
      PROVE  ExactInv'
  <2>1. /\ phase # "scan" /\ UNCHANGED <<vars, scan, notRunning>>
        /\ disabled' = [disabled EXCEPT ![p] = FALSE]
    BY <1>1 DEF HandleTodControl
  <2>2. \A q \in Ports : ~disabled'[q]
    BY <2>1 DEF NodeExact, NodeInv, NodeVarsTypeOK, ExactInv
  <2> QED
    BY <2>1, <2>2, ExactKept DEF vars, control
<1>2. ASSUME NEW p \in Ports, NEW uid \in Devices[p], HandleRdm(p, uid)
      PROVE  ExactInv'
  BY <1>2, ExactKept DEF HandleRdm, control, flags, NodeExact, ExactInv
<1> QED
  BY <1>1, <1>2 DEF Packet

LEMMA ProcessExact ==
    ASSUME NodeExact, RunProcess
    PROVE  ExactInv'
<1>1. /\ state # "IDLE" /\ portIndex' = portIndex
      /\ state' = "LATE_RESPONSE" => savedState' # "IDLE"
      /\ \/ state' = "IDLE" /\ isFinished' = TRUE
         \/ state' # "IDLE" /\ isFinished' = isFinished
  BY ProcessBusy DEF RunProcess, NodeExact, ExactInv
<1>2. phase' = "scan" /\ UNCHANGED <<scan, flags>>
  BY DEF RunProcess
<1>3. ~isFinished /\ Busy /\ Busy'
  BY <1>1 DEF Busy, NodeExact, ExactInv
<1>4. isFinished' => state' = "IDLE"
  BY <1>1, <1>3
<1> QED
  BY <1>1, <1>2, <1>3, <1>4 DEF NodeExact, ExactInv, scan, flags

LEMMA ScanExact ==
    ASSUME NodeExact, Scan \/ NoScan
    PROVE  ExactInv'
<1>1. /\ notRunning \in [Ports -> BOOLEAN] /\ discoveryPortIndex \in Ports
      /\ \A p \in Ports : ~disabled[p]
      /\ portIndex \in Ports
  BY DEF NodeExact, NodeInv, NodeVarsTypeOK, ExactInv, GInv, IInv, TypeOK,
         MachineTypeOK
<1>2. CASE ScanSkip \/ NoScan
  <2>1. ~Busy
    BY <1>1, <1>2
    DEF ScanSkip, NoScan, Scannable, Busy, NodeExact, ExactInv
  <2>2. UNCHANGED <<vars, flags>>
    BY <1>2, <2>1 DEF ScanSkip, NoScan, Busy
  <2> QED
    BY <2>1, <2>2 DEF Busy, NodeExact, ExactInv, vars, control, flags
<1>3. CASE ScanFinished
  <2>1. /\ isFinished /\ ~isFinished'
        /\ UNCHANGED <<state, savedState, portIndex, disabled>>
        /\ notRunning' = [notRunning EXCEPT ![discoveryPortIndex] = TRUE]
    BY <1>3 DEF ScanFinished, IsFinished
  <2>2. state = "IDLE" /\ portIndex = discoveryPortIndex
    BY <2>1 DEF Busy, NodeExact, ExactInv
  <2>3. ~Busy'
    BY <2>1, <2>2 DEF Busy
  <2>4. \A p \in Ports : notRunning'[p] = TRUE
    BY <1>1, <2>1, <2>2 DEF Busy, NodeExact, ExactInv
  <2> QED
    BY <1>1, <2>1, <2>2, <2>3, <2>4 DEF ExactInv
<1>4. CASE ScanStart
  <2>1. /\ state = "IDLE" /\ ~isFinished
        /\ discoveryPortIndex \in OutputPorts
        /\ Start(discoveryPortIndex, TRUE, Len(tod[discoveryPortIndex]))
        /\ notRunning' = [notRunning EXCEPT ![discoveryPortIndex] = FALSE]
        /\ isDiscoveryRunning' = TRUE
        /\ UNCHANGED <<discoveryPortIndex, disabled>>
    BY <1>4 DEF ScanStart, Incremental, Scannable
  <2>2. /\ state' = "UNMUTE" /\ ~isFinished'
        /\ portIndex' = discoveryPortIndex
    BY <2>1 DEF Start, NewState
  <2>3. Busy' /\ ~Busy
    BY <2>1, <2>2 DEF Busy
  <2>4. \A p \in Ports : notRunning[p] = TRUE
    BY <2>3 DEF NodeExact, ExactInv
  <2>5. \A p \in Ports : notRunning'[p] = ~(portIndex' = p)
    BY <1>1, <2>1, <2>2, <2>4
  <2> QED
    BY <1>1, <2>1, <2>2, <2>3, <2>5 DEF ExactInv
<1>5. CASE ScanWait
  <2>1. /\ ~isFinished /\ isDiscoveryRunning'
        /\ UNCHANGED <<vars, discoveryPortIndex, flags>>
    BY <1>5 DEF ScanWait
  <2> QED
    BY <2>1 DEF Busy, NodeExact, ExactInv, vars, control, flags
<1> QED
  BY <1>2, <1>3, <1>4, <1>5 DEF Scan

(* A step that leaves alone all that ExactInv is about, in any phase. *)
LEMMA ExactSame ==
    ASSUME NodeExact, phase' = phase,
           UNCHANGED <<state, savedState, control, scan, flags>>
    PROVE  ExactInv'
BY DEF NodeExact, ExactInv, Busy, control, scan, flags

LEMMA NextNodeExact ==
    ASSUME TodControls \subseteq {"ATC_INCON"}
    PROVE  NodeExact /\ [NodeNext]_nodeVars => NodeExact'
<1> SUFFICES ASSUME NodeExact, [NodeNext]_nodeVars PROVE NodeExact'
  OBVIOUS
<1>1. NodeInv'
  BY NextNodeInv DEF NodeExact
<1>2. ExactInv'
  <2>1. CASE UNCHANGED nodeVars
    BY <2>1, ExactSame DEF nodeVars, vars
  <2>2. CASE NodeEnvironment
    <3>1. UNCHANGED <<state, savedState, control>>
      BY <2>2 DEF NodeEnvironment, Environment, Plug, Unplug
    <3> QED
      BY <2>2, <3>1, ExactSame DEF NodeEnvironment
  <2>3. CASE NoPacket \/ HandleRdmIn
    <3>1. /\ phase # "scan"
          /\ UNCHANGED <<state, savedState, control, scan, flags>>
      BY <2>3 DEF NoPacket, HandleRdmIn, vars
    <3> QED
      BY <3>1, ExactKept DEF control, flags, NodeExact, ExactInv
  <2>4. CASE RunIdle
    <3>1. /\ phase # "scan"
          /\ UNCHANGED <<state, savedState, control, scan, flags>>
      BY <2>4 DEF RunIdle, vars
    <3> QED
      BY <3>1, ExactKept DEF control, flags, NodeExact, ExactInv
  <2> QED
    BY <2>1, <2>2, <2>3, <2>4, PacketExact, ProcessExact, ScanExact
    DEF NodeNext, LoopStep
<1> QED
  BY <1>1, <1>2 DEF NodeExact

LEMMA InitNodeExact == NodeInit => NodeExact
<1> SUFFICES ASSUME NodeInit PROVE NodeExact
  OBVIOUS
<1>1. ~Busy /\ state = "IDLE" /\ ~isFinished
  BY DEF NodeInit, Init, Busy
<1> QED
  BY <1>1, InitNodeInv DEF NodeExact, ExactInv, NodeInit

(* As long as no controller sends ATC_FLUSH, ATC_END or ATC_INCOFF, the    *)
(* published bit of every port is exact, for any number of ports.          *)
THEOREM StatusIsExact ==
    ASSUME TodControls \subseteq {"ATC_INCON"}
    PROVE  NodeSpec => []StatusExact
<1>1. NodeExact => StatusExact
  BY DEF NodeExact, ExactInv, Busy, StatusExact
<1> QED
  BY <1>1, InitNodeExact, NextNodeExact, PTL DEF NodeSpec

-----------------------------------------------------------------------------
(* A discovery finds every responder.                                      *)

(* What the line may do to a discovery that finds every responder: nothing *)
(* comes or goes, no noise decodes as a UID, fewer messages are lost, late *)
(* or disturbed than each command has retries, and the table has room.     *)
FewFaults ==
    /\ MaxReplugs = 0
    /\ MaxFaults < UNMUTE_COUNTER /\ MaxFaults < MUTE_COUNTER
    /\ MaxFaults < DISCOVERY_COUNTER /\ MaxFaults < QUIKFIND_COUNTER
    /\ MaxFaults < QUIKFIND_DISCOVERY_COUNTER
    /\ Noise \subseteq {NoReply, Collision}
    /\ \A p \in Ports : Cardinality(Devices[p]) <= TOD_TABLE_SIZE

There == devices[portIndex]
Muted == muted[portIndex]
Listed == TodUids(tod[portIndex])

(* The unmuted responders in the branch in hand. *)
Answerers == Answering(DiscUniqueBranch(branch.lower, branch.upper), There, Muted)

(* What is received from a line comes from a responder of that line. *)
Honest ==
    \A p \in Ports :
        line[p].kind \in {"MUTE_ACK", "DUB"} => line[p].uid \in devices[p]

Present == \A p \in Ports : TodUids(tod[p]) \subseteq devices[p]

(* More retries are left than faults.  A request that has got no answer    *)
(* has cost a fault and will cost a retry.                                 *)
One(owed) == IF owed THEN 1 ELSE 0
Enough(command, owed) == command.counter > faults + One(owed)

(* What a command holds outside the state that it belongs to. *)
AtRest ==
    /\ state # "DISCOVERY_SINGLE_DEVICE" =>
          single.counter > MaxFaults /\ ~single.running
    /\ state # "QUICKFIND_DISCOVERY" =>
          quikFindDiscovery.counter > MaxFaults /\ ~quikFindDiscovery.running
    /\ state # "QUICKFIND" => ~quikFind.running
    /\ state # "DISCOVERY" => ~discovery.running
    /\ state = "LATE_RESPONSE" =>
          savedState \in {"DISCOVERY", "DISCOVERY_SINGLE_DEVICE", "QUICKFIND", "FINISHED"}
    /\ Resumed = "FINISHED" => stack = << >>
    /\ Resumed = "DISCOVERY_SINGLE_DEVICE" => branch.lower = branch.upper
    /\ \/ quikFind.counter = QUIKFIND_COUNTER
       \/ /\ ~quikFind.running /\ faults < MaxFaults
          /\ quikFind.counter = QUIKFIND_COUNTER - 1

(* What is known in the middle of a command. *)
UnMuteInv ==
    state = "UNMUTE" =>
        /\ stack # << >> /\ Top.upper = LastUid
        /\ Muted = {} \/ Enough(unMute, unMute.running)
        /\ doIncremental => /\ mute.counter > MaxFaults /\ ~mute.running
                            /\ mute.todEntries <= Len(tod[portIndex])

MuteInv ==
    state = "MUTE" =>
        /\ mute.todEntries <= Len(tod[portIndex])
        /\ Enough(mute, mute.running /\ Received = NoReply)
        /\ mute.running => mute.uid \in Listed

DiscoveryInv ==
    /\ state = "DISCOVERY" /\ discovery.running =>
          Answerers = {} \/ Enough(discovery, Received = NoReply)
    /\ state = "DUB" =>
          /\ response = NoReply => Answerers = {}
          /\ response.kind = "DUB" => response.uid \in There

SingleInv ==
    state = "DISCOVERY_SINGLE_DEVICE" /\ branch.lower \in There =>
        Enough(single, single.running /\ Received # MuteAck(branch.lower))

QuickInv ==
    /\ Resumed = "QUICKFIND" => quikFind.uid \in There
    /\ state = "QUICKFIND" =>
          /\ Received.kind = "MUTE_ACK" => Received.uid = quikFind.uid
          /\ quikFind.running /\ Received.kind # "MUTE_ACK" => faults < MaxFaults
    /\ state = "QUICKFIND_DISCOVERY" =>
          \/ Answerers = {}
          \/ Enough(quikFindDiscovery, quikFindDiscovery.running /\ Received = NoReply)

(* The search has still to come to a UID, or is at it. *)
Ahead(d) ==
    IF BranchInHand THEN d <= branch.upper ELSE stack # << >> /\ d <= Top.upper

(* The responder that is being muted. *)
Tried(d) ==
    \/ Resumed = "QUICKFIND" /\ d = quikFind.uid
    \/ Resumed = "DISCOVERY_SINGLE_DEVICE" /\ d = branch.lower

(* Every responder is in the table, or will still be asked and will answer. *)
Covered ==
    Resumed \notin {"IDLE", "UNMUTE"} =>
        \A d \in There : d \in Listed \/ (Ahead(d) /\ (d \notin Muted \/ Tried(d)))

Ended == isFinished => state = "IDLE" /\ stack = << >> /\ There \subseteq Listed

Commands == AtRest /\ UnMuteInv /\ MuteInv /\ DiscoveryInv /\ SingleInv /\ QuickInv

HuntInv == Honest /\ Present /\ Commands /\ Covered

CInv == HuntInv /\ Ended

-----------------------------------------------------------------------------
(* Requests and replies.                                                   *)

LEMMA Facts ==
    ASSUME GInv
    PROVE  /\ portIndex \in Ports
           /\ There \in SUBSET Uid /\ Muted \in SUBSET Uid /\ Received \in Replies
           /\ tod[portIndex] \in Seq(Uid) /\ Len(tod[portIndex]) \in Nat
           /\ MaxFaults \in Nat /\ faults \in Nat /\ faults <= MaxFaults
BY DiscoveryAssumption
   DEF GInv, IInv, TypeOK, MachineTypeOK, LineTypeOK, There, Muted, Received

LEMMA CounterTypes ==
    ASSUME GInv
    PROVE  /\ unMute \in [counter : Nat, running : BOOLEAN]
           /\ mute \in [counter : Nat, running : BOOLEAN, todEntries : Nat, uid : AnyUid]
           /\ discovery \in [counter : Nat, running : BOOLEAN]
           /\ single \in [counter : Nat, running : BOOLEAN]
           /\ quikFind \in [counter : Nat, running : BOOLEAN, uid : Uid]
           /\ quikFindDiscovery \in [counter : Nat, running : BOOLEAN]
           /\ branch \in Branch /\ branch.lower \in Uid /\ branch.upper \in Uid
           /\ stack \in Seq(Branch)
           /\ state \in States /\ savedState \in States \ {"LATE_RESPONSE"}
BY DEF GInv, IInv, TypeOK, MachineTypeOK, Branch

LEMMA UnicastUid ==
    ASSUME NEW uid \in Uid
    PROVE  uid # UID_ALL /\ uid \in Nat /\ uid <= LastUid
BY Powers DEF Uid, FirstUid, LastUid, UID_ALL

LEMMA MuteReply ==
    ASSUME NEW uid \in Uid, NEW there, NEW mutedThere
    PROVE  /\ DiscMute(uid) \in Requests
           /\ MutedAfter(DiscMute(uid), there, mutedThere) =
                  mutedThere \cup ({uid} \cap there)
           /\ uid \in there =>
                  ReplyTo(DiscMute(uid), there, mutedThere) = MuteAck(uid)
           /\ uid \notin there =>
                  ReplyTo(DiscMute(uid), there, mutedThere) = NoReply
BY UnicastUid DEF DiscMute, Requests, AnyUid, MutedAfter, ReplyTo

LEMMA UnMuteReply ==
    ASSUME NEW there, NEW mutedThere
    PROVE  /\ DiscUnMute \in Requests
           /\ MutedAfter(DiscUnMute, there, mutedThere) = {}
           /\ ReplyTo(DiscUnMute, there, mutedThere) = NoReply
BY DEF DiscUnMute, Requests, AnyUid, MutedAfter, ReplyTo

LEMMA BranchReply ==
    ASSUME NEW lower \in Uid, NEW upper \in Uid, NEW there, NEW mutedThere
    PROVE  LET request == DiscUniqueBranch(lower, upper)
               reply == ReplyTo(request, there, mutedThere)
           IN  /\ request \in Requests
               /\ MutedAfter(request, there, mutedThere) = mutedThere
               /\ Answering(request, there, mutedThere) # {} => reply # NoReply
               /\ reply.kind # "MUTE_ACK"
               /\ reply.kind = "DUB" => reply.uid \in there
<1> DEFINE request == DiscUniqueBranch(lower, upper)
           reply == ReplyTo(request, there, mutedThere)
           answering == Answering(request, there, mutedThere)
<1>1. request \in Requests /\ request.pid = "DISC_UNIQUE_BRANCH"
  BY DEF DiscUniqueBranch, Requests
<1>2. MutedAfter(request, there, mutedThere) = mutedThere
  BY <1>1 DEF MutedAfter
<1>3. reply = IF answering = {} THEN NoReply
              ELSE IF Cardinality(answering) = 1
                   THEN DubReply(CHOOSE d \in answering : TRUE)
                   ELSE Collision
  BY <1>1 DEF ReplyTo
<1>4. answering \subseteq there
  BY DEF Answering
<1> HIDE DEF request, reply, answering
<1>5. CASE answering = {}
  BY <1>1, <1>2, <1>3, <1>5 DEF NoReply, request, reply, answering
<1>6. CASE answering # {}
  <2>1. (CHOOSE d \in answering : TRUE) \in answering
    BY <1>6
  <2>2. reply # NoReply /\ reply.kind # "MUTE_ACK"
        /\ (reply.kind = "DUB" => reply.uid \in there)
    BY <1>3, <1>4, <1>6, <2>1 DEF NoReply, DubReply, Collision
  <2> QED
    BY <1>1, <1>2, <2>2 DEF request, reply, answering
<1> QED
  BY <1>5, <1>6

(* A request that is not answered as it should be has cost a fault. *)
LEMMA Sent ==
    ASSUME GInv, FewFaults, Honest, NEW request \in Requests, NEW budget \in Nat,
           Transmit(request, budget), portIndex' = portIndex
    PROVE  /\ devices' = devices /\ There' = There
           /\ faults' \in Nat /\ faults' <= budget
           /\ Muted' \in {Muted, MutedAfter(request, There, Muted)}
           /\ Received' \in {Received, ReplyTo(request, There, Muted), Collision}
           /\ Muted' = MutedAfter(request, There, Muted) \/ faults' < budget
           /\ \/ faults' < budget
              \/ ReplyTo(request, There, Muted) = NoReply
              \/ Received' = ReplyTo(request, There, Muted)
           /\ Honest'
<1> DEFINE reply == ReplyTo(request, There, Muted)
           after == MutedAfter(request, There, Muted)
           Heard(r) == line' = [line EXCEPT ![portIndex] = IF r = NoReply THEN @ ELSE r]
           Reached == muted' = [muted EXCEPT ![portIndex] = after]
<1>1. /\ \/ Reached /\ Heard(reply) /\ faults' = budget
         \/ /\ budget > 0 /\ faults' = budget - 1
            /\ UNCHANGED <<muted, line>>
         \/ /\ budget > 0 /\ faults' = budget - 1
            /\ Reached
            /\ \E r \in Noise : Heard(r)
      /\ devices' = devices
  BY DEF Transmit, There, Muted
<1>2. /\ portIndex \in Ports /\ line \in [Ports -> Replies]
      /\ muted \in [Ports -> SUBSET Uid]
  BY DEF GInv, IInv, TypeOK, MachineTypeOK, LineTypeOK
<1>3. \A r \in Noise : r = NoReply \/ r = Collision
  BY DEF FewFaults
<1>4. There' = There
  BY <1>1 DEF There
<1>5. faults' \in Nat /\ faults' <= budget
  BY <1>1
<1>6. Reached => Muted' = after
  BY <1>2 DEF Muted
<1>7. UNCHANGED muted => Muted' = Muted
  BY DEF Muted
<1>8. \A r : Heard(r) => Received' = IF r = NoReply THEN Received ELSE r
  BY <1>2 DEF Received
<1>9. UNCHANGED line => Received' = Received
  BY DEF Received
<1>10. reply.kind \in {"MUTE_ACK", "DUB"} => reply.uid \in There
  <2>1. CASE request.pid = "DISC_UNIQUE_BRANCH"
    <3>1. PICK lower \in Uid, upper \in Uid : request = DiscUniqueBranch(lower, upper)
      BY <2>1 DEF Requests, DiscUniqueBranch
    <3> QED
      BY <3>1, BranchReply
  <2>2. CASE request.pid = "DISC_MUTE"
    BY <2>2 DEF ReplyTo, MuteAck, NoReply
  <2>3. CASE request.pid = "DISC_UN_MUTE"
    BY <2>3 DEF ReplyTo, NoReply
  <2> QED
    BY <2>1, <2>2, <2>3 DEF Requests
<1> HIDE DEF reply, after
<1>11. Honest'
  <2>1. /\ NoReply.kind \notin {"MUTE_ACK", "DUB"}
        /\ Collision.kind \notin {"MUTE_ACK", "DUB"}
    BY DEF NoReply, Collision
  <2>2. ASSUME NEW r, Heard(r), r.kind \in {"MUTE_ACK", "DUB"} => r.uid \in There
        PROVE  Honest'
    BY <1>1, <1>2, <2>2 DEF Honest, There
  <2>3. UNCHANGED line => Honest'
    BY <1>1 DEF Honest
  <2> QED
    BY <1>1, <1>3, <1>10, <2>1, <2>2, <2>3
<1>12. Muted' \in {Muted, after} /\ (Muted' = after \/ faults' < budget)
  BY <1>1, <1>6, <1>7
<1>13. /\ Received' \in {Received, reply, Collision}
       /\ faults' < budget \/ reply = NoReply \/ Received' = reply
  <2>1. CASE Heard(reply) /\ faults' = budget
    BY <1>8, <2>1
  <2>2. CASE budget > 0 /\ faults' = budget - 1 /\ UNCHANGED line
    BY <1>9, <2>2
  <2>3. CASE budget > 0 /\ faults' = budget - 1 /\ \E r \in Noise : Heard(r)
    <3>1. PICK r \in Noise : Heard(r)
      BY <2>3
    <3> HIDE DEF Heard
    <3>2. Received' \in {Received, Collision}
      BY <1>3, <1>8, <3>1
    <3> QED
      BY <2>3, <3>2
  <2> QED
    BY <1>1, <2>1, <2>2, <2>3
<1> QED
  BY <1>1, <1>4, <1>5, <1>11, <1>12, <1>13 DEF reply, after

(* A table with room for every responder of its line is not full as long   *)
(* as one of them is missing.                                              *)
LEMMA AddedUid ==
    ASSUME NEW t \in Seq(Uid), NEW known \in SUBSET Uid, Genuine(t, known),
           Cardinality(known) <= TOD_TABLE_SIZE, NEW uid \in known
    PROVE  TodUids(AddUid(t, uid)) = TodUids(t) \cup {uid}
<1> DEFINE n == Len(t)
           s == Append(t, uid)
<1>1. CASE uid \in TodUids(t)
  BY <1>1 DEF AddUid, Exist
<1>2. CASE uid \notin TodUids(t)
  <2>1. /\ n \in Nat /\ DOMAIN t = 1 .. n /\ DOMAIN s = 1 .. n + 1
        /\ s[n + 1] = uid /\ \A i \in 1 .. n : s[i] = t[i] /\ t[i] # uid
    BY <1>2 DEF TodUids
  <2>2. s \in [1 .. n + 1 -> known]
    <3>1. s \in Seq(Uid)
      OBVIOUS
    <3>2. \A i \in 1 .. n + 1 : s[i] \in known
      BY <2>1 DEF Genuine, TodUids
    <3> HIDE DEF s
    <3>3. PICK m \in Nat : s \in [1 .. m -> Uid]
      BY <3>1, SeqDef
    <3>4. s = [i \in DOMAIN s |-> s[i]]
      BY <3>3
    <3> QED
      BY <2>1, <3>2, <3>4
  <2> HIDE DEF n, s
  <2>3. n # TOD_TABLE_SIZE
    <3> SUFFICES ASSUME n = TOD_TABLE_SIZE
                 PROVE  FALSE
      OBVIOUS
    <3> DEFINE places == 1 .. n + 1
    <3>1. IsFiniteSet(places) /\ Cardinality(places) = n + 1
      <4>1. 1 \in Int /\ n + 1 \in Int
        BY <2>1
      <4>2. /\ IsFiniteSet(places)
            /\ Cardinality(places) = IF 1 > n + 1 THEN 0 ELSE (n + 1) - 1 + 1
        BY <4>1, FS_Interval
      <4> HIDE DEF places
      <4> QED
        BY <2>1, <4>2
    <3>2. IsFiniteSet(known) /\ Cardinality(known) \in Nat
      <4>1. IsFiniteSet(Uid)
        <5>1. FirstUid \in Int /\ LastUid \in Int
          BY Powers DEF FirstUid, LastUid
        <5> QED
          BY <5>1, FS_Interval DEF Uid
      <4>2. IsFiniteSet(known)
        BY <4>1, FS_Subset
      <4> QED
        BY <4>2, FS_CardinalityType
    <3>3. Cardinality(known) < Cardinality(places) /\ s \in [places -> known]
      BY <2>1, <2>2, <3>1, <3>2
    <3> HIDE DEF places
    <3>4. \E x, y \in places : x # y /\ s[x] = s[y]
      BY <3>1, <3>2, <3>3, FS_PigeonHole
    <3>5. \A i \in places : i \in 1 .. n \/ i = n + 1
      BY <2>1 DEF places
    <3> QED
      BY <2>1, <3>4, <3>5 DEF Genuine
  <2>4. AddUid(t, uid) = s
    BY <1>2, <2>3 DEF AddUid, Exist, n, s
  <2>5. TodUids(s) = TodUids(t) \cup {uid}
    <3>1. \A i \in 1 .. n + 1 : i \in 1 .. n \/ i = n + 1
      BY <2>1
    <3>2. 1 .. n \subseteq 1 .. n + 1 /\ n + 1 \in 1 .. n + 1
      BY <2>1
    <3> QED
      BY <2>1, <3>1, <3>2 DEF TodUids
  <2> QED
    BY <2>4, <2>5
<1> QED
  BY <1>1, <1>2

FInv == GInv /\ CInv

(* AddUid of a responder of the line. *)
LEMMA ListedMore ==
    ASSUME FInv, FewFaults, NEW uid \in There, portIndex' = portIndex,
           devices' = devices,
           tod' = [tod EXCEPT ![portIndex] = AddUid(@, uid)]
    PROVE  Listed' = Listed \cup {uid} /\ Present'
<1>1. /\ portIndex \in Ports /\ tod \in [Ports -> Seq(Uid)]
      /\ devices \in [Ports -> SUBSET Uid]
  BY DEF FInv, GInv, IInv, TypeOK, MachineTypeOK, LineTypeOK
<1>2. /\ Devices[portIndex] \in SUBSET Uid /\ uid \in Devices[portIndex]
      /\ Genuine(tod[portIndex], Devices[portIndex])
  BY <1>1, GenuineNow DEF FInv, GInv, GenuineLine, There
<1>3. TodUids(AddUid(tod[portIndex], uid)) = Listed \cup {uid}
  BY <1>1, <1>2, AddedUid DEF FewFaults, Listed
<1>4. Listed' = Listed \cup {uid}
  BY <1>1, <1>3 DEF Listed
<1>5. Present'
  BY <1>1, <1>3 DEF FInv, CInv, HuntInv, Present, There, Listed
<1> QED
  BY <1>4, <1>5

-----------------------------------------------------------------------------
(* What the actions keep of the coverage.                                  *)

LEMMA CoveredKept ==
    ASSUME FInv, Resumed \notin {"IDLE", "UNMUTE"},
           There' = There, Listed \subseteq Listed',
           \A d \in There : Ahead(d) => Ahead(d)' \/ d \in Listed',
           \A d \in There : d \in Muted' => d \in Muted \/ Tried(d)' \/ d \in Listed,
           \A d \in There : Tried(d) => Tried(d)' \/ d \in Listed' \/ d \notin Muted'
    PROVE  Covered'
BY DEF FInv, CInv, HuntInv, Covered

(* The branch in hand is done with. *)
LEMMA Behind ==
    ASSUME FInv, BranchInHand, NEW d \in There,
           d <= branch.upper, ~(branch.lower <= d)
    PROVE  stack # << >> /\ d <= Top.upper
<1>1. /\ branch.lower = IF stack = << >> THEN FirstUid ELSE Top.upper + 1
      /\ branch.lower \in Nat /\ d \in Nat
  BY Facts, CounterTypes, UnicastUid
  DEF FInv, GInv, IInv, SearchInv, BranchesTile
<1>2. stack # << >> => Top.upper \in Nat
  <2>1. stack \in Seq(Branch)
    BY CounterTypes DEF FInv
  <2>2. stack # << >> => Top \in Branch
    BY <2>1, PoppedSeq DEF Top
  <2> QED
    BY <2>2, UnicastUid DEF Branch
<1> QED
  BY <1>1, <1>2, UnicastUid DEF FirstUid

LEMMA Answers ==
    ASSUME NEW d \in There, d \notin Muted, branch.lower <= d, d <= branch.upper
    PROVE  d \in Answerers
BY DEF Answerers, Answering, DiscUniqueBranch

LEMMA AnswerersSame ==
    ASSUME There' = There, Muted' = Muted, branch' = branch
    PROVE  Answerers' = Answerers
BY DEF Answerers

-----------------------------------------------------------------------------
(* State UNMUTE, and what all states share.                                 *)

(* A reply is taken off the line, or nothing happens there. *)
LEMMA QuietHonest ==
    ASSUME FInv, QuietLine
    PROVE  Honest'
<1>1. portIndex \in Ports /\ line \in [Ports -> Replies]
  BY DEF FInv, GInv, IInv, TypeOK, MachineTypeOK, LineTypeOK
<1>2. NoReply.kind \notin {"MUTE_ACK", "DUB"}
  BY DEF NoReply
<1> QED
  BY <1>1, <1>2 DEF FInv, CInv, HuntInv, Honest, QuietLine

LEMMA SameLine ==
    ASSUME FInv, QuietLine, tod' = tod, portIndex' = portIndex
    PROVE  /\ There' = There /\ Listed' = Listed /\ Honest' /\ Present'
           /\ Received' = Received \/ Received' = NoReply
<1>1. portIndex \in Ports /\ line \in [Ports -> Replies]
  BY DEF FInv, GInv, IInv, TypeOK, MachineTypeOK, LineTypeOK
<1> QED
  BY <1>1, QuietHonest
  DEF FInv, CInv, HuntInv, QuietLine, There, Listed, Present, Received

LEMMA UnMuteHunt ==
    ASSUME FInv, FewFaults, UnMuteDone \/ UnMuteSend \/ UnMuteWait
    PROVE  HuntInv'
<1>1. /\ state = "UNMUTE" /\ Resumed = "UNMUTE" /\ ~BranchInHand
      /\ AtRest /\ UnMuteInv
      /\ tod' = tod /\ UNCHANGED <<control, mute, discovery, single, quikFind,
                                   quikFindDiscovery, stack, branch>>
  BY DEF UnMuteDone, UnMuteSend, UnMuteWait, Resumed, BranchInHand, Halving,
         FInv, CInv, HuntInv, Commands
<1>2. portIndex' = portIndex /\ doIncremental' = doIncremental
  BY <1>1 DEF control
<1>3. CASE UnMuteDone
  <2>1. /\ state' \in {"MUTE", "DISCOVERY"} /\ Resumed' = state'
        /\ state' = "MUTE" => doIncremental
        /\ UNCHANGED lineVars
    BY <1>3 DEF UnMuteDone, NewState, Resumed
  <2>2. /\ Muted' = Muted /\ faults' = faults /\ Received' = Received
        /\ There' = There /\ Listed' = Listed /\ Honest' /\ Present'
    BY <1>1, <1>2, <2>1, SameLine DEF lineVars, QuietLine, Muted, Received
  <2>3. Muted = {}
    BY <1>1, <1>3, Facts DEF UnMuteDone, UnMuteInv, Enough, One, FInv
  <2>4. ~discovery.running /\ ~BranchInHand'
    BY <1>1, <2>1 DEF AtRest, BranchInHand, Halving
  <2>5. Covered'
    <3> SUFFICES ASSUME NEW d \in There
                 PROVE  Ahead(d)' /\ d \notin Muted'
      BY <2>2 DEF Covered
    <3>1. stack # << >> /\ d <= Top.upper
      BY <1>1, Facts, UnicastUid DEF UnMuteInv, FInv
    <3> QED
      BY <1>1, <2>2, <2>3, <2>4, <3>1 DEF Ahead, Top
  <2>6. AtRest'
    BY <1>1, <2>1, <2>2 DEF AtRest
  <2>7. MuteInv'
    <3> SUFFICES ASSUME state' = "MUTE" PROVE MuteInv'
      BY DEF MuteInv
    <3>1. /\ mute.counter > MaxFaults /\ mute.running = FALSE
          /\ mute.todEntries <= Len(tod[portIndex])
      BY <1>1, <2>1, CounterTypes DEF UnMuteInv, FInv
    <3>2. mute.counter > faults + 0 /\ mute' = mute
      BY <1>1, <3>1, Facts, CounterTypes DEF FInv
    <3> QED
      BY <1>1, <1>2, <2>2, <3>1, <3>2 DEF MuteInv, Enough, One
  <2>8. UnMuteInv' /\ DiscoveryInv' /\ SingleInv' /\ QuickInv'
    BY <1>1, <2>1, <2>4 DEF UnMuteInv, DiscoveryInv, SingleInv, QuickInv
  <2> QED
    BY <2>2, <2>5, <2>6, <2>7, <2>8 DEF HuntInv, Commands
<1>4. CASE UnMuteSend \/ UnMuteWait
  <2>1. /\ state' = state /\ savedState' = savedState /\ Resumed' = "UNMUTE"
    BY <1>1, <1>4 DEF UnMuteSend, UnMuteWait, Resumed
  <2>2. /\ Muted' = {} \/ Enough(unMute, unMute.running)'
        /\ faults' <= faults /\ faults' \in Nat
        /\ Listed' = Listed /\ Honest' /\ Present'
    <3>1. CASE UnMuteSend
      <4>1. /\ unMute' = [unMute EXCEPT !.running = TRUE] /\ ~unMute.running
            /\ Transmit(DiscUnMute, faults)
        BY <3>1 DEF UnMuteSend
      <4>2. /\ unMute'.counter = unMute.counter /\ unMute'.running = TRUE
            /\ unMute.counter \in Nat
        BY <4>1, CounterTypes DEF FInv
      <4>3. /\ devices' = devices /\ Honest' /\ faults' \in Nat /\ faults' <= faults
            /\ Muted' \in {Muted, {}} /\ (Muted' = {} \/ faults' < faults)
        BY <1>2, <4>1, Facts, Sent, UnMuteReply DEF FInv, CInv, HuntInv
      <4>4. Listed' = Listed /\ Present'
        BY <1>1, <1>2, <4>3 DEF FInv, CInv, HuntInv, Listed, Present
      <4>5. Muted = {} \/ unMute.counter > faults
        BY <1>1, <4>1, <4>2, Facts DEF UnMuteInv, Enough, One, FInv
      <4>6. Muted' = {} \/ unMute'.counter > faults' + 1
        BY <4>2, <4>3, <4>5, Facts DEF FInv
      <4> QED
        BY <4>2, <4>3, <4>4, <4>6 DEF Enough, One
    <3>2. CASE UnMuteWait
      <4>1. /\ unMute.running /\ QuietLine
            /\ unMute' = Command(unMute.counter - 1) \/ unMute' = unMute
            /\ UNCHANGED <<muted, faults>>
        BY <3>2 DEF UnMuteWait, QuietLine
      <4>2. Muted' = Muted
        BY <1>2, <4>1 DEF Muted
      <4>3. Muted = {} \/ unMute.counter > faults + 1
        BY <1>1, <4>1 DEF UnMuteInv, Enough, One
      <4>4. unMute.counter \in Nat /\ faults \in Nat
        BY CounterTypes, Facts DEF FInv
      <4>5. unMute' = Command(unMute.counter - 1) =>
                unMute'.counter = unMute.counter - 1 /\ ~unMute'.running
        BY DEF Command
      <4>6. Muted' = {} \/ Enough(unMute, unMute.running)'
        BY <4>1, <4>2, <4>3, <4>4, <4>5 DEF Enough, One
      <4> QED
        BY <1>1, <1>2, <4>1, <4>4, <4>6, SameLine
    <3> QED
      BY <1>4, <3>1, <3>2
  <2>3. Covered' /\ Top' = Top
    BY <1>1, <2>1 DEF Covered, Top
  <2>4. AtRest'
    BY <1>1, <2>1, <2>2, Facts DEF AtRest, FInv
  <2>5. Len(tod'[portIndex']) = Len(tod[portIndex])
    BY <1>1, <1>2
  <2>6. UnMuteInv'
    BY <1>1, <1>2, <2>2, <2>3, <2>5 DEF UnMuteInv
  <2>7. MuteInv' /\ DiscoveryInv' /\ SingleInv' /\ QuickInv'
    BY <1>1, <2>1 DEF MuteInv, DiscoveryInv, SingleInv, QuickInv
  <2> QED
    BY <2>2, <2>3, <2>4, <2>6, <2>7 DEF HuntInv, Commands
<1> QED
  BY <1>3, <1>4

-----------------------------------------------------------------------------
(* State MUTE.                                                              *)

(* The budget of a request that is sent again. *)
LEMMA LeftBudget ==
    ASSUME GInv, NEW left, TimeOut(left)
    PROVE  /\ left \in Nat
           /\ \/ Received = NoReply /\ left = faults
              \/ Received # NoReply /\ left + 1 = faults
BY Facts DEF TimeOut

(* A request to mute a responder of the line. *)
LEMMA MuteSent ==
    ASSUME FInv, FewFaults, NEW uid \in Uid, NEW budget \in Nat,
           Transmit(DiscMute(uid), budget), portIndex' = portIndex
    PROVE  /\ devices' = devices /\ There' = There /\ Honest'
           /\ faults' \in Nat /\ faults' <= budget
           /\ \A d \in Muted' : d \in Muted \/ d = uid
           /\ Received' \in {Received, MuteAck(uid), NoReply, Collision}
           /\ uid \in There =>
                 /\ Received' \in {Received, MuteAck(uid), Collision}
                 /\ Received' = MuteAck(uid) \/ faults' < budget
           /\ uid \notin There => Received' \in {Received, NoReply, Collision}
<1> DEFINE request == DiscMute(uid)
           reply == ReplyTo(request, There, Muted)
           after == MutedAfter(request, There, Muted)
<1>1. /\ request \in Requests
      /\ after = Muted \cup ({uid} \cap There)
      /\ uid \in There => reply = MuteAck(uid)
      /\ uid \notin There => reply = NoReply
  BY MuteReply
<1>2. MuteAck(uid) # NoReply
  BY DEF MuteAck, NoReply
<1>3. /\ devices' = devices /\ There' = There /\ Honest'
      /\ faults' \in Nat /\ faults' <= budget
      /\ Muted' \in {Muted, after}
      /\ Received' \in {Received, reply, Collision}
      /\ \/ faults' < budget
         \/ reply = NoReply
         \/ Received' = reply
  BY <1>1, Sent DEF FInv, CInv, HuntInv
<1> HIDE DEF request, reply, after
<1> QED
  BY <1>1, <1>2, <1>3

LEMMA MuteHunt ==
    ASSUME FInv, FewFaults,
           MuteDone \/ MuteGone \/ MuteSend \/ MuteAnswer \/ MuteTimeOut
    PROVE  HuntInv' /\ Listed' = Listed
<1>1. /\ state = "MUTE" /\ Resumed = "MUTE" /\ ~BranchInHand
      /\ AtRest /\ MuteInv /\ Covered /\ Present
      /\ UNCHANGED <<discovery, single, quikFind, quikFindDiscovery, stack, branch>>
      /\ portIndex' = portIndex
  BY DEF MuteDone, MuteGone, MuteSend, MuteAnswer, MuteTimeOut, Resumed,
         BranchInHand, Halving, FInv, CInv, HuntInv, Commands, control
<1>2. /\ mute.todEntries <= Len(tod[portIndex])
      /\ mute.counter > faults + One(mute.running /\ Received = NoReply)
      /\ mute.running => mute.uid \in Listed
      /\ faults \in Nat /\ mute.counter \in Nat /\ mute.todEntries \in Nat
      /\ mute.running \in BOOLEAN
      /\ mute \in [counter : Nat, running : BOOLEAN, todEntries : Nat, uid : AnyUid]
  BY <1>1, Facts, CounterTypes DEF MuteInv, Enough, FInv
<1>3. ~MuteGone /\ tod' = tod
  <2>1. mute.counter # 0
    BY <1>2 DEF One
  <2> QED
    BY <2>1 DEF MuteGone, MuteDone, MuteSend, MuteAnswer, MuteTimeOut
<1>4. Listed' = Listed /\ Len(tod'[portIndex']) = Len(tod[portIndex])
  BY <1>1, <1>3 DEF Listed
<1>5. CASE MuteDone
  <2>1. /\ state' = "DISCOVERY" /\ Resumed' = "DISCOVERY"
        /\ UNCHANGED lineVars
    BY <1>5 DEF MuteDone, NewState, Resumed
  <2>2. /\ Muted' = Muted /\ faults' = faults
        /\ There' = There /\ Honest' /\ Present'
    BY <1>1, <1>3, <2>1, SameLine DEF lineVars, QuietLine, Muted
  <2>3. ~discovery'.running /\ ~BranchInHand'
    BY <1>1, <2>1 DEF AtRest, BranchInHand, Halving
  <2>4. Covered'
    BY <1>1, <1>4, <2>1, <2>2, <2>3, CoveredKept DEF Ahead, Top, Tried
  <2>5. AtRest'
    BY <1>1, <2>1, <2>2 DEF AtRest
  <2>6. UnMuteInv' /\ MuteInv' /\ DiscoveryInv' /\ SingleInv' /\ QuickInv'
    BY <1>1, <2>1, <2>3
    DEF UnMuteInv, MuteInv, DiscoveryInv, SingleInv, QuickInv
  <2> QED
    BY <1>4, <2>2, <2>4, <2>5, <2>6 DEF HuntInv, Commands
<1>6. CASE MuteSend \/ MuteAnswer \/ MuteTimeOut
  <2>1. /\ state' = state /\ savedState' = savedState /\ Resumed' = "MUTE"
    BY <1>1, <1>6 DEF MuteSend, MuteAnswer, MuteTimeOut, Resumed
  <2>2. /\ There' = There /\ Honest' /\ Present'
        /\ \A d \in Muted' : d \in Muted \/ d \in Listed
        /\ mute'.todEntries <= Len(tod[portIndex])
        /\ Enough(mute, mute.running /\ Received = NoReply)'
        /\ mute'.running => mute'.uid \in Listed
        /\ faults' \in Nat /\ faults' <= faults
    <3>1. CASE MuteSend
      <4> DEFINE uid == CopyUidEntry(tod[portIndex], mute.todEntries - 1)
      <4>1. /\ mute' = [mute EXCEPT !.uid = uid, !.running = TRUE]
            /\ Transmit(DiscMute(uid), faults)
            /\ mute.todEntries > 0 /\ ~mute.running
        BY <3>1 DEF MuteSend
      <4>2. uid = tod[portIndex][mute.todEntries]
            /\ mute.todEntries \in DOMAIN tod[portIndex]
        BY <1>2, <4>1, Facts DEF CopyUidEntry, FInv
      <4>3. uid \in Listed
        BY <4>2 DEF Listed, TodUids
      <4> HIDE DEF uid
      <4>4. uid \in Uid /\ uid \in There
        BY <1>1, <4>3, Facts DEF Present, Listed, There, FInv
      <4>5. /\ mute'.running = TRUE /\ mute'.uid = uid
            /\ mute'.counter = mute.counter /\ mute'.todEntries = mute.todEntries
        BY <1>2, <4>1
      <4>6. mute.counter > faults
        BY <1>2, <4>1 DEF One
      <4>7. /\ devices' = devices /\ There' = There /\ Honest'
            /\ faults' \in Nat /\ faults' <= faults
            /\ \A d \in Muted' : d \in Muted \/ d = uid
            /\ Received' = MuteAck(uid) \/ faults' < faults
        BY <1>1, <1>2, <4>1, <4>4, MuteSent
      <4>8. MuteAck(uid) # NoReply
        BY DEF MuteAck, NoReply
      <4>9. Enough(mute, mute.running /\ Received = NoReply)'
        BY <1>2, <4>5, <4>6, <4>7, <4>8 DEF Enough, One
      <4>10. Present'
        BY <1>1, <1>3, <4>7 DEF Present
      <4> QED
        BY <1>2, <4>3, <4>5, <4>7, <4>9, <4>10
    <3>2. CASE MuteAnswer
      <4>1. /\ mute' = [mute EXCEPT !.todEntries = @ - 1, !.running = FALSE]
            /\ QuietLine /\ UNCHANGED <<muted, faults>> /\ mute.todEntries > 0
        BY <3>2 DEF MuteAnswer, Receive, QuietLine
      <4>2. /\ mute'.running = FALSE /\ mute'.counter = mute.counter
            /\ mute'.todEntries = mute.todEntries - 1
        BY <1>2, <4>1
      <4>3. /\ There' = There /\ Honest' /\ Present' /\ Muted' = Muted
        BY <1>1, <1>3, <4>1, SameLine DEF Muted
      <4>4. Enough(mute, mute.running /\ Received = NoReply)'
        BY <1>2, <4>1, <4>2 DEF Enough, One
      <4>5. mute'.todEntries <= Len(tod[portIndex])
        BY <1>2, <4>2, Facts DEF FInv
      <4> QED
        BY <1>2, <4>1, <4>2, <4>3, <4>4, <4>5
    <3>3. CASE MuteTimeOut
      <4>1. PICK left \in 0 .. MaxFaults :
                TimeOut(left) /\ Transmit(DiscMute(mute.uid), left)
        BY <3>3 DEF MuteTimeOut
      <4>2. mute' = [mute EXCEPT !.counter = @ - 1] /\ mute.running
        BY <3>3 DEF MuteTimeOut
      <4>3. mute.uid \in Listed /\ mute.uid \in Uid /\ mute.uid \in There
        BY <1>1, <1>2, <4>2, Facts DEF Present, Listed, There, FInv
      <4>4. /\ mute'.running = TRUE /\ mute'.uid = mute.uid
            /\ mute'.counter = mute.counter - 1
            /\ mute'.todEntries = mute.todEntries
        BY <1>2, <4>2
      <4>5. /\ left \in Nat
            /\ \/ Received = NoReply /\ left = faults
               \/ Received # NoReply /\ left + 1 = faults
        BY <4>1, LeftBudget DEF FInv
      <4>6. mute.counter > left + 1
        BY <1>2, <4>2, <4>5 DEF One
      <4>7. /\ devices' = devices /\ There' = There /\ Honest'
            /\ faults' \in Nat /\ faults' <= left
            /\ \A d \in Muted' : d \in Muted \/ d = mute.uid
            /\ Received' = MuteAck(mute.uid) \/ faults' < left
        BY <1>1, <4>1, <4>3, <4>5, MuteSent
      <4>8. MuteAck(mute.uid) # NoReply
        BY DEF MuteAck, NoReply
      <4>9. Enough(mute, mute.running /\ Received = NoReply)'
        BY <1>2, <4>4, <4>5, <4>6, <4>7, <4>8 DEF Enough, One
      <4>10. Present'
        BY <1>1, <1>3, <4>7 DEF Present
      <4>11. faults' <= faults
        BY <1>2, <4>5, <4>7
      <4> QED
        BY <1>2, <4>3, <4>4, <4>7, <4>9, <4>10, <4>11
    <3> QED
      BY <1>6, <3>1, <3>2, <3>3
  <2>3. ~BranchInHand' /\ Top' = Top
    BY <1>1, <2>1 DEF BranchInHand, Halving, Top
  <2>4. Covered'
    BY <1>1, <1>4, <2>1, <2>2, <2>3, CoveredKept DEF Ahead, Tried
  <2>5. AtRest'
    BY <1>1, <2>1, <2>2, Facts DEF AtRest, FInv
  <2>6. MuteInv'
    BY <1>4, <2>2 DEF MuteInv
  <2>7. UnMuteInv' /\ DiscoveryInv' /\ SingleInv' /\ QuickInv'
    BY <1>1, <2>1 DEF UnMuteInv, DiscoveryInv, SingleInv, QuickInv
  <2> QED
    BY <1>4, <2>2, <2>4, <2>5, <2>6, <2>7 DEF HuntInv, Commands
<1> QED
  BY <1>3, <1>5, <1>6

-----------------------------------------------------------------------------
(* State DISCOVERY.                                                         *)

(* A request for the unmuted responders of a branch. *)
LEMMA BranchSent ==
    ASSUME FInv, FewFaults, NEW lower \in Uid, NEW upper \in Uid, NEW budget \in Nat,
           Transmit(DiscUniqueBranch(lower, upper), budget), portIndex' = portIndex
    PROVE  /\ devices' = devices /\ There' = There /\ Honest' /\ Muted' = Muted
           /\ faults' \in Nat /\ faults' <= budget
           /\ \/ Answering(DiscUniqueBranch(lower, upper), There, Muted) = {}
              \/ Received' # NoReply
              \/ faults' < budget
<1> DEFINE request == DiscUniqueBranch(lower, upper)
           reply == ReplyTo(request, There, Muted)
           after == MutedAfter(request, There, Muted)
           answering == Answering(request, There, Muted)
<1>1. /\ request \in Requests /\ after = Muted
      /\ answering # {} => reply # NoReply
  BY BranchReply
<1>2. /\ devices' = devices /\ There' = There /\ Honest'
      /\ faults' \in Nat /\ faults' <= budget
      /\ Muted' \in {Muted, after}
      /\ \/ faults' < budget
         \/ reply = NoReply
         \/ Received' = reply
  BY <1>1, Sent DEF FInv, CInv, HuntInv
<1> HIDE DEF reply, after, answering
<1>3. answering = {} \/ Received' # NoReply \/ faults' < budget
  BY <1>1, <1>2
<1> QED
  BY <1>1, <1>2, <1>3 DEF answering

(* NewState, from another state than LATE_RESPONSE. *)
LEMMA Entered ==
    ASSUME state # "LATE_RESPONSE", NEW next, next # "LATE_RESPONSE",
           NEW late \in BOOLEAN, NewState(next, late)
    PROVE  /\ Resumed' = next
           /\ late => state' = "LATE_RESPONSE" /\ savedState' = next
           /\ ~late => state' = next
BY DEF NewState, Resumed

LEMMA TakenOff ==
    ASSUME FInv, tod' = tod, portIndex' = portIndex, Receive \/ UNCHANGED lineVars
    PROVE  /\ There' = There /\ Listed' = Listed /\ Muted' = Muted
           /\ Honest' /\ Present' /\ faults' = faults
<1>1. QuietLine /\ muted' = muted /\ faults' = faults
  BY DEF Receive, lineVars, QuietLine
<1> QED
  BY <1>1, SameLine DEF Muted

LEMMA ReceivedHonest ==
    ASSUME FInv, Received.kind \in {"MUTE_ACK", "DUB"}
    PROVE  Received.uid \in There
BY Facts DEF FInv, CInv, HuntInv, Honest, Received, There

LEMMA DiscoveryHunt ==
    ASSUME FInv, FewFaults,
           \/ DiscoveryAnswer \/ DiscoveryTimeOut \/ DiscoveryFinished
           \/ DiscoverySingleUid \/ DiscoverySend
    PROVE  HuntInv' /\ Listed' = Listed
<1>1. /\ state = "DISCOVERY" /\ Resumed = "DISCOVERY"
      /\ BranchInHand <=> discovery.running
      /\ AtRest /\ DiscoveryInv /\ Covered /\ Present
      /\ UNCHANGED <<unMute, mute, single, quikFind>>
      /\ portIndex' = portIndex /\ tod' = tod
  BY DEF DiscoveryAnswer, DiscoveryTimeOut, DiscoveryFinished, DiscoverySingleUid,
         DiscoverySend, Resumed, BranchInHand, Halving, FInv, CInv, HuntInv,
         Commands, control, counters
<1>2. /\ faults \in Nat /\ faults <= MaxFaults /\ MaxFaults \in Nat
      /\ discovery \in [counter : Nat, running : BOOLEAN]
      /\ discovery.counter \in Nat
      /\ quikFindDiscovery \in [counter : Nat, running : BOOLEAN]
      /\ branch.lower \in Uid /\ branch.upper \in Uid
  BY Facts, CounterTypes DEF FInv
<1>3. Listed' = Listed
  BY <1>1 DEF Listed
<1>4. CASE DiscoveryAnswer
  <2>1. /\ state' = "DUB" /\ Resumed' = "DUB"
        /\ discovery' = [discovery EXCEPT !.running = FALSE]
        /\ UNCHANGED <<quikFindDiscovery, stack, branch>>
        /\ discovery.running
        /\ \/ Receive /\ response' = Received
           \/ discovery.counter = 0 /\ response' = NoReply /\ UNCHANGED lineVars
    BY <1>1, <1>4, Entered DEF DiscoveryAnswer
  <2>2. /\ There' = There /\ Muted' = Muted /\ faults' = faults
        /\ Honest' /\ Present'
    BY <1>1, <2>1, TakenOff
  <2>3. Answerers' = Answerers
    BY <2>1, <2>2, AnswerersSame
  <2>4. DiscoveryInv'
    <3>1. CASE Receive /\ response' = Received
      BY <2>1, <2>2, <3>1, ReceivedHonest DEF Receive, DiscoveryInv
    <3>2. CASE discovery.counter = 0 /\ response' = NoReply
      <4>1. Answerers = {}
        BY <1>1, <1>2, <2>1, <3>2 DEF DiscoveryInv, Enough, One
      <4> QED
        BY <2>1, <2>3, <3>2, <4>1 DEF DiscoveryInv, NoReply
    <3> QED
      BY <2>1, <3>1, <3>2
  <2>5. BranchInHand' /\ BranchInHand
    BY <1>1, <2>1 DEF BranchInHand, Halving
  <2>6. Covered'
    BY <1>1, <1>3, <2>1, <2>2, <2>5, CoveredKept DEF Ahead, Tried
  <2>7. discovery'.running = FALSE
    BY <1>2, <2>1
  <2>8. AtRest'
    BY <1>1, <2>1, <2>2, <2>7 DEF AtRest
  <2>9. UnMuteInv' /\ MuteInv' /\ SingleInv' /\ QuickInv'
    BY <2>1 DEF UnMuteInv, MuteInv, SingleInv, QuickInv
  <2> QED
    BY <1>3, <2>2, <2>4, <2>6, <2>8, <2>9 DEF HuntInv, Commands
<1>5. CASE DiscoveryTimeOut
  <2>1. PICK left \in 0 .. MaxFaults :
            /\ TimeOut(left)
            /\ Transmit(DiscUniqueBranch(branch.lower, branch.upper), left)
    BY <1>5 DEF DiscoveryTimeOut
  <2>2. /\ state' = state /\ savedState' = savedState /\ Resumed' = "DISCOVERY"
        /\ discovery' = [discovery EXCEPT !.counter = @ - 1]
        /\ UNCHANGED <<quikFindDiscovery, stack, branch>>
        /\ discovery.running
    BY <1>1, <1>5 DEF DiscoveryTimeOut, Resumed
  <2>3. /\ left \in Nat
        /\ \/ Received = NoReply /\ left = faults
           \/ Received # NoReply /\ left + 1 = faults
    BY <2>1, LeftBudget DEF FInv
  <2>4. /\ devices' = devices /\ There' = There /\ Honest' /\ Muted' = Muted
        /\ faults' \in Nat /\ faults' <= left
        /\ Answerers = {} \/ Received' # NoReply \/ faults' < left
    BY <1>1, <1>2, <2>1, <2>3, BranchSent DEF Answerers
  <2>5. Answerers' = Answerers
    BY <2>2, <2>4, AnswerersSame
  <2>6. /\ discovery'.running = TRUE
        /\ discovery'.counter = discovery.counter - 1
    BY <1>2, <2>2
  <2>7. DiscoveryInv'
    <3>1. Answerers = {} \/ discovery.counter > left + 1
      BY <1>1, <1>2, <2>2, <2>3 DEF DiscoveryInv, Enough, One
    <3>2. Answerers' = {} \/ Enough(discovery, Received = NoReply)'
      BY <1>2, <2>3, <2>4, <2>5, <2>6, <3>1 DEF Enough, One
    <3> QED
      BY <1>1, <2>2, <3>2 DEF DiscoveryInv
  <2>8. BranchInHand' /\ BranchInHand /\ Present'
    BY <1>1, <2>2, <2>4, <2>6 DEF BranchInHand, Halving, Present
  <2>9. Covered'
    BY <1>1, <1>3, <2>2, <2>4, <2>8, CoveredKept DEF Ahead, Tried
  <2>10. faults' <= faults
    BY <1>2, <2>3, <2>4
  <2>11. AtRest'
    BY <1>1, <1>2, <2>2, <2>4, <2>10 DEF AtRest
  <2>12. UnMuteInv' /\ MuteInv' /\ SingleInv' /\ QuickInv'
    BY <1>1, <2>2 DEF UnMuteInv, MuteInv, SingleInv, QuickInv
  <2> QED
    BY <1>3, <2>4, <2>7, <2>8, <2>9, <2>11, <2>12 DEF HuntInv, Commands
<1>6. CASE DiscoveryFinished
  <2>1. /\ state' = "LATE_RESPONSE" /\ savedState' = "FINISHED"
        /\ Resumed' = "FINISHED" /\ stack = << >>
        /\ UNCHANGED <<discovery, quikFindDiscovery, stack, branch, lineVars>>
        /\ ~discovery.running
    BY <1>1, <1>6, Entered DEF DiscoveryFinished, counters
  <2>2. /\ There' = There /\ Muted' = Muted /\ faults' = faults
        /\ Honest' /\ Present'
    BY <1>1, <2>1, TakenOff
  <2>3. ~BranchInHand
    BY <1>1, <2>1
  <2>4. Covered'
    BY <1>1, <1>3, <2>1, <2>2, <2>3, CoveredKept DEF Ahead, Tried
  <2>5. AtRest'
    BY <1>1, <2>1, <2>2 DEF AtRest
  <2>6. UnMuteInv' /\ MuteInv' /\ DiscoveryInv' /\ SingleInv' /\ QuickInv'
    BY <2>1 DEF UnMuteInv, MuteInv, DiscoveryInv, SingleInv, QuickInv
  <2> QED
    BY <1>3, <2>2, <2>4, <2>5, <2>6 DEF HuntInv, Commands
<1>7. CASE DiscoverySingleUid
  <2>1. /\ state' = "LATE_RESPONSE" /\ savedState' = "DISCOVERY_SINGLE_DEVICE"
        /\ Resumed' = "DISCOVERY_SINGLE_DEVICE" /\ stack # << >>
        /\ UNCHANGED <<discovery, lineVars>>
        /\ ~discovery.running /\ branch' = Top /\ Top.lower = Top.upper
        /\ quikFindDiscovery' = [quikFindDiscovery EXCEPT !.running = FALSE]
    BY <1>1, <1>7, Entered DEF DiscoverySingleUid
  <2>2. /\ There' = There /\ Muted' = Muted /\ faults' = faults
        /\ Honest' /\ Present'
    BY <1>1, <2>1, TakenOff
  <2>3. ~BranchInHand /\ BranchInHand'
    BY <1>1, <2>1 DEF BranchInHand
  <2>4. Covered'
    BY <1>1, <1>3, <2>1, <2>2, <2>3, CoveredKept DEF Ahead, Tried
  <2>5. /\ quikFindDiscovery'.counter = quikFindDiscovery.counter
        /\ quikFindDiscovery'.running = FALSE
    BY <1>2, <2>1
  <2>6. AtRest'
    BY <1>1, <2>1, <2>2, <2>5 DEF AtRest
  <2>7. UnMuteInv' /\ MuteInv' /\ DiscoveryInv' /\ SingleInv' /\ QuickInv'
    BY <2>1 DEF UnMuteInv, MuteInv, DiscoveryInv, SingleInv, QuickInv
  <2> QED
    BY <1>3, <2>2, <2>4, <2>6, <2>7 DEF HuntInv, Commands
<1>8. CASE DiscoverySend
  <2>1. /\ state' = state /\ savedState' = savedState /\ Resumed' = "DISCOVERY"
        /\ discovery' = [counter |-> DISCOVERY_COUNTER, running |-> TRUE]
        /\ UNCHANGED quikFindDiscovery /\ branch' = Top /\ stack # << >>
        /\ ~discovery.running
        /\ Transmit(DiscUniqueBranch(Top.lower, Top.upper), faults)
    BY <1>1, <1>8 DEF DiscoverySend, Resumed
  <2>2. Top.lower \in Uid /\ Top.upper \in Uid
    <3>1. stack \in Seq(Branch)
      BY CounterTypes DEF FInv
    <3>2. Top \in Branch
      BY <2>1, <3>1, PoppedSeq DEF Top
    <3> QED
      BY <3>2 DEF Branch
  <2>3. /\ devices' = devices /\ There' = There /\ Honest' /\ Muted' = Muted
        /\ faults' \in Nat /\ faults' <= faults
        /\ \/ Answering(DiscUniqueBranch(Top.lower, Top.upper), There, Muted) = {}
           \/ Received' # NoReply \/ faults' < faults
    BY <1>1, <1>2, <2>1, <2>2, BranchSent
  <2>4. Answerers' = Answering(DiscUniqueBranch(Top.lower, Top.upper), There, Muted)
    BY <2>1, <2>3 DEF Answerers
  <2>5. DISCOVERY_COUNTER > faults /\ DISCOVERY_COUNTER \in Nat
    BY <1>2, Counters DEF FewFaults
  <2>6. discovery'.running = TRUE /\ discovery'.counter = DISCOVERY_COUNTER
    BY <2>1
  <2>7. Answerers' = {} \/ Enough(discovery, Received = NoReply)'
    BY <1>2, <2>3, <2>4, <2>5, <2>6 DEF Enough, One
  <2>8. DiscoveryInv'
    BY <1>1, <2>1, <2>7 DEF DiscoveryInv
  <2>9. ~BranchInHand /\ BranchInHand' /\ Present'
    BY <1>1, <2>1, <2>3, <2>6 DEF BranchInHand, Halving, Present
  <2>10. Covered'
    BY <1>1, <1>3, <2>1, <2>3, <2>9, CoveredKept DEF Ahead, Tried
  <2>11. AtRest'
    BY <1>1, <1>2, <2>1, <2>3 DEF AtRest
  <2>12. UnMuteInv' /\ MuteInv' /\ SingleInv' /\ QuickInv'
    BY <1>1, <2>1 DEF UnMuteInv, MuteInv, SingleInv, QuickInv
  <2> QED
    BY <1>3, <2>3, <2>8, <2>9, <2>10, <2>11, <2>12 DEF HuntInv, Commands
<1> QED
  BY <1>4, <1>5, <1>6, <1>7, <1>8

-----------------------------------------------------------------------------
(* State DISCOVERY_SINGLE_DEVICE.                                           *)

LEMMA AckDiffers ==
    ASSUME NEW uid
    PROVE  MuteAck(uid) # NoReply /\ MuteAck(uid) # Collision
BY DEF MuteAck, NoReply, Collision

LEMMA SingleHunt ==
    ASSUME FInv, FewFaults, SingleGiveUp \/ SingleSend \/ SingleAnswer \/ SingleTimeOut
    PROVE  HuntInv' /\ Listed \subseteq Listed'
<1> DEFINE uid == branch.lower
<1>1. /\ state = "DISCOVERY_SINGLE_DEVICE" /\ Resumed = "DISCOVERY_SINGLE_DEVICE"
      /\ BranchInHand
      /\ AtRest /\ SingleInv /\ Covered /\ Present
      /\ branch.lower = branch.upper
      /\ UNCHANGED <<unMute, mute, discovery, quikFind, quikFindDiscovery, stack,
                     branch>>
      /\ portIndex' = portIndex
  BY DEF SingleGiveUp, SingleSend, SingleAnswer, SingleTimeOut, Resumed,
         BranchInHand, FInv, CInv, HuntInv, Commands, control, AtRest
<1>2. /\ faults \in Nat /\ faults <= MaxFaults /\ MaxFaults \in Nat
      /\ single \in [counter : Nat, running : BOOLEAN]
      /\ single.counter \in Nat /\ single.running \in BOOLEAN
      /\ uid \in Uid /\ uid \in Nat
  BY Facts, CounterTypes, UnicastUid DEF FInv
<1>3. uid \in There =>
          single.counter > faults + One(single.running /\ Received # MuteAck(uid))
  BY <1>1 DEF SingleInv, Enough
<1>4. \A d \in There : Ahead(d) /\ d # uid => stack # << >> /\ d <= Top.upper
  <2> SUFFICES ASSUME NEW d \in There, Ahead(d), d # uid
               PROVE  stack # << >> /\ d <= Top.upper
    OBVIOUS
  <2>1. d \in Nat
    BY Facts, UnicastUid DEF FInv
  <2>2. d <= branch.upper /\ ~(branch.lower <= d)
    BY <1>1, <1>2, <2>1 DEF Ahead
  <2> QED
    BY <1>1, <2>2, Behind
<1>5. CASE SingleGiveUp
  <2>1. /\ state' = "LATE_RESPONSE" /\ savedState' = "DISCOVERY"
        /\ Resumed' = "DISCOVERY" /\ UNCHANGED <<tod, lineVars>>
        /\ single' = Command(QUIKFIND_DISCOVERY_COUNTER) /\ single.counter = 0
    BY <1>1, <1>5, Entered DEF SingleGiveUp
  <2>2. /\ There' = There /\ Muted' = Muted /\ faults' = faults
        /\ Listed' = Listed /\ Honest' /\ Present'
    BY <1>1, <2>1, TakenOff
  <2>3. uid \notin There
    BY <1>2, <1>3, <2>1 DEF One
  <2>4. ~BranchInHand' /\ Top' = Top
    BY <1>1, <2>1 DEF BranchInHand, Halving, AtRest, Top
  <2>5. \A d \in There : Ahead(d) => Ahead(d)'
    BY <1>1, <1>4, <2>3, <2>4 DEF Ahead
  <2>6. \A d \in There : ~Tried(d)
    BY <1>1, <2>3 DEF Tried
  <2>7. Covered'
    BY <1>1, <2>2, <2>5, <2>6, CoveredKept
  <2>8. single'.counter > MaxFaults /\ single'.running = FALSE
    BY <2>1 DEF FewFaults, Command
  <2>9. AtRest'
    BY <1>1, <2>1, <2>2, <2>8 DEF AtRest
  <2>10. UnMuteInv' /\ MuteInv' /\ DiscoveryInv' /\ SingleInv' /\ QuickInv'
    BY <2>1 DEF UnMuteInv, MuteInv, DiscoveryInv, SingleInv, QuickInv
  <2> QED
    BY <2>2, <2>7, <2>9, <2>10 DEF HuntInv, Commands
<1>6. CASE SingleAnswer /\ Received = MuteAck(uid)
  <2>1. /\ state' = "DISCOVERY" /\ Resumed' = "DISCOVERY" /\ Receive
        /\ tod' = [tod EXCEPT ![portIndex] = AddUid(@, uid)]
        /\ single' = Command(QUIKFIND_DISCOVERY_COUNTER)
    BY <1>1, <1>6, Entered DEF SingleAnswer
  <2>2. uid \in There
    BY <1>6, ReceivedHonest DEF MuteAck
  <2>3. /\ devices' = devices /\ There' = There /\ Muted' = Muted
        /\ faults' = faults /\ QuietLine
    BY <1>1, <2>1 DEF Receive, There, Muted, QuietLine
  <2>4. Listed' = Listed \cup {uid} /\ Present'
    BY <1>1, <2>1, <2>2, <2>3, ListedMore
  <2>5. Honest'
    BY <2>3, QuietHonest
  <2>6. ~BranchInHand' /\ Top' = Top
    BY <1>1, <2>1 DEF BranchInHand, Halving, AtRest, Top
  <2>7. \A d \in There : Ahead(d) => Ahead(d)' \/ d \in Listed'
    BY <1>1, <1>4, <2>4, <2>6 DEF Ahead
  <2>8. \A d \in There : Tried(d) => d \in Listed'
    BY <1>1, <2>4 DEF Tried
  <2>9. Covered'
    BY <1>1, <2>3, <2>4, <2>7, <2>8, CoveredKept
  <2>10. single'.counter > MaxFaults /\ single'.running = FALSE
    BY <2>1 DEF FewFaults, Command
  <2>11. AtRest'
    BY <1>1, <2>1, <2>3, <2>10 DEF AtRest
  <2>12. UnMuteInv' /\ MuteInv' /\ SingleInv' /\ QuickInv'
    BY <2>1 DEF UnMuteInv, MuteInv, SingleInv, QuickInv
  <2>13. DiscoveryInv'
    BY <1>1, <2>1 DEF DiscoveryInv, AtRest
  <2> QED
    BY <2>4, <2>5, <2>9, <2>11, <2>12, <2>13 DEF HuntInv, Commands
<1>7. CASE \/ SingleSend \/ SingleTimeOut
           \/ SingleAnswer /\ Received # MuteAck(uid)
  <2>1. /\ state' = state /\ savedState' = savedState
        /\ Resumed' = "DISCOVERY_SINGLE_DEVICE" /\ tod' = tod
    BY <1>1, <1>7 DEF SingleSend, SingleTimeOut, SingleAnswer, Resumed
  <2>2. Listed' = Listed
    BY <1>1, <2>1 DEF Listed
  <2>3. /\ There' = There /\ Honest' /\ Present'
        /\ \A d \in Muted' : d \in Muted \/ d = uid
        /\ uid \in There =>
              Enough(single, single.running /\ Received # MuteAck(branch.lower))'
        /\ faults' \in Nat /\ faults' <= faults
    <3>1. CASE SingleSend
      <4>1. /\ single' = [single EXCEPT !.running = TRUE]
            /\ Transmit(DiscMute(uid), faults) /\ ~single.running
        BY <3>1 DEF SingleSend
      <4>2. single'.running = TRUE /\ single'.counter = single.counter
        BY <1>2, <4>1
      <4>3. /\ devices' = devices /\ There' = There /\ Honest'
            /\ faults' \in Nat /\ faults' <= faults
            /\ \A d \in Muted' : d \in Muted \/ d = uid
            /\ uid \in There => Received' = MuteAck(uid) \/ faults' < faults
        BY <1>1, <1>2, <4>1, MuteSent
      <4>4. uid \in There => single.counter > faults
        BY <1>2, <1>3, <4>1 DEF One
      <4>5. uid \in There =>
                Enough(single, single.running /\ Received # MuteAck(branch.lower))'
        BY <1>1, <1>2, <4>2, <4>3, <4>4 DEF Enough, One
      <4> QED
        BY <1>1, <2>1, <4>3, <4>5 DEF Present
    <3>2. CASE SingleTimeOut
      <4>1. PICK left \in 0 .. MaxFaults :
                TimeOut(left) /\ Transmit(DiscMute(uid), left)
        BY <3>2 DEF SingleTimeOut
      <4>2. single' = [single EXCEPT !.counter = @ - 1] /\ single.running
        BY <3>2 DEF SingleTimeOut
      <4>3. single'.running = TRUE /\ single'.counter = single.counter - 1
        BY <1>2, <4>2
      <4>4. /\ left \in Nat
            /\ \/ Received = NoReply /\ left = faults
               \/ Received # NoReply /\ left + 1 = faults
        BY <4>1, LeftBudget DEF FInv
      <4>5. /\ devices' = devices /\ There' = There /\ Honest'
            /\ faults' \in Nat /\ faults' <= left
            /\ \A d \in Muted' : d \in Muted \/ d = uid
            /\ uid \in There => Received' = MuteAck(uid) \/ faults' < left
        BY <1>1, <1>2, <4>1, <4>4, MuteSent
      <4>6. uid \in There => single.counter > left + 1
        BY <1>2, <1>3, <4>2, <4>4, AckDiffers DEF One
      <4>7. uid \in There =>
                Enough(single, single.running /\ Received # MuteAck(branch.lower))'
        BY <1>1, <1>2, <4>3, <4>4, <4>5, <4>6 DEF Enough, One
      <4>8. faults' <= faults
        BY <1>2, <4>4, <4>5
      <4> QED
        BY <1>1, <2>1, <4>5, <4>7, <4>8 DEF Present
    <3>3. CASE SingleAnswer /\ Received # MuteAck(uid)
      <4>1. single' = single /\ Receive /\ single.running
        BY <3>3 DEF SingleAnswer
      <4>2. /\ There' = There /\ Honest' /\ Present' /\ Muted' = Muted
            /\ faults' = faults
        BY <1>1, <2>1, <4>1, TakenOff
      <4>3. uid \in There => single.counter > faults + 1
        BY <1>2, <1>3, <3>3, <4>1 DEF One
      <4>4. uid \in There =>
                Enough(single, single.running /\ Received # MuteAck(branch.lower))'
        BY <1>1, <1>2, <4>1, <4>2, <4>3 DEF Enough, One
      <4> QED
        BY <1>2, <4>2, <4>4
    <3> QED
      BY <1>7, <3>1, <3>2, <3>3
  <2>4. BranchInHand' /\ Top' = Top
    BY <1>1, <2>1 DEF BranchInHand, Top
  <2>5. \A d : Tried(d)' <=> d = uid
    BY <1>1, <2>1 DEF Tried
  <2>6. \A d : Tried(d) <=> d = uid
    BY <1>1 DEF Tried
  <2>7. Covered'
    BY <1>1, <2>1, <2>2, <2>3, <2>4, <2>5, <2>6, CoveredKept DEF Ahead
  <2>8. AtRest'
    BY <1>1, <1>2, <2>1, <2>3 DEF AtRest
  <2>9. SingleInv'
    BY <1>1, <2>3 DEF SingleInv
  <2>10. UnMuteInv' /\ MuteInv' /\ DiscoveryInv' /\ QuickInv'
    BY <1>1, <2>1 DEF UnMuteInv, MuteInv, DiscoveryInv, QuickInv
  <2> QED
    BY <2>2, <2>3, <2>7, <2>8, <2>9, <2>10 DEF HuntInv, Commands
<1> QED
  BY <1>5, <1>6, <1>7

-----------------------------------------------------------------------------
(* States DUB and QUICKFIND.                                                *)

LEMMA LastOfTwo ==
    ASSUME NEW S, NEW s \in Seq(S), NEW a \in S, NEW b \in S
    PROVE  /\ s \o <<a, b>> # << >>
           /\ (s \o <<a, b>>)[Len(s \o <<a, b>>)] = b
OBVIOUS

LEMMA DubHunt ==
    ASSUME FInv, FewFaults, DubSilence \/ DubFound \/ DubSplit
    PROVE  HuntInv' /\ Listed' = Listed
<1>1. /\ state = "DUB" /\ Resumed = "DUB" /\ BranchInHand
      /\ AtRest /\ DiscoveryInv /\ Covered
      /\ UNCHANGED <<unMute, mute, discovery, single, quikFindDiscovery, branch,
                     tod, lineVars>>
      /\ portIndex' = portIndex
  BY DEF DubSilence, DubFound, DubSplit, Resumed, BranchInHand, Halving,
         FInv, CInv, HuntInv, Commands, control, counters
<1>2. /\ There' = There /\ Muted' = Muted /\ faults' = faults
      /\ Listed' = Listed /\ Honest' /\ Present'
  BY <1>1, TakenOff
<1>3. /\ \A d : ~Tried(d)
      /\ ~discovery.running
      /\ quikFind \in [counter : Nat, running : BOOLEAN, uid : Uid]
  BY <1>1, CounterTypes DEF Tried, AtRest, FInv
<1>4. CASE DubSilence
  <2>1. /\ state' = "DISCOVERY" /\ Resumed' = "DISCOVERY" /\ response = NoReply
        /\ UNCHANGED <<quikFind, stack>>
    BY <1>1, <1>4, Entered DEF DubSilence, counters
  <2>2. ~BranchInHand' /\ Top' = Top
    BY <1>1, <1>3, <2>1 DEF BranchInHand, Halving, Top
  <2>3. \A d \in There : Ahead(d) => Ahead(d)' \/ d \in Listed'
    <3> SUFFICES ASSUME NEW d \in There, Ahead(d), d \notin Listed
                 PROVE  Ahead(d)'
      BY <1>2
    <3>1. d \notin Muted /\ d <= branch.upper
      BY <1>1, <1>3 DEF Covered, Ahead
    <3>2. ~(branch.lower <= d)
      BY <1>1, <2>1, <3>1, Answers DEF DiscoveryInv
    <3> QED
      BY <1>1, <2>1, <2>2, <3>1, <3>2, Behind DEF Ahead
  <2>4. Covered'
    BY <1>1, <1>2, <1>3, <2>3, CoveredKept
  <2>5. AtRest'
    BY <1>1, <1>2, <2>1 DEF AtRest
  <2>6. UnMuteInv' /\ MuteInv' /\ DiscoveryInv' /\ SingleInv' /\ QuickInv'
    BY <1>1, <1>3, <2>1 DEF UnMuteInv, MuteInv, DiscoveryInv, SingleInv, QuickInv
  <2> QED
    BY <1>2, <2>4, <2>5, <2>6 DEF HuntInv, Commands
<1>5. CASE DubFound
  <2>1. /\ state' = "LATE_RESPONSE" /\ savedState' = "QUICKFIND"
        /\ Resumed' = "QUICKFIND" /\ response.kind = "DUB" /\ stack' = stack
        /\ quikFind' = [quikFind EXCEPT !.uid = response.uid]
    BY <1>1, <1>5, Entered DEF DubFound, IsValidDiscoveryResponse
  <2>2. /\ quikFind'.uid = response.uid /\ quikFind'.running = quikFind.running
        /\ quikFind'.counter = quikFind.counter
    BY <1>3, <2>1
  <2>3. response.uid \in There
    BY <1>1, <2>1 DEF DiscoveryInv
  <2>4. BranchInHand'
    BY <2>1 DEF BranchInHand, Halving
  <2>5. Covered'
    BY <1>1, <1>2, <1>3, <2>4, CoveredKept DEF Ahead
  <2>6. AtRest'
    BY <1>1, <1>2, <2>1, <2>2 DEF AtRest
  <2>7. QuickInv'
    BY <1>2, <2>1, <2>2, <2>3 DEF QuickInv
  <2>8. UnMuteInv' /\ MuteInv' /\ DiscoveryInv' /\ SingleInv'
    BY <2>1 DEF UnMuteInv, MuteInv, DiscoveryInv, SingleInv
  <2> QED
    BY <1>2, <2>5, <2>6, <2>7, <2>8 DEF HuntInv, Commands
<1>6. CASE DubSplit
  <2> DEFINE mid == MidPosition(branch.lower, branch.upper)
             low == [lower |-> branch.lower, upper |-> mid]
             high == [lower |-> mid + 1, upper |-> branch.upper]
  <2>1. /\ state' = "LATE_RESPONSE" /\ savedState' = "DISCOVERY"
        /\ Resumed' = "DISCOVERY" /\ quikFind' = quikFind
        /\ stack' = stack \o <<low, high>>
    BY <1>1, <1>6, Entered DEF DubSplit, counters
  <2>2. stack' # << >> /\ Top'.upper = branch.upper
    <3>1. branch.lower \in Uid /\ branch.upper \in Uid /\ branch.lower < branch.upper
      BY <1>1, CounterTypes
      DEF FInv, GInv, IInv, SearchInv, BranchesTile, Halving
    <3>2. mid \in Uid /\ mid + 1 \in Uid
      BY <3>1, MidPositionIsMiddle
    <3>3. low \in Branch /\ high \in Branch /\ stack \in Seq(Branch)
      BY <3>1, <3>2, CounterTypes DEF Branch, FInv
    <3>4. high.upper = branch.upper
      OBVIOUS
    <3> HIDE DEF low, high
    <3> QED
      BY <2>1, <3>3, <3>4, LastOfTwo DEF Top
  <2>3. ~BranchInHand'
    BY <1>1, <1>3, <2>1 DEF BranchInHand, Halving
  <2>4. Covered'
    BY <1>1, <1>2, <1>3, <2>2, <2>3, CoveredKept DEF Ahead
  <2>5. AtRest'
    BY <1>1, <1>2, <2>1 DEF AtRest
  <2>6. UnMuteInv' /\ MuteInv' /\ DiscoveryInv' /\ SingleInv' /\ QuickInv'
    BY <2>1 DEF UnMuteInv, MuteInv, DiscoveryInv, SingleInv, QuickInv
  <2> QED
    BY <1>2, <2>4, <2>5, <2>6 DEF HuntInv, Commands
<1> QED
  BY <1>4, <1>5, <1>6

LEMMA QuickHunt ==
    ASSUME FInv, FewFaults,
           QuickGiveUp \/ QuickSend \/ QuickAnswer \/ QuickInvalid \/ QuickTimeOut
    PROVE  HuntInv' /\ Listed \subseteq Listed'
<1> DEFINE uid == quikFind.uid
<1>1. /\ state = "QUICKFIND" /\ Resumed = "QUICKFIND" /\ BranchInHand
      /\ AtRest /\ QuickInv /\ Covered /\ Present
      /\ UNCHANGED <<unMute, mute, discovery, single, quikFindDiscovery, stack,
                     branch>>
      /\ portIndex' = portIndex
  BY DEF QuickGiveUp, QuickSend, QuickAnswer, QuickInvalid, QuickTimeOut, Resumed,
         BranchInHand, Halving, FInv, CInv, HuntInv, Commands, control, counters
<1>2. /\ faults \in Nat /\ faults <= MaxFaults /\ MaxFaults \in Nat
      /\ quikFind \in [counter : Nat, running : BOOLEAN, uid : Uid]
      /\ quikFind.counter \in Nat /\ quikFind.running \in BOOLEAN
      /\ uid \in Uid /\ uid \in There
      /\ QUIKFIND_COUNTER \in Nat /\ MaxFaults < QUIKFIND_COUNTER
      /\ \/ quikFind.counter = QUIKFIND_COUNTER
         \/ /\ ~quikFind.running /\ faults < MaxFaults
            /\ quikFind.counter = QUIKFIND_COUNTER - 1
  BY <1>1, Facts, CounterTypes, Counters DEF FInv, QuickInv, AtRest, FewFaults
<1>3. ~QuickGiveUp
  <2>1. quikFind.counter # 0
    BY <1>2
  <2> QED
    BY <2>1 DEF QuickGiveUp
<1>4. CASE QuickAnswer
  <2>1. /\ state' = "QUICKFIND_DISCOVERY" /\ Resumed' = "QUICKFIND_DISCOVERY"
        /\ Receive /\ Received.kind = "MUTE_ACK"
        /\ quikFind' = [counter |-> QUIKFIND_COUNTER, running |-> FALSE,
                        uid |-> quikFind.uid]
        /\ tod' = [tod EXCEPT ![portIndex] =
                     IF Received.uid = uid THEN AddUid(@, Received.uid) ELSE @]
    BY <1>1, <1>4, Entered DEF QuickAnswer
  <2>2. Received.uid = uid
    BY <1>1, <2>1 DEF QuickInv
  <2>3. tod' = [tod EXCEPT ![portIndex] = AddUid(@, uid)]
    BY <2>1, <2>2
  <2>4. /\ devices' = devices /\ There' = There /\ Muted' = Muted
        /\ faults' = faults /\ QuietLine
    BY <1>1, <2>1 DEF Receive, There, Muted, QuietLine
  <2>5. Listed' = Listed \cup {uid} /\ Present' /\ Honest'
    BY <1>1, <1>2, <2>3, <2>4, ListedMore, QuietHonest
  <2>6. BranchInHand' /\ Top' = Top
    BY <1>1, <2>1 DEF BranchInHand, Halving, Top
  <2>7. \A d \in There : Tried(d) => d \in Listed'
    BY <1>1, <2>5 DEF Tried
  <2>8. Covered'
    BY <1>1, <2>4, <2>5, <2>6, <2>7, CoveredKept DEF Ahead
  <2>9. quikFind'.counter = QUIKFIND_COUNTER /\ quikFind'.running = FALSE
    BY <2>1
  <2>10. AtRest'
    BY <1>1, <2>1, <2>4, <2>9 DEF AtRest
  <2>11. QuickInv'
    <3>1. quikFindDiscovery.counter > MaxFaults /\ ~quikFindDiscovery.running
          /\ quikFindDiscovery.counter \in Nat
      BY <1>1, CounterTypes DEF AtRest, FInv
    <3>2. Enough(quikFindDiscovery, quikFindDiscovery.running /\ Received = NoReply)'
      BY <1>1, <1>2, <2>4, <3>1 DEF Enough, One
    <3> QED
      BY <2>1, <3>2 DEF QuickInv
  <2>12. UnMuteInv' /\ MuteInv' /\ DiscoveryInv' /\ SingleInv'
    BY <2>1 DEF UnMuteInv, MuteInv, DiscoveryInv, SingleInv
  <2> QED
    BY <2>5, <2>8, <2>10, <2>11, <2>12 DEF HuntInv, Commands
<1>5. CASE QuickSend \/ QuickInvalid \/ QuickTimeOut
  <2>1. /\ state' = state /\ savedState' = savedState /\ Resumed' = "QUICKFIND"
        /\ tod' = tod
    BY <1>1, <1>5 DEF QuickSend, QuickInvalid, QuickTimeOut, Resumed
  <2>2. Listed' = Listed
    BY <1>1, <2>1 DEF Listed
  <2>3. /\ There' = There /\ Honest' /\ Present'
        /\ \A d \in Muted' : d \in Muted \/ d = uid
        /\ faults' \in Nat /\ faults' <= faults
        /\ quikFind'.uid = uid
        /\ \/ quikFind'.counter = QUIKFIND_COUNTER
           \/ /\ ~quikFind'.running /\ faults' < MaxFaults
              /\ quikFind'.counter = QUIKFIND_COUNTER - 1
        /\ Received'.kind = "MUTE_ACK" => Received'.uid = uid
        /\ quikFind'.running /\ Received'.kind # "MUTE_ACK" => faults' < MaxFaults
    <3>1. CASE QuickSend
      <4>1. /\ quikFind' = [counter |-> QUIKFIND_COUNTER, running |-> TRUE,
                            uid |-> quikFind.uid]
            /\ Transmit(DiscMute(uid), faults)
        BY <3>1 DEF QuickSend
      <4>2. /\ devices' = devices /\ There' = There /\ Honest'
            /\ faults' \in Nat /\ faults' <= faults
            /\ \A d \in Muted' : d \in Muted \/ d = uid
            /\ Received' \in {Received, MuteAck(uid), Collision}
            /\ Received' = MuteAck(uid) \/ faults' < faults
        BY <1>1, <1>2, <4>1, MuteSent
      <4>3. MuteAck(uid).kind = "MUTE_ACK" /\ MuteAck(uid).uid = uid
            /\ Collision.kind # "MUTE_ACK"
        BY DEF MuteAck, Collision
      <4>4. Received'.kind = "MUTE_ACK" => Received'.uid = uid
        BY <1>1, <4>2, <4>3 DEF QuickInv
      <4>5. Received'.kind # "MUTE_ACK" => faults' < MaxFaults
        BY <1>2, <4>2, <4>3
      <4> QED
        BY <1>1, <2>1, <4>1, <4>2, <4>4, <4>5 DEF Present
    <3>2. CASE QuickInvalid
      <4>1. quikFind' = quikFind /\ Receive /\ Received.kind # "MUTE_ACK"
            /\ quikFind.running
        BY <3>2 DEF QuickInvalid, counters
      <4>2. /\ There' = There /\ Honest' /\ Present' /\ Muted' = Muted
            /\ faults' = faults
        BY <1>1, <2>1, <4>1, TakenOff
      <4>3. Received' = NoReply
        <5>1. portIndex \in Ports /\ line \in [Ports -> Replies]
          BY DEF FInv, GInv, IInv, TypeOK, MachineTypeOK, LineTypeOK
        <5> QED
          BY <1>1, <4>1, <5>1 DEF Receive, Received
      <4>4. faults < MaxFaults
        BY <1>1, <4>1 DEF QuickInv
      <4> QED
        BY <1>2, <4>1, <4>2, <4>3, <4>4 DEF NoReply
    <3>3. CASE QuickTimeOut
      <4>1. /\ quikFind' = [quikFind EXCEPT !.counter = @ - 1, !.running = FALSE]
            /\ quikFind.running
        BY <3>3 DEF QuickTimeOut
      <4>2. PICK left \in 0 .. MaxFaults :
                /\ TimeOut(left) /\ faults' = left
                /\ UNCHANGED <<devices, muted, line, replugs>>
        BY <3>3 DEF QuickTimeOut, TimeOutQuietly
      <4>3. /\ left \in Nat
            /\ \/ Received = NoReply /\ left = faults
               \/ Received # NoReply /\ left + 1 = faults
        BY <4>2, LeftBudget DEF FInv
      <4>4. /\ There' = There /\ Honest' /\ Present' /\ Received' = Received
            /\ Muted' = Muted
        BY <1>1, <2>1, <4>2, SameLine DEF QuietLine, Muted, Received
      <4>5. /\ quikFind'.running = FALSE /\ quikFind'.uid = uid
            /\ quikFind'.counter = QUIKFIND_COUNTER - 1
        BY <1>2, <4>1
      <4>6. faults' < MaxFaults
        <5>1. CASE Received = NoReply
          BY <1>1, <4>1, <4>2, <4>3, <5>1 DEF QuickInv, NoReply
        <5>2. CASE Received # NoReply
          BY <1>2, <4>2, <4>3, <5>2
        <5> QED
          BY <5>1, <5>2
      <4>7. Received'.kind = "MUTE_ACK" => Received'.uid = uid
        BY <1>1, <4>4 DEF QuickInv
      <4>8. faults' \in Nat /\ faults' <= faults
        BY <1>2, <4>2, <4>3
      <4> QED
        BY <4>4, <4>5, <4>6, <4>7, <4>8
    <3> QED
      BY <1>5, <3>1, <3>2, <3>3
  <2>4. BranchInHand' /\ Top' = Top
    BY <1>1, <2>1 DEF BranchInHand, Halving, Top
  <2>5. \A d : (Tried(d)' <=> d = uid) /\ (Tried(d) <=> d = uid)
    BY <1>1, <2>1, <2>3 DEF Tried
  <2>6. Covered'
    BY <1>1, <2>1, <2>2, <2>3, <2>4, <2>5, CoveredKept DEF Ahead
  <2>7. AtRest'
    BY <1>1, <1>2, <2>1, <2>3 DEF AtRest
  <2>8. QuickInv'
    BY <1>1, <1>2, <2>1, <2>3 DEF QuickInv
  <2>9. UnMuteInv' /\ MuteInv' /\ DiscoveryInv' /\ SingleInv'
    BY <1>1, <2>1 DEF UnMuteInv, MuteInv, DiscoveryInv, SingleInv
  <2> QED
    BY <2>2, <2>3, <2>6, <2>7, <2>8, <2>9 DEF HuntInv, Commands
<1> QED
  BY <1>3, <1>4, <1>5

-----------------------------------------------------------------------------
(* States QUICKFIND_DISCOVERY, LATE_RESPONSE and FINISHED.                  *)

(* When nobody unmuted is left in the branch in hand, it is done with. *)
LEMMA BranchDone ==
    ASSUME FInv, BranchInHand, Answerers = {}, \A d : ~Tried(d),
           Resumed \notin {"IDLE", "UNMUTE"},
           NEW d \in There, Ahead(d), d \notin Listed
    PROVE  stack # << >> /\ d <= Top.upper
<1>1. d \notin Muted /\ d <= branch.upper
  BY DEF FInv, CInv, HuntInv, Covered, Ahead
<1>2. ~(branch.lower <= d)
  BY <1>1, Answers
<1> QED
  BY <1>1, <1>2, Behind

LEMMA QuickDiscoveryHunt ==
    ASSUME FInv, FewFaults,
           \/ QuickDiscoveryGiveUp \/ QuickDiscoverySend
           \/ QuickDiscoveryFound \/ QuickDiscoveryCollision
           \/ QuickDiscoveryTimeOut
    PROVE  HuntInv' /\ Listed' = Listed
<1> DEFINE qfd == quikFindDiscovery
<1>1. /\ state = "QUICKFIND_DISCOVERY" /\ Resumed = "QUICKFIND_DISCOVERY"
      /\ BranchInHand
      /\ AtRest /\ QuickInv /\ Covered /\ Present
      /\ UNCHANGED <<unMute, mute, discovery, single, stack, branch, tod>>
      /\ portIndex' = portIndex
  BY DEF QuickDiscoveryGiveUp, QuickDiscoverySend, QuickDiscoveryFound,
         QuickDiscoveryCollision, QuickDiscoveryTimeOut, Resumed, BranchInHand,
         Halving, FInv, CInv, HuntInv, Commands, control
<1>2. /\ faults \in Nat /\ faults <= MaxFaults /\ MaxFaults \in Nat
      /\ qfd \in [counter : Nat, running : BOOLEAN]
      /\ qfd.counter \in Nat /\ qfd.running \in BOOLEAN
      /\ quikFind \in [counter : Nat, running : BOOLEAN, uid : Uid]
      /\ branch.lower \in Uid /\ branch.upper \in Uid
      /\ MaxFaults < QUIKFIND_DISCOVERY_COUNTER
      /\ QUIKFIND_DISCOVERY_COUNTER \in Nat
  BY Facts, CounterTypes, Counters DEF FInv, FewFaults
<1>3. /\ Listed' = Listed
      /\ \A d : ~Tried(d)
      /\ ~discovery.running
      /\ Answerers = {} \/ qfd.counter > faults + One(qfd.running /\ Received = NoReply)
  BY <1>1 DEF Listed, Tried, AtRest, QuickInv, Enough
<1>4. Command(QUIKFIND_DISCOVERY_COUNTER).counter > MaxFaults
      /\ Command(QUIKFIND_DISCOVERY_COUNTER).running = FALSE
  BY <1>2 DEF Command
<1>5. CASE QuickDiscoveryGiveUp
  <2>1. /\ state' = "LATE_RESPONSE" /\ savedState' = "DISCOVERY"
        /\ Resumed' = "DISCOVERY" /\ UNCHANGED <<quikFind, lineVars>>
        /\ qfd.counter = 0 /\ qfd' = Command(QUIKFIND_DISCOVERY_COUNTER)
    BY <1>1, <1>5, Entered DEF QuickDiscoveryGiveUp
  <2>2. /\ There' = There /\ Muted' = Muted /\ faults' = faults
        /\ Honest' /\ Present'
    BY <1>1, <2>1, TakenOff
  <2>3. Answerers = {}
    BY <1>2, <1>3, <2>1 DEF One
  <2>4. ~BranchInHand' /\ Top' = Top
    BY <1>1, <1>3, <2>1 DEF BranchInHand, Halving, Top
  <2>5. \A d \in There : Ahead(d) => Ahead(d)' \/ d \in Listed'
    BY <1>1, <1>3, <2>3, <2>4, BranchDone DEF Ahead
  <2>6. Covered'
    BY <1>1, <1>3, <2>2, <2>5, CoveredKept
  <2>7. AtRest'
    BY <1>1, <1>4, <2>1, <2>2 DEF AtRest
  <2>8. UnMuteInv' /\ MuteInv' /\ DiscoveryInv' /\ SingleInv' /\ QuickInv'
    BY <2>1 DEF UnMuteInv, MuteInv, DiscoveryInv, SingleInv, QuickInv
  <2> QED
    BY <1>3, <2>2, <2>6, <2>7, <2>8 DEF HuntInv, Commands
<1>6. CASE QuickDiscoverySend \/ QuickDiscoveryTimeOut
  <2>1. /\ state' = state /\ savedState' = savedState
        /\ Resumed' = "QUICKFIND_DISCOVERY" /\ quikFind' = quikFind
    BY <1>1, <1>6 DEF QuickDiscoverySend, QuickDiscoveryTimeOut, Resumed
  <2>2. /\ There' = There /\ Muted' = Muted /\ Honest' /\ Present'
        /\ faults' \in Nat /\ faults' <= faults
        /\ \/ Answerers = {}
           \/ Enough(quikFindDiscovery, quikFindDiscovery.running /\ Received = NoReply)'
    <3>1. CASE QuickDiscoverySend
      <4>1. /\ qfd' = [qfd EXCEPT !.running = TRUE] /\ ~qfd.running
            /\ Transmit(DiscUniqueBranch(branch.lower, branch.upper), faults)
        BY <3>1 DEF QuickDiscoverySend
      <4>2. qfd'.running = TRUE /\ qfd'.counter = qfd.counter
        BY <1>2, <4>1
      <4>3. /\ devices' = devices /\ There' = There /\ Honest' /\ Muted' = Muted
            /\ faults' \in Nat /\ faults' <= faults
            /\ Answerers = {} \/ Received' # NoReply \/ faults' < faults
        BY <1>1, <1>2, <4>1, BranchSent DEF Answerers
      <4>4. Answerers = {} \/ qfd.counter > faults
        BY <1>2, <1>3, <4>1 DEF One
      <4>5. \/ Answerers = {}
            \/ Enough(quikFindDiscovery, quikFindDiscovery.running /\ Received = NoReply)'
        BY <1>2, <4>2, <4>3, <4>4 DEF Enough, One
      <4> QED
        BY <1>1, <4>3, <4>5 DEF Present
    <3>2. CASE QuickDiscoveryTimeOut
      <4>1. qfd' = Command(qfd.counter - 1) /\ qfd.running
        BY <3>2 DEF QuickDiscoveryTimeOut
      <4>2. PICK left \in 0 .. MaxFaults :
                /\ TimeOut(left) /\ faults' = left
                /\ UNCHANGED <<devices, muted, line, replugs>>
        BY <3>2 DEF QuickDiscoveryTimeOut, TimeOutQuietly
      <4>3. /\ left \in Nat
            /\ \/ Received = NoReply /\ left = faults
               \/ Received # NoReply /\ left + 1 = faults
        BY <4>2, LeftBudget DEF FInv
      <4>4. /\ There' = There /\ Honest' /\ Present' /\ Muted' = Muted
        BY <1>1, <4>2, SameLine DEF QuietLine, Muted
      <4>5. qfd'.running = FALSE /\ qfd'.counter = qfd.counter - 1
        BY <4>1 DEF Command
      <4>6. Answerers = {} \/ qfd.counter > left + 1
        BY <1>2, <1>3, <4>1, <4>3 DEF One
      <4>7. \/ Answerers = {}
            \/ Enough(quikFindDiscovery, quikFindDiscovery.running /\ Received = NoReply)'
        BY <1>2, <4>2, <4>3, <4>5, <4>6 DEF Enough, One
      <4>8. faults' \in Nat /\ faults' <= faults
        BY <1>2, <4>2, <4>3
      <4> QED
        BY <4>4, <4>7, <4>8
    <3> QED
      BY <1>6, <3>1, <3>2
  <2>3. Answerers' = Answerers
    BY <1>1, <2>2, AnswerersSame
  <2>4. BranchInHand'
    BY <1>1, <2>1 DEF BranchInHand, Halving
  <2>5. Covered'
    BY <1>1, <1>3, <2>2, <2>4, CoveredKept DEF Ahead
  <2>6. AtRest'
    BY <1>1, <1>2, <2>1, <2>2 DEF AtRest
  <2>7. QuickInv'
    BY <1>1, <2>1, <2>2, <2>3 DEF QuickInv
  <2>8. UnMuteInv' /\ MuteInv' /\ DiscoveryInv' /\ SingleInv'
    BY <1>1, <2>1 DEF UnMuteInv, MuteInv, DiscoveryInv, SingleInv
  <2> QED
    BY <1>3, <2>2, <2>5, <2>6, <2>7, <2>8 DEF HuntInv, Commands
<1>7. CASE QuickDiscoveryFound
  <2>1. /\ state' = "LATE_RESPONSE" /\ savedState' = "QUICKFIND"
        /\ Resumed' = "QUICKFIND" /\ Receive /\ Received.kind = "DUB"
        /\ quikFind' = [quikFind EXCEPT !.uid = Received.uid]
        /\ qfd' = Command(QUIKFIND_DISCOVERY_COUNTER)
    BY <1>1, <1>7, Entered DEF QuickDiscoveryFound, IsValidDiscoveryResponse
  <2>2. /\ There' = There /\ Muted' = Muted /\ faults' = faults
        /\ Honest' /\ Present'
    BY <1>1, <2>1, TakenOff
  <2>3. /\ quikFind'.uid = Received.uid /\ quikFind'.running = quikFind.running
        /\ quikFind'.counter = quikFind.counter
    BY <1>2, <2>1
  <2>4. Received.uid \in There
    BY <2>1, ReceivedHonest
  <2>5. BranchInHand'
    BY <2>1 DEF BranchInHand, Halving
  <2>6. Covered'
    BY <1>1, <1>3, <2>2, <2>5, CoveredKept DEF Ahead
  <2>7. AtRest'
    BY <1>1, <1>4, <2>1, <2>2, <2>3 DEF AtRest
  <2>8. QuickInv'
    BY <2>1, <2>2, <2>3, <2>4 DEF QuickInv
  <2>9. UnMuteInv' /\ MuteInv' /\ DiscoveryInv' /\ SingleInv'
    BY <2>1 DEF UnMuteInv, MuteInv, DiscoveryInv, SingleInv
  <2> QED
    BY <1>3, <2>2, <2>6, <2>7, <2>8, <2>9 DEF HuntInv, Commands
<1>8. CASE QuickDiscoveryCollision
  <2>1. /\ state' = "DUB" /\ Resumed' = "DUB" /\ Receive
        /\ Received.kind # "DUB" /\ response' = Received
        /\ qfd' = Command(QUIKFIND_DISCOVERY_COUNTER) /\ quikFind' = quikFind
    BY <1>1, <1>8, Entered DEF QuickDiscoveryCollision, IsValidDiscoveryResponse
  <2>2. /\ There' = There /\ Muted' = Muted /\ faults' = faults
        /\ Honest' /\ Present'
    BY <1>1, <2>1, TakenOff
  <2>3. BranchInHand'
    BY <2>1 DEF BranchInHand, Halving
  <2>4. Covered'
    BY <1>1, <1>3, <2>2, <2>3, CoveredKept DEF Ahead
  <2>5. AtRest'
    BY <1>1, <1>4, <2>1, <2>2 DEF AtRest
  <2>6. DiscoveryInv'
    BY <2>1 DEF DiscoveryInv, Receive
  <2>7. UnMuteInv' /\ MuteInv' /\ SingleInv' /\ QuickInv'
    BY <2>1 DEF UnMuteInv, MuteInv, SingleInv, QuickInv
  <2> QED
    BY <1>3, <2>2, <2>4, <2>5, <2>6, <2>7 DEF HuntInv, Commands
<1> QED
  BY <1>5, <1>6, <1>7, <1>8

LEMMA LateHunt ==
    ASSUME FInv, FewFaults, LateResponse
    PROVE  HuntInv' /\ Listed' = Listed
<1>1. /\ state = "LATE_RESPONSE"
      /\ savedState \in {"DISCOVERY", "DISCOVERY_SINGLE_DEVICE", "QUICKFIND", "FINISHED"}
      /\ Resumed = savedState
      /\ AtRest /\ QuickInv /\ Covered
      /\ UNCHANGED <<unMute, mute, discovery, single, quikFind, quikFindDiscovery,
                     stack, branch, tod, muted, faults, savedState>>
      /\ portIndex' = portIndex /\ QuietLine
      /\ line' = [line EXCEPT ![portIndex] = NoReply]
      /\ state' = savedState \/ state' = state
  BY DEF LateResponse, Resumed, FInv, CInv, HuntInv, Commands, control, counters,
         AtRest, QuietLine
<1>2. Resumed' = Resumed /\ Muted' = Muted
  BY <1>1 DEF Resumed, Muted
<1>3. /\ There' = There /\ Listed' = Listed /\ Honest' /\ Present'
  BY <1>1, SameLine
<1>4. Received' = NoReply
  <2>1. portIndex \in Ports /\ line \in [Ports -> Replies]
    BY DEF FInv, GInv, IInv, TypeOK, MachineTypeOK, LineTypeOK
  <2> QED
    BY <1>1, <2>1 DEF Received
<1>5. BranchInHand' = BranchInHand /\ Top' = Top
  BY <1>1, <1>2 DEF BranchInHand, Halving, Top
<1>6. Covered'
  BY <1>1, <1>2, <1>3, <1>5, CoveredKept DEF Ahead, Tried
<1>7. AtRest'
  BY <1>1, <1>2 DEF AtRest
<1>8. SingleInv'
  <2>1. /\ single.counter > MaxFaults /\ single.running = FALSE
        /\ single.counter \in Nat /\ faults \in Nat /\ faults <= MaxFaults
        /\ MaxFaults \in Nat
    BY <1>1, CounterTypes, Facts DEF AtRest, FInv
  <2> QED
    BY <1>1, <2>1 DEF SingleInv, Enough, One
<1>9. QuickInv'
  BY <1>1, <1>2, <1>3, <1>4 DEF QuickInv, AtRest, NoReply
<1>10. UnMuteInv' /\ MuteInv' /\ DiscoveryInv'
  BY <1>1 DEF UnMuteInv, MuteInv, DiscoveryInv, AtRest
<1> QED
  BY <1>3, <1>6, <1>7, <1>8, <1>9, <1>10 DEF HuntInv, Commands

LEMMA FinishedHunt ==
    ASSUME FInv, FewFaults, Finished
    PROVE  HuntInv' /\ Listed' = Listed /\ Ended'
<1>1. /\ state = "FINISHED" /\ Resumed = "FINISHED"
      /\ AtRest /\ Covered
      /\ UNCHANGED <<unMute, mute, discovery, single, quikFind, quikFindDiscovery,
                     stack, branch, tod, lineVars>>
      /\ portIndex' = portIndex
      /\ state' = "IDLE" /\ Resumed' = "IDLE"
  BY Entered
  DEF Finished, Resumed, FInv, CInv, HuntInv, Commands, counters
<1>2. /\ There' = There /\ Muted' = Muted /\ faults' = faults
      /\ Listed' = Listed /\ Honest' /\ Present'
  BY <1>1, TakenOff
<1>3. stack = << >> /\ There \subseteq Listed
  BY <1>1 DEF AtRest, Covered, Ahead, BranchInHand, Halving
<1>4. Ended'
  BY <1>1, <1>2, <1>3 DEF Ended
<1>5. Covered'
  BY <1>1 DEF Covered
<1>6. AtRest'
  BY <1>1, <1>2 DEF AtRest
<1>7. UnMuteInv' /\ MuteInv' /\ DiscoveryInv' /\ SingleInv' /\ QuickInv'
  BY <1>1 DEF UnMuteInv, MuteInv, DiscoveryInv, SingleInv, QuickInv
<1> QED
  BY <1>2, <1>4, <1>5, <1>6, <1>7 DEF HuntInv, Commands

-----------------------------------------------------------------------------
(* The whole machine.                                                       *)

(* The start of a discovery on an idle machine. *)
LEMMA StartHunt ==
    ASSUME FInv, FewFaults, StartWhenIdle
    PROVE  HuntInv' /\ ~isFinished'
<1>1. PICK p \in Ports :
          /\ state = "IDLE"
          /\ \/ Start(p, FALSE, mute.todEntries) /\ tod' = [tod EXCEPT ![p] = EmptyTod]
             \/ Start(p, TRUE, Len(tod[p])) /\ tod' = tod
  BY DEF StartWhenIdle, Full, Incremental
<1>2. /\ AtRest /\ Honest /\ Present
      /\ tod \in [Ports -> Seq(Uid)] /\ devices \in [Ports -> SUBSET Uid]
      /\ faults \in Nat /\ faults <= MaxFaults /\ MaxFaults \in Nat
      /\ MaxFaults < UNMUTE_COUNTER /\ MaxFaults < MUTE_COUNTER
      /\ MaxFaults < QUIKFIND_DISCOVERY_COUNTER
      /\ UNMUTE_COUNTER \in Nat /\ MUTE_COUNTER \in Nat
      /\ QUIKFIND_DISCOVERY_COUNTER \in Nat
  BY Facts, Counters
  DEF FInv, GInv, IInv, TypeOK, MachineTypeOK, LineTypeOK, CInv, HuntInv, Commands,
      FewFaults
<1>3. \A counter : Command(counter).counter = counter /\ Command(counter).running = FALSE
  BY DEF Command
<1>4. /\ portIndex' = p /\ isFinished' = FALSE /\ UNCHANGED lineVars
      /\ unMute' = Command(UNMUTE_COUNTER)
      /\ mute'.counter = MUTE_COUNTER /\ mute'.running = FALSE
      /\ stack' = << [lower |-> FirstUid, upper |-> LastUid] >>
      /\ discovery' = Command(DISCOVERY_COUNTER) /\ single' = Command(MUTE_COUNTER)
      /\ quikFind'.counter = QUIKFIND_COUNTER /\ quikFind'.running = FALSE
      /\ quikFindDiscovery' = Command(QUIKFIND_DISCOVERY_COUNTER)
      /\ state' = "UNMUTE" /\ Resumed' = "UNMUTE"
  BY <1>1 DEF Start, NewState, Resumed
<1>5. doIncremental' => tod' = tod /\ mute'.todEntries = Len(tod[p])
  BY <1>1 DEF Start
<1>6. Honest'
  BY <1>2, <1>4 DEF Honest, lineVars
<1>7. Present'
  <2>1. TodUids(EmptyTod) = {}
    BY DEF TodUids, EmptyTod
  <2>2. \A q \in Ports : tod'[q] \in {tod[q], EmptyTod}
    BY <1>1, <1>2
  <2> QED
    BY <1>2, <1>4, <2>1, <2>2 DEF Present, lineVars
<1>8. Covered'
  BY <1>4 DEF Covered
<1>9. AtRest'
  BY <1>2, <1>3, <1>4 DEF AtRest
<1>10. UnMuteInv'
  <2>1. stack' # << >> /\ Top'.upper = LastUid
    BY <1>4 DEF Top
  <2>2. Enough(unMute, unMute.running)'
    BY <1>2, <1>3, <1>4 DEF Enough, One, lineVars
  <2>3. doIncremental' => /\ mute'.counter > MaxFaults /\ ~mute'.running
                          /\ mute'.todEntries <= Len(tod'[portIndex'])
    <3>1. Len(tod[p]) \in Nat
      BY <1>2
    <3> QED
      BY <1>2, <1>4, <1>5, <3>1
  <2> QED
    BY <2>1, <2>2, <2>3 DEF UnMuteInv
<1>11. MuteInv' /\ DiscoveryInv' /\ SingleInv' /\ QuickInv'
  BY <1>4 DEF MuteInv, DiscoveryInv, SingleInv, QuickInv
<1> QED
  BY <1>4, <1>6, <1>7, <1>8, <1>9, <1>10, <1>11 DEF HuntInv, Commands

LEMMA ProcessHunt ==
    ASSUME FInv, FewFaults, Process
    PROVE  CInv'
<1>1. HuntInv'
  BY LateHunt, UnMuteHunt, MuteHunt, DiscoveryHunt, SingleHunt, DubHunt, QuickHunt,
     QuickDiscoveryHunt, FinishedHunt DEF Process
<1>2. Ended'
  <2>1. CASE Finished
    BY <2>1, FinishedHunt
  <2>2. CASE ~Finished
    <3>1. state = "LATE_RESPONSE" => savedState # "IDLE"
      BY DEF FInv, CInv, HuntInv, Commands, AtRest
    <3>2. state # "IDLE"
      BY <3>1, ProcessBusy
    <3>3. ~isFinished
      BY <3>2 DEF FInv, CInv, Ended
    <3>4. (state' = "IDLE" /\ isFinished' = TRUE) \/ isFinished' = isFinished
      BY <3>1, ProcessBusy
    <3>5. state' = "IDLE" => Finished
      <4>1. state # "LATE_RESPONSE" \/ savedState # "IDLE"
        BY <3>1
      <4> QED
        BY <3>2, <4>1
        DEF Process, LateResponse, UnMuteDone, UnMuteSend, UnMuteWait, MuteDone,
            MuteGone, MuteSend, MuteAnswer, MuteTimeOut, DiscoveryAnswer,
            DiscoveryTimeOut, DiscoveryFinished, DiscoverySingleUid, DiscoverySend,
            SingleGiveUp, SingleSend, SingleAnswer, SingleTimeOut, DubSilence,
            DubFound, DubSplit, QuickGiveUp, QuickSend, QuickAnswer, QuickInvalid,
            QuickTimeOut, QuickDiscoveryGiveUp, QuickDiscoverySend,
            QuickDiscoveryFound, QuickDiscoveryCollision, QuickDiscoveryTimeOut,
            NewState
    <3> QED
      BY <2>2, <3>3, <3>4, <3>5 DEF Ended
  <2> QED
    BY <2>1, <2>2
<1> QED
  BY <1>1, <1>2 DEF CInv

LEMMA InitHunt ==
    ASSUME FewFaults, Init
    PROVE  FInv
<1>1. /\ state = "IDLE" /\ Resumed = "IDLE" /\ ~isFinished
      /\ quikFind.counter = QUIKFIND_COUNTER /\ quikFind.running = FALSE
  BY DEF Init, Resumed
<1>2. Honest
  BY DEF Init, Honest, NoReply
<1>3. Present
  BY DEF Init, Present, TodUids, EmptyTod
<1>4. AtRest
  <2>1. /\ single.counter > MaxFaults /\ single.running = FALSE
        /\ quikFindDiscovery.counter > MaxFaults /\ quikFindDiscovery.running = FALSE
        /\ discovery.running = FALSE
    <3>1. MaxFaults < MUTE_COUNTER /\ MaxFaults < QUIKFIND_DISCOVERY_COUNTER
      BY DEF FewFaults
    <3>2. MaxFaults \in Nat /\ MUTE_COUNTER \in Nat /\ QUIKFIND_DISCOVERY_COUNTER \in Nat
      BY DiscoveryAssumption
    <3> QED
      BY <3>1, <3>2 DEF Init, Command
  <2> QED
    BY <1>1, <2>1 DEF AtRest
<1>5. /\ Covered /\ Ended
      /\ UnMuteInv /\ MuteInv /\ DiscoveryInv /\ SingleInv /\ QuickInv
  BY <1>1
  DEF Covered, Ended, UnMuteInv, MuteInv, DiscoveryInv, SingleInv, QuickInv
<1> QED
  BY <1>2, <1>3, <1>4, <1>5, InitGInv DEF FInv, CInv, HuntInv, Commands

LEMMA HuntSame ==
    ASSUME FInv, UNCHANGED vars
    PROVE  CInv'
BY DEF vars, control, counters, lineVars, FInv, CInv, HuntInv, Ended, Honest, Present,
       Commands, Covered, AtRest, UnMuteInv, MuteInv, DiscoveryInv, SingleInv,
       QuickInv, There, Muted, Listed, Answerers, Received, Resumed, Halving,
       BranchInHand, Ahead, Tried, Top, Enough

(* No responder comes or goes. *)
LEMMA NobodyComes ==
    ASSUME FInv, FewFaults
    PROVE  ~Environment
<1>1. replugs \in 0 .. MaxReplugs /\ MaxReplugs = 0
  BY DEF FInv, GInv, IInv, TypeOK, LineTypeOK, FewFaults
<1> QED
  BY <1>1 DEF Environment, Unplug, Plug

LEMMA NextHunt ==
    ASSUME FInv, FewFaults, [Process \/ StartWhenIdle \/ Environment]_vars
    PROVE  FInv'
<1>1. GInv'
  <2>1. [Next]_vars
    BY DEF StartWhenIdle, Next, Calls
  <2> QED
    BY <2>1, NextGInv DEF FInv
<1>2. CASE StartWhenIdle
  BY <1>1, <1>2, StartHunt DEF FInv, CInv, Ended
<1> QED
  BY <1>1, <1>2, ProcessHunt, HuntSame, NobodyComes DEF FInv

LEMMA HuntInvariance == ASSUME FewFaults PROVE StartsSpec => []FInv
<1>1. Init => FInv
  BY InitHunt
<1>2. FInv /\ [Process \/ StartWhenIdle \/ Environment]_vars => FInv'
  BY NextHunt
<1> QED
  BY <1>1, <1>2, PTL DEF StartsSpec

(* Whatever the number of ports and responders, the retries and the UIDs   *)
(* in use: when fewer messages are lost, late or disturbed than every      *)
(* command has retries, a discovery that reports that it is finished has   *)
(* searched all branches and has every responder in the table.             *)
THEOREM EveryoneIsFound == ASSUME FewFaults PROVE StartsSpec => []FinishedComplete
<1>1. FInv => FinishedComplete
  BY DEF FInv, CInv, Ended, FinishedComplete, There, Listed
<1> QED
  BY <1>1, HuntInvariance, PTL

(* Under the same hypotheses the muting at the start of an incremental     *)
(* discovery never takes a responder of the line out of the table.         *)
THEOREM RespondersStay == ASSUME FewFaults PROVE StartsSpec => PresentStay
<1> DEFINE Stays == state = "MUTE" =>
                        \A p \in Ports : \A d \in devices[p] \cap TodUids(tod[p]) :
                            d \in TodUids(tod'[p])
<1>1. ASSUME FInv, [Process \/ StartWhenIdle \/ Environment]_vars
      PROVE  [Stays]_vars
  <2> SUFFICES ASSUME state = "MUTE",
                      Process,
                      NEW p \in Ports, NEW d \in TodUids(tod[p])
               PROVE  d \in TodUids(tod'[p])
    BY <1>1, NobodyComes DEF StartWhenIdle
  <2>1. MuteDone \/ MuteGone \/ MuteSend \/ MuteAnswer \/ MuteTimeOut
    BY DEF Process, LateResponse, UnMuteDone, UnMuteSend, UnMuteWait, DiscoveryAnswer,
           DiscoveryTimeOut, DiscoveryFinished, DiscoverySingleUid, DiscoverySend,
           SingleGiveUp, SingleSend, SingleAnswer, SingleTimeOut, DubSilence,
           DubFound, DubSplit, QuickGiveUp, QuickSend, QuickAnswer, QuickInvalid,
           QuickTimeOut, QuickDiscoveryGiveUp, QuickDiscoverySend,
           QuickDiscoveryFound, QuickDiscoveryCollision, QuickDiscoveryTimeOut,
           Finished
  <2>2. Listed' = Listed /\ portIndex' = portIndex
    BY <1>1, <2>1, MuteHunt, ProcessBusy
  <2>3. CASE p = portIndex
    BY <2>2, <2>3 DEF Listed
  <2>4. CASE p # portIndex
    <3>1. tod'[p] = tod[p]
      BY <1>1, <2>1, <2>4
      DEF MuteDone, MuteGone, MuteSend, MuteAnswer, MuteTimeOut, FInv, GInv, IInv,
          TypeOK, MachineTypeOK
    <3> QED
      BY <3>1
  <2> QED
    BY <2>3, <2>4
<1> HIDE DEF Stays
<1>2. StartsSpec => [][Stays]_vars
  BY <1>1, HuntInvariance, PTL DEF StartsSpec
<1> QED
  BY <1>2 DEF PresentStay, Stays
=============================================================================
