---------------------------- MODULE ArtNetOutput -----------------------------
(***************************************************************************)
(* The output side of an Art-Net node: ArtDmx from several controllers,    *)
(* merged per port, and ArtSync (lib-artnet/src/node, artnetnode.cpp,      *)
(* artnetnodehandledmx.cpp, artnetnodehandlesync.cpp and the commands of   *)
(* artnetnodehandleaddress.cpp that touch an output).                      *)
(*                                                                         *)
(* ArtNetNode::Process runs to completion for each packet, so one packet   *)
(* is one step.  Time passes in ticks between packets.  The code stores    *)
(* the time of a packet and compares with now, the model stores the age    *)
(* and lets it grow up to the first value at which the comparison holds.   *)
(***************************************************************************)
EXTENDS LightSetData, FiniteSets

CONSTANTS
    MAX_PORTS,              \* output ports 0 .. MAX_PORTS - 1
    PortAddress,            \* the Port-Address of each port
    Controllers,            \* IP addresses that send ArtDmx and ArtSync
    NoIp,                   \* the address 0
    Physicals,              \* values of the Physical field of an ArtDmx
    NoPhysical,             \* 0x100: nPhysical before the first packet
    Frames,                 \* the frames that controllers send
    Commands,               \* the ArtAddress commands that are sent
    DisableMergeTimeout,    \* m_State.bDisableMergeTimeout
    FailSafe,               \* Status3 network loss: "LAST_STATE", "OFF_STATE" or "ON_STATE"
    MERGE_TIMEOUT,          \* 10 s, in ticks
    NETWORK_DATA_LOSS_TIMEOUT,  \* 10 s
    SYNC_TIMEOUT,           \* 4 s
    MaxSilence              \* bound on the ticks without any packet

Ports == 0 .. (MAX_PORTS - 1)

ASSUME OutputAssumption ==
    /\ MAX_PORTS \in Nat \ {0}
    /\ NoIp \notin Controllers
    /\ NoPhysical \notin Physicals
    /\ Frames \subseteq Frame
    /\ Commands \subseteq {"CANCEL", "MERGE_LTP", "MERGE_HTP", "CLR"}
    /\ DisableMergeTimeout \in BOOLEAN
    /\ FailSafe \in {"LAST_STATE", "OFF_STATE", "ON_STATE"}
    /\ MERGE_TIMEOUT \in Nat
    /\ NETWORK_DATA_LOSS_TIMEOUT \in Nat \ {0}
    /\ SYNC_TIMEOUT \in Nat \ {0}
    /\ MaxSilence \in Nat

VARIABLES
    port,                   \* m_OutputPort: sources and GoodOutput of each port
    data,                   \* lightset::Data of each port
    dmx,                    \* the driver's state of each port
    isMergeMode,            \* m_State.IsMergeMode
    isSynchronousMode,      \* m_State.IsSynchronousMode
    artDmxIp,               \* m_State.ArtDmxIpAddress
    syncAge,                \* time since m_State.ArtSyncMillis
    packetAge               \* time since m_nPreviousPacketMillis

vars == <<port, data, dmx, isMergeMode, isSynchronousMode, artDmxIp, syncAge, packetAge>>

-----------------------------------------------------------------------------
(* Types.                                                                  *)

Source == [ip : Controllers \cup {NoIp}, age : 0 .. MERGE_TIMEOUT + 1,
           physical : Physicals \cup {NoPhysical}]

(* isMerging is GoodOutput::OUTPUT_IS_MERGING, ltp is MERGE_MODE_LTP.      *)
OutputPort == [A : Source, B : Source, isMerging : BOOLEAN, ltp : BOOLEAN,
               isTransmitting : BOOLEAN, isDataPending : BOOLEAN]

TypeOK ==
    /\ port \in [Ports -> OutputPort]
    /\ data \in [Ports -> PortData]
    /\ dmx \in [Ports -> DmxPort]
    /\ isMergeMode \in BOOLEAN
    /\ isSynchronousMode \in BOOLEAN
    /\ artDmxIp \in Controllers \cup {NoIp}
    /\ syncAge \in 0 .. SYNC_TIMEOUT
    /\ packetAge \in 0 .. MaxSilence

NoSource == [ip |-> NoIp, age |-> 0, physical |-> NoPhysical]

Init ==
    /\ port \in [Ports -> [A : {NoSource}, B : {NoSource}, isMerging : {FALSE},
                           ltp : BOOLEAN, isTransmitting : {FALSE},
                           isDataPending : {FALSE}]]
    /\ data = [p \in Ports |-> NoData]
    /\ dmx = [p \in Ports |-> NoDmx]
    /\ isMergeMode = FALSE /\ isSynchronousMode = FALSE
    /\ artDmxIp = NoIp
    /\ syncAge = 0 /\ packetAge = 0

-----------------------------------------------------------------------------
(* One port and one ArtDmx.                                                *)

Live(o) == { x \in Sides : o[x].ip # NoIp }

Stale(source) == source.age > MERGE_TIMEOUT

(* CheckMergeTimeouts for one port: a stale source goes.  The flag goes    *)
(* with it, as it does when the source was not there.                      *)
Expire(source) == IF Stale(source) THEN [source EXCEPT !.ip = NoIp] ELSE source
CheckPort(o) ==
    [o EXCEPT !.A = Expire(@), !.B = Expire(@),
              !.isMerging = @ /\ ~Stale(o.A) /\ ~Stale(o.B)]

Matches(source, ip, physical) == source.ip = ip /\ source.physical = physical

(* Mutant: case 3 does not look at the physical port of source B. *)
IsFrom_AnyPhysical(o, x, ip, physical) ==
    LET own == o[x]  other == o[Other(x)]
    IN  \/ own.ip = NoIp /\ other.ip = NoIp /\ x = "A"
        \/ Matches(own, ip, physical) /\ (x = "A" \/ ~Matches(other, ip, physical))
        \/ own.ip = NoIp /\ other.ip = ip
        \/ own.ip = NoIp /\ other.ip \notin {NoIp, ip}

(* Mutant: the cases 6 and 7 compare the physical port only. *)
IsFrom_AnyAddress(o, x, ip, physical) ==
    LET own == o[x]  other == o[Other(x)]
    IN  \/ own.ip = NoIp /\ other.ip = NoIp /\ x = "A"
        \/ own.ip # NoIp /\ own.physical = physical
        \/ own.ip = NoIp /\ other.ip # NoIp

(* The packet is from source x: the cases 1 to 8 of HandleDmx.  A source   *)
(* that is free may be taken by a new address (cases 1, 4 and 5), or by    *)
(* another physical port of the address of the other source (2 and 3).     *)
(* That the free source's nPhysical must differ as well is what the code   *)
(* says, although it is left over from a source that is gone.              *)
IsFrom(o, x, ip, physical) ==
    LET own == o[x]  other == o[Other(x)]
    IN  \/ own.ip = NoIp /\ other.ip = NoIp /\ x = "A"
        \/ Matches(own, ip, physical) /\ (x = "A" \/ ~Matches(other, ip, physical))
        \/ own.ip = NoIp /\ other.ip = ip /\ physical \notin {own.physical, other.physical}
        \/ own.ip = NoIp /\ other.ip \notin {NoIp, ip}

Discarded(o, ip, physical) == \A x \in Sides : ~IsFrom(o, x, ip, physical)

(* With the other source alive the packet is merged, in the port's manner, *)
(* and UpdateMergeStatus raises the flag.                                  *)
Received(o, x, ip, physical) ==
    [o EXCEPT ![x] = [ip |-> ip, age |-> 0, physical |-> physical],
              !.isMerging = @ \/ o[Other(x)].ip # NoIp]

(* Mutant: a source that goes on is not merged with the other one. *)
Merged_First(d, o, x, frame) ==
    IF o[x].ip = NoIp /\ o[Other(x)].ip # NoIp
    THEN Merge(d, x, frame, o.ltp) ELSE SetSource(d, x, frame)

Merged(d, o, x, frame) ==
    IF o[Other(x)].ip # NoIp THEN Merge(d, x, frame, o.ltp) ELSE SetSource(d, x, frame)

-----------------------------------------------------------------------------
(* HandleDmx: a loop over the ports.  The state of the loop is a record    *)
(* with the variables it changes, and with returned for the return with    *)
(* which a discarded packet leaves the loop.                               *)

LoopStart == [port |-> port, data |-> data, dmx |-> dmx,
              isMergeMode |-> isMergeMode, returned |-> FALSE]

(* Mutant: the node leaves merge mode when this port does. *)
CheckMergeTimeouts_OnePort(s, p) ==
    LET checked == [s.port EXCEPT ![p] = CheckPort(@)]
    IN  IF s.isMergeMode /\ ~DisableMergeTimeout
        THEN [s EXCEPT !.port = checked, !.isMergeMode = checked[p].isMerging]
        ELSE s

CheckMergeTimeouts(s, p) ==
    LET checked == [s.port EXCEPT ![p] = CheckPort(@)]
    IN  IF s.isMergeMode /\ ~DisableMergeTimeout
        THEN [s EXCEPT !.port = checked,
                       !.isMergeMode = \E q \in Ports : checked[q].isMerging]
        ELSE s

(* Mutant: an ArtDmx is sent at once in synchronous mode as well. *)
Output_AtOnce(s, p) ==
    [s EXCEPT !.dmx[p] = Started(SetData(@, s.data[p], TRUE)),
              !.port[p].isTransmitting = TRUE]

(* The frame goes to the line, or waits for the next ArtSync. *)
Output(s, p) ==
    IF isSynchronousMode' /\ ~s.port[p].isMerging
    THEN [s EXCEPT !.port[p].isDataPending = TRUE]
    ELSE [s EXCEPT !.dmx[p] = IF s.port[p].isTransmitting
                              THEN SetData(@, s.data[p], TRUE)
                              ELSE Started(SetData(@, s.data[p], TRUE)),
                   !.port[p].isTransmitting = TRUE]

HandlePort(s, p, ip, physical, frame) ==
    LET c == CheckMergeTimeouts(s, p)
        o == c.port[p]
        x == CHOOSE y \in Sides : IsFrom(o, y, ip, physical)
        new == Received(o, x, ip, physical)
    IN  IF Discarded(o, ip, physical)
        THEN [c EXCEPT !.returned = TRUE]
        ELSE Output([c EXCEPT !.port[p] = new,
                              !.data[p] = Merged(@, o, x, frame),
                              !.isMergeMode = @ \/ o[Other(x)].ip # NoIp], p)

Loop(ip, address, physical, frame) ==
    LET after[n \in 0 .. MAX_PORTS] ==
          IF n = 0 THEN LoopStart
          ELSE IF after[n - 1].returned \/ PortAddress[n - 1] # address
               THEN after[n - 1]
               ELSE HandlePort(after[n - 1], n - 1, ip, physical, frame)
    IN  after[MAX_PORTS]

-----------------------------------------------------------------------------
(* ArtNetNode::Process.                                                    *)

(* What every packet does first: the 4 s without an ArtSync. *)
AnyPacket ==
    /\ packetAge' = 0
    /\ isSynchronousMode' = (isSynchronousMode /\ syncAge < SYNC_TIMEOUT)

HandleDmx(ip, address, physical, frame) ==
    /\ AnyPacket
    /\ LET s == Loop(ip, address, physical, frame)
       IN  /\ port' = s.port /\ data' = s.data /\ dmx' = s.dmx
           /\ isMergeMode' = s.isMergeMode
    /\ artDmxIp' = ip
    /\ UNCHANGED syncAge

(* HandleSync when the node is in synchronous mode already: the driver     *)
(* takes the data of the pending ports, then sends all ports.              *)
SyncedDmx ==
    [p \in Ports |->
        SyncStart(IF port[p].isDataPending THEN SyncPort(dmx[p], data[p]) ELSE dmx[p],
                  data[p])]

(* Mutant: the pending flag stays. *)
SyncedPort_StillPending(o) ==
    IF o.isDataPending THEN [o EXCEPT !.isTransmitting = TRUE] ELSE o

SyncedPort(o) ==
    IF o.isDataPending
    THEN [o EXCEPT !.isDataPending = FALSE, !.isTransmitting = TRUE]
    ELSE o

HandleSync ==
    /\ port' = [p \in Ports |-> SyncedPort(port[p])]
    /\ data' = [p \in Ports |-> SyncClear(data[p])]
    /\ dmx' = SyncedDmx

(* An ArtSync counts only from the sender of the last ArtDmx, and not      *)
(* while the node merges.  The first one only starts synchronous mode.     *)
ArtSync(ip) ==
    /\ packetAge' = 0
    /\ LET inTime == isSynchronousMode /\ syncAge < SYNC_TIMEOUT
       IN  IF artDmxIp = ip /\ ~isMergeMode
           THEN /\ syncAge' = 0
                /\ isSynchronousMode' = TRUE
                /\ IF inTime THEN HandleSync ELSE UNCHANGED <<port, data, dmx>>
           ELSE /\ isSynchronousMode' = inTime
                /\ UNCHANGED <<syncAge, port, data, dmx>>
    /\ UNCHANGED <<isMergeMode, artDmxIp>>

Forget(o) == [o EXCEPT !.A.ip = NoIp, !.B.ip = NoIp]

(* ArtAddress with the command AcCancelMerge. *)
CancelMerge ==
    /\ "CANCEL" \in Commands
    /\ AnyPacket
    /\ isMergeMode' = FALSE
    /\ port' = [p \in Ports |-> [Forget(port[p]) EXCEPT !.isMerging = FALSE]]
    /\ UNCHANGED <<data, dmx, artDmxIp, syncAge>>

(* AcMergeLtp and AcMergeHtp. *)
SetMergeMode(p, ltp) ==
    /\ (IF ltp THEN "MERGE_LTP" ELSE "MERGE_HTP") \in Commands
    /\ AnyPacket
    /\ port' = [port EXCEPT ![p].ltp = ltp]
    /\ UNCHANGED <<data, dmx, isMergeMode, artDmxIp, syncAge>>

(* AcClear. *)
ClearOutput(p) ==
    /\ "CLR" \in Commands
    /\ AnyPacket
    /\ data' = [data EXCEPT ![p] = Clear(@)]
    /\ dmx' = [dmx EXCEPT ![p] = SetData(@, data'[p], TRUE)]
    /\ UNCHANGED <<port, isMergeMode, artDmxIp, syncAge>>

(* ArtPoll and every other packet that leaves the outputs alone. *)
OtherPacket ==
    /\ AnyPacket
    /\ UNCHANGED <<port, data, dmx, isMergeMode, artDmxIp, syncAge>>

FailSafeDmx(m) ==
    CASE FailSafe = "LAST_STATE" -> m
      [] FailSafe = "OFF_STATE" -> FillLine(m, 0)
      [] FailSafe = "ON_STATE" -> FillLine(m, LEVELS)

(* Process without a packet, after the time-out.  The sources are          *)
(* forgotten, GoodOutput and IsDataPending are not touched.  The code adds *)
(* up the addresses to see whether there is a source.                      *)
SetNetworkDataLossCondition ==
    /\ packetAge >= NETWORK_DATA_LOSS_TIMEOUT
    /\ isMergeMode' = FALSE
    /\ isSynchronousMode' = FALSE
    /\ IF \E p \in Ports : Live(port[p]) # {}
       THEN /\ port' = [p \in Ports |-> Forget(port[p])]
            /\ data' = [p \in Ports |-> ClearLength(data[p])]
            /\ dmx' = [p \in Ports |-> FailSafeDmx(dmx[p])]
       ELSE UNCHANGED <<port, data, dmx>>
    /\ UNCHANGED <<artDmxIp, syncAge, packetAge>>

Older(age, limit) == IF age < limit THEN age + 1 ELSE age

(* Time passes. *)
Tick ==
    /\ packetAge < MaxSilence
    /\ packetAge' = packetAge + 1
    /\ syncAge' = Older(syncAge, SYNC_TIMEOUT)
    /\ port' = [p \in Ports |->
                    [port[p] EXCEPT !.A.age = Older(@, MERGE_TIMEOUT + 1),
                                    !.B.age = Older(@, MERGE_TIMEOUT + 1)]]
    /\ UNCHANGED <<data, dmx, isMergeMode, isSynchronousMode, artDmxIp>>

ArtDmx ==
    \E ip \in Controllers, p \in Ports, physical \in Physicals, frame \in Frames :
        HandleDmx(ip, PortAddress[p], physical, frame)

ArtAddress ==
    \/ CancelMerge
    \/ \E p \in Ports : ClearOutput(p) \/ \E ltp \in BOOLEAN : SetMergeMode(p, ltp)

Next ==
    \/ ArtDmx
    \/ \E ip \in Controllers : ArtSync(ip)
    \/ ArtAddress
    \/ OtherPacket
    \/ SetNetworkDataLossCondition
    \/ Tick

Spec == Init /\ [][Next]_vars

-----------------------------------------------------------------------------
(* Safety.                                                                 *)

(* While a port has two live sources it says so and the node is in merge   *)
(* mode, whatever another port's time-out does to the mode they share: no  *)
(* ArtSync gets through to a merging port (artnetnode.cpp:534, the test at *)
(* line 537 and CheckMergeTimeouts).                                       *)
MergingPortKnown ==
    \A p \in Ports : Live(port[p]) = Sides => port[p].isMerging /\ isMergeMode

(* The two sources of a port are two streams: one stream never fills both  *)
(* places, where it would be merged with its own older frame (the cases 2, *)
(* 3 and 8 of HandleDmx).                                                  *)
TwoStreams ==
    \A p \in Ports :
        Live(port[p]) = Sides
            => ~Matches(port[p].A, port[p].B.ip, port[p].B.physical)

(* A port that merges two sources in HTP mode has the higher level of both *)
(* ready in every slot that it sends, with packets of whatever lengths, a  *)
(* source that left, and one that came back (lightsetdata.h:99-137).       *)
HtpIsHighest ==
    \A p \in Ports :
        Live(port[p]) = Sides /\ ~port[p].ltp
            => \A i \in 1 .. data[p].length :
                   data[p].out[i] = Higher(data[p].A[i], data[p].B[i])

-----------------------------------------------------------------------------
(* What a step may never do.                                               *)

(* A source keeps its place until it is silent for the merge time-out:     *)
(* a third controller takes no place, and no packet moves a source.  Only  *)
(* AcCancelMerge and the data loss clear the places, and then all of them. *)
KeepsPlace ==
    \A p \in Ports, x \in Sides :
        port'[p][x].ip # port[p][x].ip
            => \/ port[p][x].ip = NoIp
               \/ Stale(port[p][x])
               \/ \A q \in Ports : Live(port'[q]) = {}
NoEviction == [][KeepsPlace]_vars

(* The frame that waits for an ArtSync is there when the ArtSync comes:    *)
(* a port comes to be pending without data in two ways only, by the loss   *)
(* of the network data, which clears the lengths but not IsDataPending     *)
(* (artnetnode.cpp:416-420), and by an ArtDmx without slots.  In both the  *)
(* driver's Sync(nPortIndex) finds a length of 0 (dmxsend.h:108).          *)
EmptyDmx ==
    \E ip \in Controllers, p \in Ports, physical \in Physicals :
        HandleDmx(ip, PortAddress[p], physical, << >>)

Unfilled(o, d) == o.isDataPending /\ d.length = 0

KeepsPending ==
    \A p \in Ports :
        Unfilled(port'[p], data'[p])
            => \/ Unfilled(port[p], data[p])
               \/ SetNetworkDataLossCondition
               \/ EmptyDmx
PendingHasData == [][KeepsPending]_vars

(* In synchronous mode what a port with one source sends changes only when *)
(* an ArtSync releases the frame that waits, or on AcClear (the comment on *)
(* HandleSync, artnetnodehandlesync.cpp:36).                               *)
WaitsForSync ==
    isSynchronousMode /\ isSynchronousMode'
        => \A p \in Ports :
               Live(port'[p]) # Sides /\ dmx'[p].sent # dmx[p].sent
                   => \/ port[p].isDataPending /\ ~port'[p].isDataPending
                      \/ ClearOutput(p)
BufferedUntilSync == [][WaitsForSync]_vars
=============================================================================
