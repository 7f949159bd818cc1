----------------------------- MODULE E131Bridge ------------------------------
(***************************************************************************)
(* The output side of the sACN bridge, lib-e131/src/node: data packets of  *)
(* several sources, merged per port, their priority, sequence numbers and  *)
(* options, and the synchronization packets (e131bridge.cpp,               *)
(* e131bridgehandlesynchronization.cpp, and Run of e131bridge.h).          *)
(*                                                                         *)
(* One packet is handled to the end in one step of the super-loop.  A      *)
(* source is known by its address and its CID; a Sender stands for both.   *)
(* A time is kept as an age that grows up to the first value at which the  *)
(* code's comparison holds.                                                *)
(***************************************************************************)
EXTENDS LightSetData, FiniteSets

CONSTANTS
    MAX_PORTS,              \* output ports 0 .. MAX_PORTS - 1
    PortUniverse,           \* the universe of each port
    Senders,                \* sources of data: an address and a CID
    None,                   \* no source: the address 0
    Packets,                \* the data packets that are sent
    Cleared,                \* the ports that Art-Net 4 clears
    SEQUENCE,               \* the number of sequence numbers: 256
    WINDOW,                 \* 20: how far back a number is out of sequence
    SyncAddresses,          \* the synchronization addresses that are sent
    Ltp,                    \* the merge mode of the ports
    DisableMergeTimeout,    \* m_State.bDisableMergeTimeout
    FailSafe,               \* "HOLD", "OFF" or "ON"
    MERGE_TIMEOUT,          \* 10 s, in ticks
    PRIORITY_TIMEOUT,       \* 10 s
    DATA_LOSS_TIMEOUT       \* 2.5 s

LOWEST == 1                 \* e131::priority::LOWEST
Ports == 0 .. (MAX_PORTS - 1)

Packet ==
    [from : Senders, universe : Nat, seq : 0 .. (SEQUENCE - 1), priority : Nat,
     kind : {"data", "preview", "terminated"}, force : BOOLEAN, sync : Nat, frame : Frame]

Priorities == { pkt.priority : pkt \in Packets }

ASSUME BridgeAssumption ==
    /\ MAX_PORTS \in Nat \ {0}
    /\ None \notin Senders
    /\ Packets \subseteq Packet
    /\ Cleared \subseteq Ports
    /\ SEQUENCE \in Nat /\ WINDOW \in 1 .. SEQUENCE \div 2
    /\ SyncAddresses \subseteq Nat
    /\ Ltp \in BOOLEAN /\ DisableMergeTimeout \in BOOLEAN
    /\ FailSafe \in {"HOLD", "OFF", "ON"}
    /\ MERGE_TIMEOUT \in Nat /\ PRIORITY_TIMEOUT \in Nat
    /\ DATA_LOSS_TIMEOUT \in Nat \ {0}

VARIABLES
    port,       \* m_OutputPort
    data,       \* lightset::Data of each port
    dmx,        \* the driver's state of each port
    st,         \* m_State
    syncAge,    \* time since m_State.SynchronizationTime
    packetAge   \* time since m_nPreviousPacketMillis

vars == <<port, data, dmx, st, syncAge, packetAge>>

OldAge == (IF MERGE_TIMEOUT > PRIORITY_TIMEOUT THEN MERGE_TIMEOUT ELSE PRIORITY_TIMEOUT) + 1

Free == [sender |-> None, age |-> OldAge, seq |-> 0]

Init ==
    /\ port = [p \in Ports |-> [A |-> Free, B |-> Free, isMerging |-> FALSE,
                                isTransmitting |-> FALSE, isDataPending |-> FALSE]]
    /\ data = [p \in Ports |-> NoData]
    /\ dmx = [p \in Ports |-> NoDmx]
    /\ st = [priority |-> LOWEST, isMergeMode |-> FALSE, isNetworkDataLoss |-> FALSE,
             isSynchronized |-> FALSE, isForcedSynchronized |-> FALSE,
             syncA |-> 0, syncB |-> 0]
    /\ syncAge = DATA_LOSS_TIMEOUT /\ packetAge = 0

-----------------------------------------------------------------------------
(* The sources of one port. *)

(* The address becomes 0; the number counts only with an address. *)
Drop(source) == [source EXCEPT !.sender = None, !.seq = 0]

Live(o) == { x \in Sides : o[x].sender # None }
Stale(source) == source.age > MERGE_TIMEOUT

CheckPort(o) ==
    [o EXCEPT !.A = IF Stale(@) THEN Drop(@) ELSE @,
              !.B = IF Stale(@) THEN Drop(@) ELSE @,
              !.isMerging = @ /\ ~Stale(o.A) /\ ~Stale(o.B)]

(* IsPriorityTimeOut: never, on a port without a source. *)
PriorityTimeOut(o) ==
    \/ Live(o) = Sides /\ \A x \in Sides : o[x].age >= PRIORITY_TIMEOUT
    \/ \E x \in Sides : Live(o) = {x} /\ o[x].age > PRIORITY_TIMEOUT

(* static_cast<int8_t>(number - last): 0 or a little below. *)
OutOfSequence(number, last) == (last - number) % SEQUENCE < WINDOW

Matched(o, from) == { x \in Sides : o[x].sender = from }

(* Mutant: a free place A is taken before the source's own place is looked *)
(* for.                                                                    *)
Place_FirstFree(o, from) ==
    IF o.A.sender = None THEN {"A"}
    ELSE IF Matched(o, from) # {} THEN Matched(o, from)
    ELSE IF o.B.sender = None THEN {"B"} ELSE {}

(* Mutant: a third source takes the second place. *)
Place_Third(o, from) ==
    IF Matched(o, from) # {} THEN Matched(o, from)
    ELSE IF o.A.sender = None THEN {"A"} ELSE {"B"}

(* The cases 1 to 7 of HandleDmx.  A known source stays in its place, a    *)
(* new one takes A, or B when A is not free.                               *)
Place(o, from) ==
    IF Matched(o, from) # {} THEN Matched(o, from)
    ELSE IF o.A.sender = None THEN {"A"}
    ELSE IF o.B.sender = None THEN {"B"} ELSE {}

-----------------------------------------------------------------------------
(* HandleDmx is a loop over the ports; what it changes is a record.        *)

Bridge == [port |-> port, data |-> data, dmx |-> dmx, st |-> st]

FailSafeDmx(m) ==
    CASE FailSafe = "HOLD" -> m
      [] FailSafe = "OFF" -> FillLine(m, 0)
      [] FailSafe = "ON" -> FillLine(m, LEVELS)

(* SetNetworkDataLossCondition for the places in lost: all, or the places  *)
(* of a stream that was terminated, on every port that transmits.          *)
LostAll(s) ==
    LET hit == { p \in Ports : s.port[p].isTransmitting }
    IN  [port |-> [p \in Ports |->
                     IF p \in hit
                     THEN [s.port[p] EXCEPT !.A = Drop(@), !.B = Drop(@),
                               !.isTransmitting = FALSE, !.isMerging = FALSE]
                     ELSE s.port[p]],
         data |-> [p \in Ports |-> IF p \in hit THEN ClearLength(s.data[p]) ELSE s.data[p]],
         dmx |-> [p \in Ports |-> IF hit # {} THEN FailSafeDmx(s.dmx[p]) ELSE s.dmx[p]],
         st |-> [s.st EXCEPT !.isNetworkDataLoss = TRUE, !.isMergeMode = FALSE,
                     !.isSynchronized = FALSE, !.isForcedSynchronized = FALSE,
                     !.priority = LOWEST]]

LostOne(s, x) ==
    LET hit == { p \in Ports : s.port[p].isTransmitting }
        stop == IF s.st.isMergeMode THEN {} ELSE hit
    IN  [s EXCEPT
           !.port = [p \in Ports |->
              IF p \notin hit THEN s.port[p]
              ELSE [s.port[p] EXCEPT ![x] = Drop(@),
                      !.isMerging = @ /\ s.port[p][x].sender = None,
                      !.isTransmitting = p \notin stop]],
           !.data = [p \in Ports |-> IF p \in stop THEN ClearLength(s.data[p]) ELSE s.data[p]],
           !.dmx = [p \in Ports |-> IF stop # {} THEN FailSafeDmx(s.dmx[p]) ELSE s.dmx[p]]]

Terminated(s, lost) == IF lost = Sides THEN LostAll(s) ELSE LostOne(s, CHOOSE x \in lost : TRUE)

CheckMergeTimeouts(s, p) ==
    LET checked == [s.port EXCEPT ![p] = CheckPort(@)]
    IN  IF s.st.isMergeMode /\ ~DisableMergeTimeout
        THEN [s EXCEPT !.port = checked,
                       !.st.isMergeMode = \E q \in Ports : checked[q].isMerging]
        ELSE s

(* A higher priority drops both sources of the port and ends merging. *)
Priority(s, p, pkt) ==
    IF pkt.priority > s.st.priority
    THEN [s EXCEPT !.port[p].A = Drop(@), !.port[p].B = Drop(@),
                   !.st.isMergeMode = FALSE, !.st.priority = pkt.priority]
    ELSE [s EXCEPT !.st.priority = pkt.priority]

(* Mutant: only a new source merges, a known one overwrites. *)
Received_Continue(s, p, old, x, pkt) ==
    LET new == old[x].sender # pkt.from
        merges == old[Other(x)].sender # None
        sender == IF new THEN pkt.from ELSE s.port[p][x].sender
    IN  [s EXCEPT !.port[p][x] = [sender |-> sender, age |-> 0,
                                  seq |-> IF sender = None THEN 0 ELSE pkt.seq],
                  !.port[p].isMerging = @ \/ merges,
                  !.st.isMergeMode = @ \/ merges,
                  !.data[p] = IF merges /\ new THEN Merge(@, x, pkt.frame, Ltp)
                              ELSE SetSource(@, x, pkt.frame)]

(* The place x gets the frame.  It was chosen by the sources as they were  *)
(* before the time-out and the priority dropped any: a known source whose  *)
(* place was dropped meanwhile does not get its address back, and the      *)
(* other place counts as a source to merge with.                           *)
Received(s, p, old, x, pkt) ==
    LET new == old[x].sender # pkt.from
        merges == old[Other(x)].sender # None
        sender == IF new THEN pkt.from ELSE s.port[p][x].sender
    IN  [s EXCEPT !.port[p][x] = [sender |-> sender, age |-> 0,
                                  seq |-> IF sender = None THEN 0 ELSE pkt.seq],
                  !.port[p].isMerging = @ \/ merges,
                  !.st.isMergeMode = @ \/ merges,
                  !.data[p] = IF merges THEN Merge(@, x, pkt.frame, Ltp)
                              ELSE SetSource(@, x, pkt.frame)]

(* Without the option FORCE_SYNCHRONIZATION a synchronization address      *)
(* takes the bridge into the synchronized state.                           *)
Synchronization(s, p, matched, pkt) ==
    LET sides == IF matched # {} THEN matched ELSE Live(s.port[p])
    IN  IF pkt.force THEN [s EXCEPT !.st.isForcedSynchronized = FALSE]
        ELSE IF pkt.sync = 0 \/ s.st.isForcedSynchronized THEN s
        ELSE [s EXCEPT !.st.isForcedSynchronized = TRUE, !.st.isSynchronized = TRUE,
                       !.st.syncA = IF "A" \in sides THEN pkt.sync ELSE @,
                       !.st.syncB = IF sides = {"B"} THEN pkt.sync ELSE @]

(* Mutant: frames wait only while the synchronization is forced. *)
Output_Forced(s, p) ==
    IF s.st.isForcedSynchronized
    THEN [s EXCEPT !.port[p].isDataPending = TRUE]
    ELSE [s EXCEPT !.port[p].isTransmitting = TRUE,
                   !.dmx[p] = Started(SetData(@, s.data[p], TRUE))]

Output(s, p) ==
    IF s.st.isSynchronized
    THEN [s EXCEPT !.port[p].isDataPending = TRUE]
    ELSE [s EXCEPT !.port[p].isTransmitting = TRUE,
                   !.dmx[p] = IF s.port[p].isTransmitting
                              THEN SetData(@, s.data[p], TRUE)
                              ELSE Started(SetData(@, s.data[p], TRUE))]

(* Behind the early exits: the packet counts.  With two other sources live *)
(* it has no place (8 and 9); the release build goes on all the same.      *)
Accepted(s, p, old, matched, pkt) ==
    LET c == Priority(s, p, pkt)
        r == IF Place(old, pkt.from) = {} THEN c
             ELSE Received(c, p, old, CHOOSE x \in Place(old, pkt.from) : TRUE, pkt)
    IN  Output(Synchronization(r, p, matched, pkt), p)

HandlePort(s, p, pkt) ==
    LET old == s.port[p]
        matched == Matched(old, pkt.from)
        x == CHOOSE y \in matched : TRUE
        n == IF matched = {} THEN s ELSE [s EXCEPT !.port[p][x].seq = pkt.seq]
        c == CheckMergeTimeouts(n, p)
    IN  IF matched # {} /\ OutOfSequence(pkt.seq, old[x].seq) THEN n
        ELSE IF pkt.kind = "preview" THEN n
        ELSE IF pkt.kind = "terminated"
             THEN IF matched = {} THEN n ELSE Terminated(n, matched)
        ELSE IF pkt.priority < c.st.priority /\ ~PriorityTimeOut(c.port[p]) THEN c
        ELSE Accepted(c, p, old, matched, pkt)

(* Mutant: a packet does not end the network data loss. *)
Process_StillLost ==
    LET late == syncAge >= DATA_LOSS_TIMEOUT /\ ~st.isForcedSynchronized
    IN  [Bridge EXCEPT !.st.isSynchronized = @ /\ ~late]

(* The start of Process: without a forced synchronization the synchronized *)
(* state ends when no synchronization packet came for the time-out.        *)
Process ==
    LET late == syncAge >= DATA_LOSS_TIMEOUT /\ ~st.isForcedSynchronized
    IN  [Bridge EXCEPT !.st.isNetworkDataLoss = FALSE, !.st.isSynchronized = @ /\ ~late]

(* The ports in the order of the loop. *)
HandleDmx(pkt) ==
    LET after[n \in 0 .. MAX_PORTS] ==
          IF n = 0 THEN Process
          ELSE IF PortUniverse[n - 1] # pkt.universe THEN after[n - 1]
               ELSE HandlePort(after[n - 1], n - 1, pkt)
    IN  after[MAX_PORTS]

Becomes(s) == port' = s.port /\ data' = s.data /\ dmx' = s.dmx /\ st' = s.st

DataPacket(pkt) ==
    /\ Becomes(HandleDmx(pkt))
    /\ packetAge' = 0
    /\ UNCHANGED syncAge

-----------------------------------------------------------------------------
(* Synchronization packets and the rest of Run.                            *)

(* Sync(nPortIndex) of the ports that wait, then Sync() of all ports. *)
SyncedDmx(p) == SyncStart(IF port[p].isDataPending THEN SyncPort(dmx[p], data[p]) ELSE dmx[p], data[p])

SyncedPort(o) ==
    IF o.isDataPending THEN [o EXCEPT !.isDataPending = FALSE, !.isTransmitting = TRUE] ELSE o

(* HandleSynchronization, for an address that some source announced. *)
Synchronize ==
    /\ port' = [p \in Ports |-> SyncedPort(port[p])]
    /\ data' = [p \in Ports |-> SyncClear(data[p])]
    /\ dmx' = [p \in Ports |-> SyncedDmx(p)]
    /\ syncAge' = 0

SyncPacket(address) ==
    /\ st' = Process.st
    /\ packetAge' = 0
    /\ IF address \in {st.syncA, st.syncB} THEN Synchronize
       ELSE UNCHANGED <<port, data, dmx, syncAge>>

(* A packet with a root layer that is known and nothing else. *)
OtherPacket ==
    /\ st' = Process.st
    /\ packetAge' = 0
    /\ UNCHANGED <<port, data, dmx, syncAge>>

(* Run without a packet. *)
NetworkDataLoss ==
    /\ packetAge >= DATA_LOSS_TIMEOUT /\ ~st.isNetworkDataLoss
    /\ Becomes(LostAll(Bridge))
    /\ UNCHANGED <<syncAge, packetAge>>

(* Clear, the command AcClear of an Art-Net 4 node. *)
ClearPort(p) ==
    /\ data' = [data EXCEPT ![p] = Clear(@)]
    /\ port' = [port EXCEPT ![p].isTransmitting = TRUE]
    /\ dmx' = [dmx EXCEPT ![p] = Started(SetData(@, data'[p], TRUE))]
    /\ st' = [st EXCEPT !.isNetworkDataLoss = FALSE]
    /\ UNCHANGED <<syncAge, packetAge>>

Older(age, limit) == IF age < limit THEN age + 1 ELSE age

(* Time passes. *)
Tick ==
    /\ port' = [p \in Ports |-> [port[p] EXCEPT !.A.age = Older(@, OldAge),
                                                !.B.age = Older(@, OldAge)]]
    /\ syncAge' = Older(syncAge, DATA_LOSS_TIMEOUT)
    /\ packetAge' = Older(packetAge, DATA_LOSS_TIMEOUT)
    /\ UNCHANGED <<data, dmx, st>>

Next ==
    \/ \E pkt \in Packets : DataPacket(pkt)
    \/ \E address \in SyncAddresses : SyncPacket(address)
    \/ OtherPacket
    \/ NetworkDataLoss
    \/ \E p \in Cleared : ClearPort(p)
    \/ Tick

(* The super-loop calls Run again and again. *)
Spec == Init /\ [][Next]_vars /\ WF_vars(NetworkDataLoss)

-----------------------------------------------------------------------------
(* Safety.                                                                 *)

SourceType ==
    [sender : Senders \cup {None}, age : 0 .. OldAge, seq : 0 .. (SEQUENCE - 1)]

(* What is sent is always a frame of slots with levels. *)
TypeOK ==
    /\ port \in [Ports -> [A : SourceType, B : SourceType, isMerging : BOOLEAN,
                           isTransmitting : BOOLEAN, isDataPending : BOOLEAN]]
    /\ data \in [Ports -> PortData]
    /\ dmx \in [Ports -> DmxPort]
    /\ st.priority \in Priorities \cup {LOWEST}
    /\ {st.syncA, st.syncB} \subseteq {0} \cup { pkt.sync : pkt \in Packets }
    /\ syncAge \in 0 .. DATA_LOSS_TIMEOUT /\ packetAge \in 0 .. DATA_LOSS_TIMEOUT

(* The two places of a port hold two sources: a source whose place was     *)
(* cleared by a time-out, a higher priority or the end of a stream does    *)
(* not come back into the other one (the cases 1 to 7 of HandleDmx, chosen *)
(* by addresses read before they were cleared, e131bridge.cpp:433-436).    *)
TwoStreams ==
    \A p \in Ports : Live(port[p]) = Sides => port[p].A.sender # port[p].B.sender

(* A port with two live sources in HTP mode has the higher level of both   *)
(* ready in every slot it sends, whatever priority, end of a stream or     *)
(* time-out put other sources into the places (lightsetdata.h:99-137).     *)
HtpIsHighest ==
    \A p \in Ports :
        Live(port[p]) = Sides /\ ~Ltp
            => \A i \in 1 .. data[p].length :
                   data[p].out[i] = Higher(data[p].A[i], data[p].B[i])

-----------------------------------------------------------------------------
(* What a step may never do, and what must happen.                         *)

(* A source keeps its place until it is silent for the merge time-out, a   *)
(* higher priority comes, a stream is terminated or all data is lost: no   *)
(* third source and no late packet takes it (the cases 4, 5 and 9).        *)
KeepsPlace ==
    \A p \in Ports, x \in Sides :
        LET source == port[p][x]
        IN  source.sender \notin {None, port'[p][x].sender}
                => \/ Stale(source)
                   \/ st'.priority > st.priority
                   \/ \E pkt \in Packets : pkt.kind = "terminated" /\ DataPacket(pkt)
                   \/ st'.isNetworkDataLoss
NoEviction == [][KeepsPlace]_vars

(* In the synchronized state what a port sends changes only when a         *)
(* synchronization packet releases the frame that waits, on Clear, or when *)
(* its stream was terminated (the comment at e131bridge.cpp:551).          *)
WaitsForSync ==
    st.isSynchronized /\ st'.isSynchronized
        => \A p \in Ports :
               dmx'[p].sent # dmx[p].sent
                   => \/ port[p].isDataPending /\ ~port'[p].isDataPending
                      \/ \E q \in Cleared : ClearPort(q)
                      \/ \E q \in Ports : port[q].isTransmitting /\ ~port'[q].isTransmitting
BufferedUntilSync == [][WaitsForSync]_vars

(* When the packets stop, no port goes on as if it had data: the loss is   *)
(* noticed again after every packet and every Clear, and stops all ports   *)
(* (Run, e131bridge.h:314-320, and the comment at e131bridge.h:289).       *)
SilenceStops ==
    (packetAge = DATA_LOSS_TIMEOUT)
        ~> (packetAge = 0 \/ \A p \in Ports : ~port[p].isTransmitting)
=============================================================================
