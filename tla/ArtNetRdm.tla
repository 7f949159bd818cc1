----------------------------- MODULE ArtNetRdm ------------------------------
(***************************************************************************)
(* The RDM side of an Art-Net output gateway: how ArtNetNode drives the    *)
(* one RDMDiscovery object for all of its ports.                           *)
(*                                                                         *)
(* ArtNetNode::Run (lib-artnet/include/artnetnode.h) is called from the    *)
(* super-loop.  Each call handles at most one packet, passes replies of    *)
(* gateway requests on to their controllers (HandleRdmIn), lets the        *)
(* discovery make one step, and then looks after the background scan,      *)
(* which runs an incremental discovery on one port after the other.  The   *)
(* variable phase says which of these is next.                             *)
(***************************************************************************)
EXTENDS RdmDiscovery

CONSTANTS
    OutputPorts,        \* ports that are outputs with RDM enabled, the others are inputs
    TodControls,        \* the ArtTodControl commands that controllers send
    MaxTodControls,     \* bound on the ArtTodControl packets
    MaxArtRdms          \* bound on the ArtRdm packets

ASSUME ArtNetRdmAssumption ==
    /\ OutputPorts \subseteq Ports
    /\ TodControls \subseteq {"ATC_FLUSH", "ATC_END", "ATC_INCON", "ATC_INCOFF"}
    /\ MaxTodControls \in Nat
    /\ MaxArtRdms \in Nat

VARIABLES
    phase,                  \* what ArtNetNode::Run does next
    isDiscoveryRunning,     \* m_State.rdm.IsDiscoveryRunning: a scan is under way
    discoveryPortIndex,     \* m_State.rdm.nDiscoveryPortIndex
    notRunning,             \* GoodOutputB::DISCOVERY_NOT_RUNNING of each port
    disabled,               \* GoodOutputB::DISCOVERY_DISABLED of each port
    ipRdm,                  \* nIpRdm # 0: a controller waits for a reply
    todControls,            \* ArtTodControl packets still to come
    artRdms                 \* ArtRdm packets still to come

scan == <<isDiscoveryRunning, discoveryPortIndex>>
flags == <<notRunning, disabled>>
packets == <<todControls, artRdms>>
nodeVars == <<vars, phase, scan, flags, ipRdm, packets>>

Phases == {"packet", "rdmin", "discover", "scan"}

-----------------------------------------------------------------------------
(* Process: at most one packet.                                            *)

NoPacket ==
    /\ phase = "packet" /\ phase' = "rdmin"
    /\ UNCHANGED <<vars, scan, flags, ipRdm, packets>>

(* HandleTodControl for the port with the packet's Port-Address. *)
HandleTodControl(p, command) ==
    /\ phase = "packet" /\ phase' = "rdmin"
    /\ todControls > 0 /\ todControls' = todControls - 1
    /\ \/ /\ p \in OutputPorts /\ command = "ATC_FLUSH"
          /\ Full(p)
          /\ notRunning' = [notRunning EXCEPT ![p] = FALSE]
          /\ UNCHANGED disabled
       \/ /\ p \in OutputPorts /\ command = "ATC_END"
          /\ IF state # "IDLE" /\ portIndex = p THEN Stop ELSE UNCHANGED vars
          /\ notRunning' = [notRunning EXCEPT ![p] = TRUE]
          /\ UNCHANGED disabled
       \/ /\ p \in OutputPorts /\ command \in {"ATC_INCON", "ATC_INCOFF"}
          /\ disabled' = [disabled EXCEPT ![p] = (command = "ATC_INCOFF")]
          /\ UNCHANGED <<vars, notRunning>>
       \/ /\ p \notin OutputPorts /\ command = "ATC_FLUSH"
          /\ tod' = [tod EXCEPT ![p] = EmptyTod]
          /\ UNCHANGED <<state, savedState, control, counters, stack, branch,
                         response, lineVars, flags>>
    /\ UNCHANGED <<scan, ipRdm, artRdms>>

(* HandleRdm: a controller's GET or SET request goes out on the line of    *)
(* the port, over whatever the discovery is waiting for there.             *)
HandleRdm(p, uid) ==
    /\ phase = "packet" /\ phase' = "rdmin"
    /\ artRdms > 0 /\ artRdms' = artRdms - 1
    /\ p \in OutputPorts
    /\ ipRdm' = [ipRdm EXCEPT ![p] = TRUE]
    /\ line' = [line EXCEPT ![p] = IF uid \in devices[p] THEN OtherReply(uid) ELSE @]
    /\ UNCHANGED <<state, savedState, control, counters, stack, branch, response,
                   tod, devices, muted, faults, replugs, scan, flags, todControls>>

(* HandleRdmIn: a port with a waiting controller passes on whatever is in  *)
(* its receive buffer; the reply may also still be on its way.             *)
HandleRdmIn ==
    /\ phase = "rdmin" /\ phase' = "discover"
    /\ \E taken \in SUBSET { p \in OutputPorts : ipRdm[p] /\ line[p] # NoReply } :
          /\ line' = [p \in Ports |-> IF p \in taken THEN NoReply ELSE line[p]]
          /\ ipRdm' = [p \in Ports |-> ipRdm[p] /\ p \notin taken]
    /\ UNCHANGED <<state, savedState, control, counters, stack, branch, response,
                   tod, devices, muted, faults, replugs, scan, flags, packets>>

-----------------------------------------------------------------------------
(* The discovery's own Run: nothing in IDLE; otherwise one step of Process,*)
(* which may have nothing to do yet while it waits for a reply or a time.  *)

Waiting ==
    \/ state = "LATE_RESPONSE"
    \/ state = "UNMUTE" /\ unMute.running
    \/ state = "MUTE" /\ mute.running
    \/ state = "DISCOVERY" /\ discovery.running
    \/ state = "DISCOVERY_SINGLE_DEVICE" /\ single.running
    \/ state = "QUICKFIND" /\ quikFind.running
    \/ state = "QUICKFIND_DISCOVERY" /\ quikFindDiscovery.running

RunIdle ==
    /\ phase = "discover" /\ phase' = "scan"
    /\ state = "IDLE" \/ Waiting
    /\ UNCHANGED <<vars, scan, flags, ipRdm, packets>>

RunProcess ==
    /\ phase = "discover" /\ phase' = "scan"
    /\ Process
    /\ UNCHANGED <<scan, flags, ipRdm, packets>>

-----------------------------------------------------------------------------
(* The background scan.                                                    *)

(* Mutants: the scan runs past the last port; it never leaves the first. *)
NextPort_PastEnd ==
    IF discoveryPortIndex = MAX_PORTS
    THEN isDiscoveryRunning' = FALSE /\ discoveryPortIndex' = 0
    ELSE isDiscoveryRunning' = TRUE /\ discoveryPortIndex' = discoveryPortIndex + 1

NextPort_FirstOnly == isDiscoveryRunning' = FALSE /\ discoveryPortIndex' = 0

(* RdmDiscoveryRun goes on with the next port, or ends the scan. *)
NextPort ==
    IF discoveryPortIndex + 1 = MAX_PORTS
    THEN isDiscoveryRunning' = FALSE /\ discoveryPortIndex' = 0
    ELSE isDiscoveryRunning' = TRUE /\ discoveryPortIndex' = discoveryPortIndex + 1

Scannable(p) == p \in OutputPorts /\ ~disabled[p]

(* The scan is under way, or 15 minutes have passed since the last one. *)
ScanDue == phase = "scan" /\ phase' = "packet"

(* Mutant: a port that is not scanned is not left. *)
ScanSkip_Stay ==
    /\ ScanDue
    /\ ~Scannable(discoveryPortIndex)
    /\ isDiscoveryRunning' = TRUE
    /\ UNCHANGED <<vars, discoveryPortIndex, flags, ipRdm, packets>>

ScanSkip ==
    /\ ScanDue
    /\ ~Scannable(discoveryPortIndex)
    /\ NextPort
    /\ UNCHANGED <<vars, flags, ipRdm, packets>>

(* Mutant: DISCOVERY_NOT_RUNNING is not set again. *)
ScanFinished_NoFlag ==
    /\ ScanDue
    /\ Scannable(discoveryPortIndex)
    /\ IsFinished
    /\ NextPort
    /\ UNCHANGED <<flags, ipRdm, packets>>

ScanFinished ==
    /\ ScanDue
    /\ Scannable(discoveryPortIndex)
    /\ IsFinished
    /\ notRunning' = [notRunning EXCEPT ![discoveryPortIndex] = TRUE]
    /\ NextPort
    /\ UNCHANGED <<disabled, ipRdm, packets>>

ScanStart ==
    /\ ScanDue
    /\ Scannable(discoveryPortIndex)
    /\ ~isFinished
    /\ state = "IDLE" /\ Incremental(discoveryPortIndex)
    /\ notRunning' = [notRunning EXCEPT ![discoveryPortIndex] = FALSE]
    /\ isDiscoveryRunning' = TRUE
    /\ UNCHANGED <<discoveryPortIndex, disabled, ipRdm, packets>>

ScanWait ==
    /\ ScanDue
    /\ Scannable(discoveryPortIndex)
    /\ ~isFinished
    /\ state # "IDLE"
    /\ isDiscoveryRunning' = TRUE
    /\ UNCHANGED <<vars, discoveryPortIndex, flags, ipRdm, packets>>

(* No scan under way and none due: the end of a discovery that an ATC_FLUSH *)
(* has started is collected here.                                          *)
NoScan ==
    /\ phase = "scan" /\ phase' = "packet"
    /\ ~isDiscoveryRunning
    /\ IF isFinished THEN IsFinished ELSE UNCHANGED vars
    /\ UNCHANGED <<scan, flags, ipRdm, packets>>

-----------------------------------------------------------------------------
(* SetRdmController and Start have set IsDiscoveryRunning.                 *)
NodeInit ==
    /\ Init
    /\ phase = "packet"
    /\ isDiscoveryRunning = TRUE /\ discoveryPortIndex = 0
    /\ notRunning = [p \in Ports |-> TRUE]
    /\ disabled = [p \in Ports |-> FALSE]
    /\ ipRdm = [p \in Ports |-> FALSE]
    /\ todControls = MaxTodControls
    /\ artRdms = MaxArtRdms

Packet ==
    \E p \in Ports :
        \/ \E command \in TodControls : HandleTodControl(p, command)
        \/ \E uid \in Devices[p] : HandleRdm(p, uid)

Scan == ScanSkip \/ ScanFinished \/ ScanStart \/ ScanWait

LoopStep == NoPacket \/ HandleRdmIn \/ RunIdle \/ RunProcess \/ Scan \/ NoScan

NodeEnvironment ==
    Environment /\ UNCHANGED <<phase, scan, flags, ipRdm, packets>>

NodeNext == LoopStep \/ Packet \/ NodeEnvironment

NodeSpec == NodeInit /\ [][NodeNext]_nodeVars

(* The super-loop never stops; a discovery does not wait for ever, because *)
(* the receive timeouts and LATE_RESPONSE end; the 15 minutes pass.        *)
NodeFairness ==
    /\ WF_nodeVars(LoopStep)
    /\ SF_nodeVars(RunProcess)
    /\ SF_nodeVars(Scan)

-----------------------------------------------------------------------------
(* Properties.                                                             *)

(* The variables of the node have values of their C++ types. *)
NodeTypeOK ==
    /\ TypeOK
    /\ phase \in Phases
    /\ isDiscoveryRunning \in BOOLEAN /\ discoveryPortIndex \in Ports
    /\ notRunning \in [Ports -> BOOLEAN] /\ disabled \in [Ports -> BOOLEAN]
    /\ ipRdm \in [Ports -> BOOLEAN]
    /\ todControls \in 0 .. MaxTodControls /\ artRdms \in 0 .. MaxArtRdms

(* Without commands from controllers the GoodOutputB bit that ArtPollReply *)
(* publishes is exact: between two calls of Run a port says that discovery *)
(* runs exactly while the discovery is at work on that port.               *)
StatusExact ==
    phase = "packet" =>
        \A p \in Ports : notRunning[p] = ~(state # "IDLE" /\ portIndex = p)

(* Every background scan reaches the last port, whatever the controllers   *)
(* send in between.                                                        *)
ScanTerminates == isDiscoveryRunning ~> ~isDiscoveryRunning

(* The scan comes back again and again to every output for which it is not *)
(* switched off, whatever the controllers send in between.                 *)
EveryPortScanned ==
    \A p \in OutputPorts :
        []<>(disabled[p] \/ (state = "UNMUTE" /\ portIndex = p /\ doIncremental))
=============================================================================
