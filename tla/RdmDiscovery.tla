---------------------------- MODULE RdmDiscovery ----------------------------
(***************************************************************************)
(* RDM discovery by a controller: class RDMDiscovery of                    *)
(* lib-rdm/src/controller/rdmdiscovery.cpp.                                *)
(*                                                                         *)
(* Run() is called from the node's super-loop and makes one step of the    *)
(* state machine in Process(), which is here one action per branch of the  *)
(* switch.  The machine talks to the responders of one port at a time over *)
(* a half-duplex line.  A request may be lost, its reply may be lost,      *)
(* turned into noise or come after the timeout; each of these costs one of *)
(* MaxFaults.  Responders are plugged in and out at most MaxReplugs times. *)
(* Times are abstracted: a timeout may expire whenever the reply has not   *)
(* been received yet.                                                      *)
(***************************************************************************)
EXTENDS RdmTod, RdmResponder

CONSTANTS
    MAX_PORTS,                  \* the DMX ports of the node are 0 .. MAX_PORTS - 1
    Devices,                    \* the UIDs that are ever on each port's line
    UNMUTE_COUNTER,             \* 3 in the code
    MUTE_COUNTER,               \* 10
    DISCOVERY_COUNTER,          \* 3
    QUIKFIND_COUNTER,           \* 5
    QUIKFIND_DISCOVERY_COUNTER, \* 5
    Noise,                      \* what a disturbed reply may look like
    MaxFaults,                  \* bound on lost, late and disturbed messages
    MaxReplugs                  \* bound on responders going or coming

Ports == 0 .. (MAX_PORTS - 1)

ASSUME DiscoveryAssumption ==
    /\ MAX_PORTS \in Nat \ {0}
    /\ Devices \in [Ports -> SUBSET Uid]
    /\ UNMUTE_COUNTER \in Nat \ {0}
    /\ MUTE_COUNTER \in Nat \ {0}
    /\ DISCOVERY_COUNTER \in Nat \ {0}
    /\ QUIKFIND_COUNTER \in Nat \ {0}
    /\ QUIKFIND_DISCOVERY_COUNTER \in Nat \ {0}
    /\ Noise \subseteq {NoReply, Collision} \cup { DubReply(u) : u \in Uid }
    /\ MaxFaults \in Nat
    /\ MaxReplugs \in Nat

VARIABLES
    state,              \* m_State
    savedState,         \* m_SavedState, resumed after LATE_RESPONSE
    portIndex,          \* m_nPortIndex
    doIncremental,      \* m_doIncremental
    isFinished,         \* m_bIsFinished
    unMute,             \* m_UnMute: counter and bCommandRunning
    mute,               \* m_Mute: also nTodEntries and uid
    stack,              \* m_Discovery.stack, items[0] first
    branch,             \* m_Discovery.nLowerBound and nUpperBound
    discovery,          \* m_Discovery: counter and bCommandRunning
    single,             \* m_DiscoverySingleDevice
    quikFind,           \* m_QuikFind: also uid
    quikFindDiscovery,  \* m_QuikFindDiscovery
    response,           \* m_pResponse, as state DUB finds it
    tod,                \* *m_pRDMTod of every port
    devices,            \* the responders powered on each line
    muted,              \* those of them that are muted
    line,               \* the reply on its way to, or in, the receive buffer
    faults,             \* faults that may still happen
    replugs             \* times a responder may still come or go

control == <<portIndex, doIncremental, isFinished>>
lineVars == <<devices, muted, line, faults, replugs>>
counters == <<unMute, mute, discovery, single, quikFind, quikFindDiscovery>>
vars == <<state, savedState, control, counters, stack, branch, response, tod,
          lineVars>>

States == {"IDLE", "UNMUTE", "MUTE", "DISCOVERY", "DISCOVERY_SINGLE_DEVICE",
           "DUB", "QUICKFIND", "QUICKFIND_DISCOVERY", "LATE_RESPONSE",
           "FINISHED"}

AnyUid == Uid \cup {UID_ALL}
Replies == {NoReply, Collision}
             \cup [kind : {"DUB", "MUTE_ACK", "OTHER"}, uid : Uid]

Command(counter) == [counter |-> counter, running |-> FALSE]

(* Called back by Start, Stop and the branches of Process. *)
NewState(next, doStateLateResponse) ==
    IF doStateLateResponse /\ state # "LATE_RESPONSE"
    THEN state' = "LATE_RESPONSE" /\ savedState' = next
    ELSE state' = next /\ UNCHANGED savedState

-----------------------------------------------------------------------------
(* The line.                                                               *)

(* Send a request with "budget" faults left.  A reply that is still under  *)
(* way when the line stays silent otherwise is received as the answer.     *)
Transmit(request, budget) ==
    LET p == portIndex
        reply == ReplyTo(request, devices[p], muted[p])
        Heard(r) == line' = [line EXCEPT ![p] = IF r = NoReply THEN @ ELSE r]
        Reached == muted' = [muted EXCEPT ![p] = MutedAfter(request, devices[p], @)]
    IN  /\ \/ Reached /\ Heard(reply) /\ faults' = budget
           \/ /\ budget > 0 /\ faults' = budget - 1
              /\ UNCHANGED <<muted, line>>
           \/ /\ budget > 0 /\ faults' = budget - 1
              /\ Reached
              /\ \E r \in Noise : Heard(r)
        /\ UNCHANGED <<devices, replugs>>

(* Receive() takes the reply out of the buffer. *)
Received == line[portIndex]
Receive ==
    /\ Received # NoReply
    /\ line' = [line EXCEPT ![portIndex] = NoReply]
    /\ UNCHANGED <<devices, muted, faults, replugs>>

(* The time since the request is over with "left" faults left: there is no *)
(* reply, or it is a late one.                                             *)
TimeOut(left) ==
    \/ Received = NoReply /\ left = faults
    \/ Received # NoReply /\ faults > 0 /\ left = faults - 1

(* A timeout after which nothing is sent in the same step. *)
TimeOutQuietly ==
    \E left \in 0 .. MaxFaults :
        TimeOut(left) /\ faults' = left /\ UNCHANGED <<devices, muted, line, replugs>>

(* A responder loses its power, and its mute flag with it, or is plugged in. *)
Unplug(p, d) ==
    /\ replugs > 0 /\ replugs' = replugs - 1
    /\ d \in devices[p]
    /\ devices' = [devices EXCEPT ![p] = @ \ {d}]
    /\ muted' = [muted EXCEPT ![p] = @ \ {d}]
    /\ UNCHANGED <<state, savedState, control, counters, stack, branch,
                   response, tod, line, faults>>

Plug(p, d) ==
    /\ replugs > 0 /\ replugs' = replugs - 1
    /\ d \in Devices[p] \ devices[p]
    /\ devices' = [devices EXCEPT ![p] = @ \cup {d}]
    /\ UNCHANGED <<state, savedState, control, counters, stack, branch,
                   response, tod, muted, line, faults>>

-----------------------------------------------------------------------------
(* The calls of the node: Full, Incremental, Stop and IsFinished.          *)

(* Start from IDLE; the stack holds the branch of all UIDs. *)
Start(p, incremental, todEntries) ==
    /\ portIndex' = p
    /\ doIncremental' = incremental
    /\ isFinished' = FALSE
    /\ unMute' = Command(UNMUTE_COUNTER)
    /\ mute' = [counter |-> MUTE_COUNTER, running |-> FALSE,
                todEntries |-> todEntries, uid |-> mute.uid]
    /\ stack' = << [lower |-> FirstUid, upper |-> LastUid] >>
    /\ discovery' = Command(DISCOVERY_COUNTER)
    /\ single' = Command(MUTE_COUNTER)
    /\ quikFind' = [counter |-> QUIKFIND_COUNTER, running |-> FALSE,
                    uid |-> quikFind.uid]
    /\ quikFindDiscovery' = Command(QUIKFIND_DISCOVERY_COUNTER)
    /\ NewState("UNMUTE", FALSE)
    /\ UNCHANGED <<branch, response, lineVars>>

(* Full resets the table before Start finds out whether it may start. *)
Full(p) ==
    /\ tod' = [tod EXCEPT ![p] = EmptyTod]
    /\ \/ state = "IDLE" /\ Start(p, FALSE, mute.todEntries)
       \/ /\ state # "IDLE"
          /\ UNCHANGED <<state, savedState, control, counters, stack, branch,
                         response, lineVars>>

(* Incremental stores the number of entries before Start finds out. *)
Incremental(p) ==
    /\ \/ state = "IDLE" /\ Start(p, TRUE, Len(tod[p]))
       \/ /\ state # "IDLE"
          /\ mute' = [mute EXCEPT !.todEntries = Len(tod[p])]
          /\ UNCHANGED <<state, savedState, control, unMute, discovery, single,
                         quikFind, quikFindDiscovery, stack, branch, response,
                         lineVars>>
    /\ UNCHANGED tod

(* RDMDiscovery::Stop; a second call during LATE_RESPONSE stops at once. *)
Stop ==
    /\ state # "IDLE"
    /\ isFinished' = FALSE
    /\ NewState("IDLE", TRUE)
    /\ UNCHANGED <<portIndex, doIncremental, counters, stack, branch, response,
                   tod, lineVars>>

(* IsFinished answers true once and clears the flag. *)
IsFinished ==
    /\ isFinished
    /\ isFinished' = FALSE
    /\ UNCHANGED <<state, savedState, portIndex, doIncremental, counters, stack,
                   branch, response, tod, lineVars>>

-----------------------------------------------------------------------------
(* Process, state LATE_RESPONSE: drain the receive buffer for a while.     *)

LateResponse ==
    /\ state = "LATE_RESPONSE"
    /\ line' = [line EXCEPT ![portIndex] = NoReply]
    /\ \/ state' = savedState
       \/ Received # NoReply /\ UNCHANGED state
    /\ UNCHANGED <<savedState, control, counters, stack, branch, response, tod,
                   devices, muted, faults, replugs>>

-----------------------------------------------------------------------------
(* Process, state UNMUTE: broadcast DISC_UN_MUTE UNMUTE_COUNTER times.     *)

UnMuteDone ==
    /\ state = "UNMUTE"
    /\ unMute.counter = 0
    /\ unMute' = Command(UNMUTE_COUNTER)
    /\ NewState(IF doIncremental THEN "MUTE" ELSE "DISCOVERY", FALSE)
    /\ UNCHANGED <<control, mute, discovery, single, quikFind,
                   quikFindDiscovery, stack, branch, response, tod, lineVars>>

UnMuteSend ==
    /\ state = "UNMUTE"
    /\ unMute.counter > 0 /\ ~unMute.running
    /\ Transmit(DiscUnMute, faults)
    /\ unMute' = [unMute EXCEPT !.running = TRUE]
    /\ UNCHANGED <<state, savedState, control, mute, discovery, single,
                   quikFind, quikFindDiscovery, stack, branch, response, tod>>

UnMuteWait ==
    /\ state = "UNMUTE"
    /\ unMute.counter > 0 /\ unMute.running
    /\ line' = [line EXCEPT ![portIndex] = NoReply]
    /\ \/ unMute' = Command(unMute.counter - 1)
       \/ Received # NoReply /\ UNCHANGED unMute
    /\ UNCHANGED <<state, savedState, control, mute, discovery, single,
                   quikFind, quikFindDiscovery, stack, branch, response, tod,
                   devices, muted, faults, replugs>>

-----------------------------------------------------------------------------
(* Process, state MUTE: mute the UIDs of the table, the last one first,    *)
(* and delete a UID when the retries are used up.  The retry counter is    *)
(* not reset when a responder answers.                                     *)

MuteDone ==
    /\ state = "MUTE"
    /\ mute.todEntries = 0
    /\ mute' = [mute EXCEPT !.running = FALSE]
    /\ NewState("DISCOVERY", FALSE)
    /\ UNCHANGED <<control, unMute, discovery, single, quikFind,
                   quikFindDiscovery, stack, branch, response, tod, lineVars>>

(* Mutant: without the test for the last entry. *)
MuteGone_NoTest ==
    /\ state = "MUTE"
    /\ mute.counter = 0
    /\ tod' = [tod EXCEPT ![portIndex] = Delete(@, mute.uid)]
    /\ mute' = [mute EXCEPT !.counter = MUTE_COUNTER, !.todEntries = @ - 1]
    /\ UNCHANGED <<state, savedState, control, unMute, discovery, single,
                   quikFind, quikFindDiscovery, stack, branch, response,
                   lineVars>>

MuteGone ==
    /\ state = "MUTE"
    /\ mute.todEntries > 0 /\ mute.counter = 0
    /\ tod' = [tod EXCEPT ![portIndex] = Delete(@, mute.uid)]
    /\ mute' = [counter |-> MUTE_COUNTER, running |-> FALSE,
                todEntries |-> mute.todEntries - 1, uid |-> mute.uid]
    /\ UNCHANGED <<state, savedState, control, unMute, discovery, single,
                   quikFind, quikFindDiscovery, stack, branch, response,
                   lineVars>>

MuteSend ==
    /\ state = "MUTE"
    /\ mute.todEntries > 0 /\ mute.counter > 0 /\ ~mute.running
    /\ LET uid == CopyUidEntry(tod[portIndex], mute.todEntries - 1)
       IN  /\ mute' = [mute EXCEPT !.uid = uid, !.running = TRUE]
           /\ Transmit(DiscMute(uid), faults)
    /\ UNCHANGED <<state, savedState, control, unMute, discovery, single,
                   quikFind, quikFindDiscovery, stack, branch, response, tod>>

(* Whatever is received counts as the answer. *)
MuteAnswer ==
    /\ state = "MUTE"
    /\ mute.todEntries > 0 /\ mute.counter > 0 /\ mute.running
    /\ Receive
    /\ mute' = [mute EXCEPT !.todEntries = @ - 1, !.running = FALSE]
    /\ UNCHANGED <<state, savedState, control, unMute, discovery, single,
                   quikFind, quikFindDiscovery, stack, branch, response, tod>>

(* Mutant: the DISC_MUTE is not sent again. *)
MuteTimeOut_NoSend ==
    /\ state = "MUTE"
    /\ mute.todEntries > 0 /\ mute.counter > 0 /\ mute.running
    /\ TimeOutQuietly
    /\ mute' = [mute EXCEPT !.counter = @ - 1]
    /\ UNCHANGED <<state, savedState, control, unMute, discovery, single,
                   quikFind, quikFindDiscovery, stack, branch, response, tod>>

MuteTimeOut ==
    /\ state = "MUTE"
    /\ mute.todEntries > 0 /\ mute.counter > 0 /\ mute.running
    /\ \E left \in 0 .. MaxFaults :
            TimeOut(left) /\ Transmit(DiscMute(mute.uid), left)
    /\ mute' = [mute EXCEPT !.counter = @ - 1]
    /\ UNCHANGED <<state, savedState, control, unMute, discovery, single,
                   quikFind, quikFindDiscovery, stack, branch, response, tod>>

-----------------------------------------------------------------------------
(* Process, state DISCOVERY: take a branch off the stack and ask for the   *)
(* unmuted responders in it.  After the last retry the state is left at    *)
(* once, with the reply to that retry still on the line.                   *)

DiscoveryAnswer ==
    /\ state = "DISCOVERY" /\ discovery.running
    /\ \/ Receive /\ response' = Received
       \/ discovery.counter = 0 /\ response' = NoReply /\ UNCHANGED lineVars
    /\ discovery' = [discovery EXCEPT !.running = FALSE]
    /\ NewState("DUB", FALSE)
    /\ UNCHANGED <<control, unMute, mute, single, quikFind, quikFindDiscovery,
                   stack, branch, tod>>

DiscoveryTimeOut ==
    /\ state = "DISCOVERY" /\ discovery.running
    /\ discovery.counter > 0
    /\ \E left \in 0 .. MaxFaults :
            /\ TimeOut(left)
            /\ Transmit(DiscUniqueBranch(branch.lower, branch.upper), left)
    /\ discovery' = [discovery EXCEPT !.counter = @ - 1]
    /\ UNCHANGED <<state, savedState, control, unMute, mute, single, quikFind,
                   quikFindDiscovery, stack, branch, response, tod>>

DiscoveryFinished ==
    /\ state = "DISCOVERY" /\ ~discovery.running
    /\ stack = << >>
    /\ NewState("FINISHED", TRUE)
    /\ UNCHANGED <<control, counters, stack, branch, response, tod, lineVars>>

Top == stack[Len(stack)]
Popped == SubSeq(stack, 1, Len(stack) - 1)

DiscoverySingleUid ==
    /\ state = "DISCOVERY" /\ ~discovery.running
    /\ stack # << >>
    /\ Top.lower = Top.upper
    /\ branch' = Top
    /\ stack' = Popped
    /\ quikFindDiscovery' = [quikFindDiscovery EXCEPT !.running = FALSE]
    /\ NewState("DISCOVERY_SINGLE_DEVICE", TRUE)
    /\ UNCHANGED <<control, unMute, mute, discovery, single, quikFind,
                   response, tod, lineVars>>

DiscoverySend ==
    /\ state = "DISCOVERY" /\ ~discovery.running
    /\ stack # << >>
    /\ Top.lower # Top.upper
    /\ branch' = Top
    /\ stack' = Popped
    /\ Transmit(DiscUniqueBranch(Top.lower, Top.upper), faults)
    /\ discovery' = [counter |-> DISCOVERY_COUNTER, running |-> TRUE]
    /\ UNCHANGED <<state, savedState, control, unMute, mute, single, quikFind,
                   quikFindDiscovery, response, tod>>

-----------------------------------------------------------------------------
(* Process, state DISCOVERY_SINGLE_DEVICE: the branch is a single UID.     *)

SingleGiveUp ==
    /\ state = "DISCOVERY_SINGLE_DEVICE"
    /\ single.counter = 0
    /\ single' = Command(QUIKFIND_DISCOVERY_COUNTER)
    /\ NewState("DISCOVERY", TRUE)
    /\ UNCHANGED <<control, unMute, mute, discovery, quikFind,
                   quikFindDiscovery, stack, branch, response, tod, lineVars>>

SingleSend ==
    /\ state = "DISCOVERY_SINGLE_DEVICE"
    /\ single.counter > 0 /\ ~single.running
    /\ Transmit(DiscMute(branch.lower), faults)
    /\ single' = [single EXCEPT !.running = TRUE]
    /\ UNCHANGED <<state, savedState, control, unMute, mute, discovery,
                   quikFind, quikFindDiscovery, stack, branch, response, tod>>

(* Any discovery response of the UID counts, others are skipped. *)
SingleAnswer ==
    /\ state = "DISCOVERY_SINGLE_DEVICE"
    /\ single.counter > 0 /\ single.running
    /\ Receive
    /\ IF Received = MuteAck(branch.lower)
       THEN /\ tod' = [tod EXCEPT ![portIndex] = AddUid(@, branch.lower)]
            /\ single' = Command(QUIKFIND_DISCOVERY_COUNTER)
            /\ NewState("DISCOVERY", FALSE)
       ELSE UNCHANGED <<tod, single, state, savedState>>
    /\ UNCHANGED <<control, unMute, mute, discovery, quikFind,
                   quikFindDiscovery, stack, branch, response>>

SingleTimeOut ==
    /\ state = "DISCOVERY_SINGLE_DEVICE"
    /\ single.counter > 0 /\ single.running
    /\ \E left \in 0 .. MaxFaults :
            TimeOut(left) /\ Transmit(DiscMute(branch.lower), left)
    /\ single' = [single EXCEPT !.counter = @ - 1]
    /\ UNCHANGED <<state, savedState, control, unMute, mute, discovery,
                   quikFind, quikFindDiscovery, stack, branch, response, tod>>

-----------------------------------------------------------------------------
(* Process, state DUB: what the reply to the DISC_UNIQUE_BRANCH means.     *)

(* IsValidDiscoveryResponse: the checksum of the decoded UID is right. *)
IsValidDiscoveryResponse(reply) == reply.kind = "DUB"

DubSilence ==
    /\ state = "DUB"
    /\ response = NoReply
    /\ NewState("DISCOVERY", FALSE)
    /\ UNCHANGED <<control, counters, stack, branch, response, tod, lineVars>>

DubFound ==
    /\ state = "DUB"
    /\ IsValidDiscoveryResponse(response)
    /\ quikFind' = [quikFind EXCEPT !.uid = response.uid]
    /\ NewState("QUICKFIND", TRUE)
    /\ UNCHANGED <<control, unMute, mute, discovery, single, quikFindDiscovery,
                   stack, branch, response, tod, lineVars>>

(* Mutant: the lower half ends one UID too early. *)
DubSplit_Gap ==
    LET mid == MidPosition(branch.lower, branch.upper)
    IN  /\ state = "DUB"
        /\ response # NoReply /\ ~IsValidDiscoveryResponse(response)
        /\ stack' = stack \o << [lower |-> branch.lower, upper |-> mid - 1],
                                [lower |-> mid + 1, upper |-> branch.upper] >>
        /\ NewState("DISCOVERY", TRUE)
        /\ UNCHANGED <<control, counters, branch, response, tod, lineVars>>

(* Several answered: search the two halves, the upper one first. *)
DubSplit ==
    LET mid == MidPosition(branch.lower, branch.upper)
    IN  /\ state = "DUB"
        /\ response # NoReply /\ ~IsValidDiscoveryResponse(response)
        /\ stack' = stack \o << [lower |-> branch.lower, upper |-> mid],
                                [lower |-> mid + 1, upper |-> branch.upper] >>
        /\ NewState("DISCOVERY", TRUE)
        /\ UNCHANGED <<control, counters, branch, response, tod, lineVars>>

-----------------------------------------------------------------------------
(* Process, state QUICKFIND: mute the responder that answered alone.       *)

QuickGiveUp ==
    /\ state = "QUICKFIND"
    /\ quikFind.counter = 0
    /\ quikFind' = [quikFind EXCEPT !.running = FALSE]
    /\ NewState("QUICKFIND_DISCOVERY", FALSE)
    /\ UNCHANGED <<control, unMute, mute, discovery, single, quikFindDiscovery,
                   stack, branch, response, tod, lineVars>>

(* Every send, the repeated ones included, starts the retries anew. *)
QuickSend ==
    /\ state = "QUICKFIND"
    /\ quikFind.counter > 0 /\ ~quikFind.running
    /\ Transmit(DiscMute(quikFind.uid), faults)
    /\ quikFind' = [counter |-> QUIKFIND_COUNTER, running |-> TRUE,
                    uid |-> quikFind.uid]
    /\ UNCHANGED <<state, savedState, control, unMute, mute, discovery, single,
                   quikFindDiscovery, stack, branch, response, tod>>

(* An acknowledgement of a mute, of this responder or of another one. *)
QuickAnswer ==
    /\ state = "QUICKFIND"
    /\ quikFind.counter > 0 /\ quikFind.running
    /\ Receive
    /\ Received.kind = "MUTE_ACK"
    /\ tod' = [tod EXCEPT ![portIndex] =
                    IF Received.uid = quikFind.uid THEN AddUid(@, Received.uid) ELSE @]
    /\ quikFind' = [counter |-> QUIKFIND_COUNTER, running |-> FALSE,
                    uid |-> quikFind.uid]
    /\ NewState("QUICKFIND_DISCOVERY", FALSE)
    /\ UNCHANGED <<control, unMute, mute, discovery, single, quikFindDiscovery,
                   stack, branch, response>>

(* Anything else is skipped. *)
QuickInvalid ==
    /\ state = "QUICKFIND"
    /\ quikFind.counter > 0 /\ quikFind.running
    /\ Receive
    /\ Received.kind # "MUTE_ACK"
    /\ UNCHANGED <<state, savedState, control, counters, stack, branch,
                   response, tod>>

QuickTimeOut ==
    /\ state = "QUICKFIND"
    /\ quikFind.counter > 0 /\ quikFind.running
    /\ TimeOutQuietly
    /\ quikFind' = [quikFind EXCEPT !.counter = @ - 1, !.running = FALSE]
    /\ UNCHANGED <<state, savedState, control, unMute, mute, discovery, single,
                   quikFindDiscovery, stack, branch, response, tod>>

-----------------------------------------------------------------------------
(* Process, state QUICKFIND_DISCOVERY: ask the same branch again for the   *)
(* responders that are still unmuted.                                      *)

QuickDiscoveryGiveUp ==
    /\ state = "QUICKFIND_DISCOVERY"
    /\ quikFindDiscovery.counter = 0
    /\ quikFindDiscovery' = Command(QUIKFIND_DISCOVERY_COUNTER)
    /\ NewState("DISCOVERY", TRUE)
    /\ UNCHANGED <<control, unMute, mute, discovery, single, quikFind, stack,
                   branch, response, tod, lineVars>>

QuickDiscoverySend ==
    /\ state = "QUICKFIND_DISCOVERY"
    /\ quikFindDiscovery.counter > 0 /\ ~quikFindDiscovery.running
    /\ Transmit(DiscUniqueBranch(branch.lower, branch.upper), faults)
    /\ quikFindDiscovery' = [quikFindDiscovery EXCEPT !.running = TRUE]
    /\ UNCHANGED <<state, savedState, control, unMute, mute, discovery, single,
                   quikFind, stack, branch, response, tod>>

QuickDiscoveryFound ==
    /\ state = "QUICKFIND_DISCOVERY"
    /\ quikFindDiscovery.counter > 0 /\ quikFindDiscovery.running
    /\ Receive
    /\ IsValidDiscoveryResponse(Received)
    /\ quikFind' = [quikFind EXCEPT !.uid = Received.uid]
    /\ quikFindDiscovery' = Command(QUIKFIND_DISCOVERY_COUNTER)
    /\ NewState("QUICKFIND", TRUE)
    /\ UNCHANGED <<control, unMute, mute, discovery, single, stack, branch,
                   response, tod>>

QuickDiscoveryCollision ==
    /\ state = "QUICKFIND_DISCOVERY"
    /\ quikFindDiscovery.counter > 0 /\ quikFindDiscovery.running
    /\ Receive
    /\ ~IsValidDiscoveryResponse(Received)
    /\ response' = Received
    /\ quikFindDiscovery' = Command(QUIKFIND_DISCOVERY_COUNTER)
    /\ NewState("DUB", FALSE)
    /\ UNCHANGED <<control, unMute, mute, discovery, single, quikFind, stack,
                   branch, tod>>

(* Mutant: the retries are not counted. *)
QuickDiscoveryTimeOut_NoCount ==
    /\ state = "QUICKFIND_DISCOVERY"
    /\ quikFindDiscovery.counter > 0 /\ quikFindDiscovery.running
    /\ TimeOutQuietly
    /\ quikFindDiscovery' = Command(quikFindDiscovery.counter)
    /\ UNCHANGED <<state, savedState, control, unMute, mute, discovery, single,
                   quikFind, stack, branch, response, tod>>

QuickDiscoveryTimeOut ==
    /\ state = "QUICKFIND_DISCOVERY"
    /\ quikFindDiscovery.counter > 0 /\ quikFindDiscovery.running
    /\ TimeOutQuietly
    /\ quikFindDiscovery' = Command(quikFindDiscovery.counter - 1)
    /\ UNCHANGED <<state, savedState, control, unMute, mute, discovery, single,
                   quikFind, stack, branch, response, tod>>

-----------------------------------------------------------------------------
(* Process, state FINISHED.                                                *)

Finished ==
    /\ state = "FINISHED"
    /\ isFinished' = TRUE
    /\ NewState("IDLE", FALSE)
    /\ UNCHANGED <<portIndex, doIncremental, counters, stack, branch, response,
                   tod, lineVars>>

-----------------------------------------------------------------------------
Process ==
    \/ LateResponse
    \/ UnMuteDone \/ UnMuteSend \/ UnMuteWait
    \/ MuteDone \/ MuteGone \/ MuteSend \/ MuteAnswer \/ MuteTimeOut
    \/ DiscoveryAnswer \/ DiscoveryTimeOut \/ DiscoveryFinished
    \/ DiscoverySingleUid \/ DiscoverySend
    \/ SingleGiveUp \/ SingleSend \/ SingleAnswer \/ SingleTimeOut
    \/ DubSilence \/ DubFound \/ DubSplit
    \/ QuickGiveUp \/ QuickSend \/ QuickAnswer \/ QuickInvalid \/ QuickTimeOut
    \/ QuickDiscoveryGiveUp \/ QuickDiscoverySend \/ QuickDiscoveryFound
    \/ QuickDiscoveryCollision \/ QuickDiscoveryTimeOut
    \/ Finished

Calls ==
    \/ \E p \in Ports : Full(p) \/ Incremental(p)
    \/ Stop
    \/ IsFinished

Environment ==
    \E p \in Ports : \E d \in Devices[p] : Unplug(p, d) \/ Plug(p, d)

(* The object after its constructor.  The members that Start sets have no  *)
(* initial value in the code; here they hold what Start gives them.  Any   *)
(* of the responders may be plugged in, and still be muted from before.    *)
Init ==
    /\ state = "IDLE" /\ savedState = "IDLE"
    /\ portIndex = 0
    /\ doIncremental = FALSE /\ isFinished = FALSE
    /\ unMute = Command(UNMUTE_COUNTER)
    /\ mute = [counter |-> MUTE_COUNTER, running |-> FALSE, todEntries |-> 0,
               uid |-> UID_ALL]
    /\ stack = << >>
    /\ branch = [lower |-> FirstUid, upper |-> LastUid]
    /\ discovery = Command(DISCOVERY_COUNTER)
    /\ single = Command(MUTE_COUNTER)
    /\ quikFind = [counter |-> QUIKFIND_COUNTER, running |-> FALSE, uid |-> FirstUid]
    /\ quikFindDiscovery = Command(QUIKFIND_DISCOVERY_COUNTER)
    /\ response = NoReply
    /\ tod = [p \in Ports |-> EmptyTod]
    /\ devices \in [Ports -> SUBSET Uid]
    /\ \A p \in Ports : devices[p] \subseteq Devices[p]
    /\ muted \in [Ports -> SUBSET Uid]
    /\ \A p \in Ports : muted[p] \subseteq devices[p]
    /\ line = [p \in Ports |-> NoReply]
    /\ faults = MaxFaults
    /\ replugs = MaxReplugs

Next == Process \/ Calls \/ Environment

Spec == Init /\ [][Next]_vars

(* A caller that only starts a discovery of either kind, and only when no  *)
(* other one is running.                                                   *)
StartWhenIdle == state = "IDLE" /\ \E p \in Ports : Full(p) \/ Incremental(p)
StartsSpec == Init /\ [][Process \/ StartWhenIdle \/ Environment]_vars

(* The super-loop calls Run again and again, and its timers advance. *)
Fairness == WF_vars(Process)

-----------------------------------------------------------------------------
(* Properties.                                                             *)

(* The variables of the object hold values of their C++ types, and the      *)
(* tables unicast UIDs.                                                    *)
MachineTypeOK ==
    /\ state \in States
    /\ savedState \in States \ {"LATE_RESPONSE"}
    /\ portIndex \in Ports
    /\ doIncremental \in BOOLEAN /\ isFinished \in BOOLEAN
    /\ unMute \in [counter : Nat, running : BOOLEAN]
    /\ mute \in [counter : Nat, running : BOOLEAN, todEntries : Nat, uid : AnyUid]
    /\ stack \in Seq(Branch)
    /\ branch \in Branch
    /\ discovery \in [counter : Nat, running : BOOLEAN]
    /\ single \in [counter : Nat, running : BOOLEAN]
    /\ quikFind \in [counter : Nat, running : BOOLEAN, uid : Uid]
    /\ quikFindDiscovery \in [counter : Nat, running : BOOLEAN]
    /\ response \in Replies
    /\ tod \in [Ports -> Seq(Uid)]

LineTypeOK ==
    /\ devices \in [Ports -> SUBSET Uid]
    /\ muted \in [Ports -> SUBSET Uid]
    /\ line \in [Ports -> Replies]
    /\ faults \in 0 .. MaxFaults
    /\ replugs \in 0 .. MaxReplugs

(* Every variable has a value of its type.  The lower half that DUB pushes *)
(* and the table entry that MUTE reads are the ones that could leave it.   *)
TypeOK == MachineTypeOK /\ LineTypeOK

(* The state that Process acts in now or after LATE_RESPONSE. *)
Resumed == IF state = "LATE_RESPONSE" THEN savedState ELSE state

(* The branch in nLowerBound and nUpperBound is being searched. *)
Halving ==
    \/ Resumed \in {"DUB", "QUICKFIND", "QUICKFIND_DISCOVERY"}
    \/ Resumed = "DISCOVERY" /\ discovery.running
BranchInHand == Halving \/ Resumed = "DISCOVERY_SINGLE_DEVICE"

(* The branches on the stack and the one in hand are adjacent intervals    *)
(* that cover every UID below the part already searched, without gaps and  *)
(* without overlap: no UID is skipped and none is searched twice           *)
(* (rdmdiscovery.cpp, pop at line 381 and the two pushes at 488-489).      *)
BranchesTile ==
    /\ \A i \in 1 .. Len(stack) :
          /\ stack[i].lower <= stack[i].upper
          /\ stack[i].lower = IF i = 1 THEN FirstUid ELSE stack[i - 1].upper + 1
    /\ BranchInHand =>
          /\ branch.lower <= branch.upper
          /\ branch.lower = IF stack = << >> THEN FirstUid ELSE Top.upper + 1
    /\ Halving => branch.lower < branch.upper

(* The stack never holds more branches than a UID has bits, plus one, so   *)
(* the assert in push() is never reached with 200 places for 48 bits       *)
(* (rdmdiscovery.h, line 143).                                             *)
StackBound == Len(stack) <= UID_BITS + 1

(* The table of a port never lists a UID twice, and never a UID that no    *)
(* responder on that line has: a discovery response that noise has made up *)
(* does not enter the table before that UID acknowledges a DISC_MUTE.      *)
TodGenuine ==
    \A p \in Ports :
        /\ \A i, j \in DOMAIN tod[p] : tod[p][i] = tod[p][j] => i = j
        /\ TodUids(tod[p]) \subseteq Devices[p]

(* A discovery that reports it is finished has emptied the stack and has   *)
(* every responder on the line in the table.                               *)
FinishedComplete ==
    isFinished => /\ stack = << >>
                  /\ devices[portIndex] \subseteq TodUids(tod[portIndex])

(* Between calls, a discovery never takes a responder that is on the line  *)
(* out of the table: MUTE deletes a UID only when its responder is gone.   *)
PresentStay ==
    [][state = "MUTE" =>
          \A p \in Ports : \A d \in devices[p] \cap TodUids(tod[p]) :
              d \in TodUids(tod'[p])]_vars

(* Every discovery that is started comes back to IDLE. *)
Terminates == (state # "IDLE") ~> (state = "IDLE")
=============================================================================
