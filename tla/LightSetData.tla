---------------------------- MODULE LightSetData -----------------------------
(***************************************************************************)
(* The slots that one output port is to send: class lightset::Data of      *)
(* lib-lightset/include/lightsetdata.h, and the driver that puts them on   *)
(* the line, class DmxSend of lib-dmx/include/dmxsend.h.                   *)
(*                                                                         *)
(* A port's data is a record: the slots last received from source A and    *)
(* from source B, the slots to send, and how many of them count.  A packet *)
(* may be shorter than SLOTS, the slots behind it keep what they held.     *)
(* A frame is a sequence of levels; it may be empty.  Then the port has no *)
(* data to send (a debug build stops at the assertions of dmxsend.h:97 and *)
(* :108), and its transmitter sends the start code alone.                  *)
(***************************************************************************)
EXTENDS Integers, Sequences

CONSTANTS
    SLOTS,      \* dmx::UNIVERSE_SIZE: 512
    LEVELS      \* the highest level of a slot: 255

ASSUME LightSetAssumption ==
    /\ SLOTS \in Nat \ {0}
    /\ LEVELS \in Nat \ {0}

Sides == {"A", "B"}
Other(x) == IF x = "A" THEN "B" ELSE "A"

Level == 0 .. LEVELS
Universe == [1 .. SLOTS -> Level]
Dark == [i \in 1 .. SLOTS |-> 0]
Frame == UNION { [1 .. n -> Level] : n \in 0 .. SLOTS }

PortData == [A : Universe, B : Universe, out : Universe, length : 0 .. SLOTS]

(* The static storage of the ports starts as zeros. *)
NoData == [A |-> Dark, B |-> Dark, out |-> Dark, length |-> 0]

(* memcpy: the frame over the slots of an older universe. *)
Over(frame, old) == [i \in 1 .. SLOTS |-> IF i <= Len(frame) THEN frame[i] ELSE old[i]]

Higher(a, b) == IF a >= b THEN a ELSE b

(* IMergeSourceA and IMergeSourceB, with x the source that sent the frame. *)
Merge(d, x, frame, ltp) ==
    LET own == Over(frame, d[x])
        highest == [i \in 1 .. Len(frame) |-> Higher(own[i], d[Other(x)][i])]
    IN  [d EXCEPT ![x] = own,
                  !.length = Len(frame),
                  !.out = Over(IF ltp THEN frame ELSE highest, @)]

(* SetSourceA and SetSourceB merge in the LTP manner. *)
SetSource(d, x, frame) == Merge(d, x, frame, TRUE)

Clear(d) == [d EXCEPT !.out = Dark, !.length = SLOTS]

ClearLength(d) == [d EXCEPT !.length = 0]

-----------------------------------------------------------------------------
(* DmxSend.  A port is a record: the slots that its transmitter holds, and *)
(* whether it was started.                                                 *)

DmxPort == [sent : Frame, started : BOOLEAN]
NoDmx == [sent |-> << >>, started |-> FALSE]

(* Mutant: the start code is sent as the first slot. *)
Slots_StartCode(d) == <<0>> \o SubSeq(d.out, 1, d.length)

(* The slots handed to the driver: data and length of the port. *)
Slots(d) == SubSeq(d.out, 1, d.length)

Started(m) == [m EXCEPT !.started = TRUE]

(* SetData(..., doUpdate): without doUpdate nothing happens yet. *)
SetData(m, d, doUpdate) == IF doUpdate THEN [m EXCEPT !.sent = Slots(d)] ELSE m

(* Sync(nPortIndex) *)
SyncPort(m, d) == [m EXCEPT !.sent = Slots(d)]

(* What the loop of Sync() does with one port: a port whose data has a     *)
(* length is started, and its length cleared.                              *)
SyncStart(m, d) == IF d.length # 0 THEN Started(m) ELSE m
SyncClear(d) == IF d.length # 0 THEN ClearLength(d) ELSE d

(* Blackout and FullOn reach the ports whose direction Start made output. *)
FillLine(m, level) ==
    IF m.started THEN [m EXCEPT !.sent = [i \in 1 .. SLOTS |-> level]] ELSE m
=============================================================================
