---------------------------- MODULE MCE131Bridge -----------------------------
(***************************************************************************)
(* Instances of E131Bridge for TLC.                                        *)
(***************************************************************************)
EXTENDS E131Bridge, TLC

CONSTANT Single             \* the source of two universes

OwnUniverse == [p \in Ports |-> p + 1]

(* A packet of live data with a bright or a dark frame. *)
Live_(from, universe, seq, priority, frame) ==
    [from |-> from, universe |-> universe, seq |-> seq, priority |-> priority,
     kind |-> "data", force |-> FALSE, sync |-> 0, frame |-> frame]

(* For the first universe every source and number, a bright and a dark     *)
(* frame, and at the higher priority a frame without slots, previews and   *)
(* ends of streams; the second one has one source of low priority.         *)
MergePackets ==
    LET sent(senders, universe, priority, frame) ==
            { Live_(from, universe, seq, priority, frame) :
                 from \in senders, seq \in 0 .. SEQUENCE - 1 }
        first == sent(Senders, 1, 1, <<1>>)
        second == sent({Single}, 2, 1, <<1>>)
    IN  first \cup second \cup sent(Senders, 1, 1, <<0>>) \cup sent(Senders, 1, 2, << >>)
            \cup { [pkt EXCEPT !.kind = "preview"] : pkt \in first }
            \cup { [pkt EXCEPT !.kind = "terminated"] : pkt \in first \cup second }

(* Packets with and without a synchronization address and the option       *)
(* FORCE_SYNCHRONIZATION, for two universes.                               *)
SyncPackets ==
    LET sent == { Live_(from, universe, seq, 1, frame) :
                     from \in Senders, universe \in {1, 2},
                     seq \in 0 .. SEQUENCE - 1, frame \in {<<0>>, <<1>>} }
    IN  { [pkt EXCEPT !.sync = address] : pkt \in sent, address \in {0, 7} }
            \cup { [pkt EXCEPT !.force = TRUE] : pkt \in sent }

(* Nothing tells the sources of the first universe alone from each other. *)
AnySender == Permutations(Senders \ {Single})
=============================================================================
