----------------------------- MODULE MCArtNetRdm -----------------------------
(***************************************************************************)
(* Instances of ArtNetRdm for TLC: an output with two responders whose     *)
(* UIDs are neighbours, and an output with one.                            *)
(***************************************************************************)
EXTENDS ArtNetRdm

MCPowerOfTwo == [k \in 0 .. UID_BITS |-> 2 ^ k]
MCDevices == [p \in Ports |-> IF p = 0 THEN {2, 3} ELSE {1}]
MCNoise == {NoReply}

(* All responders are on their lines from the start, unmuted. *)
PluggedInit == NodeInit /\ devices = Devices /\ muted = [p \in Ports |-> {}]

PluggedSpec == PluggedInit /\ [][NodeNext]_nodeVars
LiveSpec == PluggedSpec /\ NodeFairness
=============================================================================
