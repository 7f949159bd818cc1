--------------------------- MODULE MCRdmDiscovery ---------------------------
(***************************************************************************)
(* Instances of RdmDiscovery for TLC: UIDs of 3 bits, so that 7 is the     *)
(* broadcast UID and 0 .. 6 are searched.                                  *)
(***************************************************************************)
EXTENDS RdmDiscovery, FiniteSets

MCPowerOfTwo == [k \in 0 .. UID_BITS |-> 2 ^ k]

(* Three responders, two of them in adjacent leaves of the search tree. *)
MCDevices == [p \in Ports |-> {1, 4, 5}]

(* Noise: the reply is lost, unreadable, or decodes as a UID nobody has. *)
MCNoise == {NoReply, Collision, DubReply(2)}
MCUnreadable == {NoReply, Collision}

(* Two responders at first; the third one may be plugged in.               *)
PairInit == Init /\ \A p \in Ports : Cardinality(devices[p]) = 2
PairSpec == PairInit /\ [][Next]_vars

(* The super-loop goes on. *)
TerminatingSpec == StartsSpec /\ Fairness
=============================================================================
