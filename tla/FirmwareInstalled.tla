-------------------------- MODULE FirmwareInstalled --------------------------
(***************************************************************************)
(* What an update over the network promises, whatever the network does: a  *)
(* firmware that is installed was received from its first byte to its last *)
(* one.                                                                    *)
(***************************************************************************)
CONSTANTS
    Clients,    \* each has one firmware
    None

VARIABLES
    received,   \* the firmware that is in the memory, whole
    image       \* the firmware in the flash

vars == <<received, image>>

Init == received = None /\ image = None

Receive(c) == received' = c /\ UNCHANGED image

(* The memory is given up, or overwritten by the next upload. *)
Forget == received' = None /\ UNCHANGED image

Install ==
    /\ received # None
    /\ image' = received
    /\ received' = None

Next == (\E c \in Clients : Receive(c)) \/ Forget \/ Install

Spec == Init /\ [][Next]_vars
=============================================================================
