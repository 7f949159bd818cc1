--------------------------- MODULE MCArtNetOutput ----------------------------
(***************************************************************************)
(* Instances of ArtNetOutput for TLC.                                      *)
(***************************************************************************)
EXTENDS ArtNetOutput, TLC

(* Each port has a Port-Address of its own. *)
OwnAddress == [p \in Ports |-> p]

(* Long frames, a short one and one without slots. *)
LongAndShort == {<<1, 0>>, <<0, 1>>, <<0>>, << >>}
OneSlot == {<<0>>, <<1>>}

(* Nothing tells one controller from another. *)
AnyController == Permutations(Controllers)

(* All ports merge in HTP mode, unless ArtAddress changes it. *)
HtpInit == Init /\ \A p \in Ports : ~port[p].ltp
HtpSpec == HtpInit /\ [][Next]_vars
=============================================================================
