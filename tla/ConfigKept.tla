----------------------------- MODULE ConfigKept ------------------------------
(***************************************************************************)
(* What the configuration store promises: the settings of the parts in     *)
(* RAM, and what a power cut at this moment would leave of them.  A part   *)
(* that was not saved comes back with its defaults; at most one part comes *)
(* back torn, and only a power cut shows it.                               *)
(***************************************************************************)
CONSTANTS
    Parts,      \* the stores, and the environment
    Settings,   \* what a part can look like
    Default,    \* what a part without settings looks like
    Torn        \* what a part of which only the beginning was saved looks like

VARIABLES
    current,    \* the settings the program uses
    kept        \* the settings that the next start would find

vars == <<current, kept>>

Init == kept = [p \in Parts |-> Default] /\ current = kept

(* A setting changes; nothing that is kept does. *)
Change == current' \in [Parts -> Settings] /\ UNCHANGED kept

(* Nothing is saved in place: all that is kept goes at once. *)
Drop == kept' = [p \in Parts |-> Default] /\ UNCHANGED current

(* A part is saved, as it is and nothing else, over nothing else. *)
Keep(p) ==
    /\ kept[p] \in {Default, Torn}
    /\ kept' = [kept EXCEPT ![p] = current[p]]
    /\ UNCHANGED current

Tear(p) ==
    /\ kept[p] = Default
    /\ \A q \in Parts : kept[q] = Torn => current[q] = Torn
    /\ kept' = [kept EXCEPT ![p] = Torn]
    /\ UNCHANGED current

PowerUp == current' = kept /\ UNCHANGED kept

Next ==
    \/ Change \/ Drop \/ PowerUp
    \/ \E p \in Parts : Keep(p) \/ Tear(p)

Spec == Init /\ [][Next]_vars
=============================================================================
