------------------------------- MODULE RdmTod -------------------------------
(***************************************************************************)
(* The Table of Devices of one RDM port: class RDMTod of                   *)
(* lib-rdm/include/rdmtod.h.  A table is the sequence of the m_nEntries    *)
(* UIDs in m_Tod; every cell behind the last entry holds UID_ALL, as the   *)
(* constructor, Reset and Delete leave it.  The mute bits of the input     *)
(* gateway are not part of this module.                                    *)
(***************************************************************************)
EXTENDS RdmUid, Sequences

CONSTANT TOD_TABLE_SIZE     \* capacity of the table: 200 in the code

ASSUME TodAssumption == TOD_TABLE_SIZE \in Nat \ {0}

(* No entry: the table after construction and after Reset. *)
EmptyTod == << >>

TodUids(tod) == { tod[i] : i \in DOMAIN tod }

Exist(tod, uid) == uid \in TodUids(tod)

(* Mutant: AddUid does not look for the UID first. *)
AddUid_Twice(tod, uid) == IF Len(tod) = TOD_TABLE_SIZE THEN tod ELSE Append(tod, uid)

(* AddUid leaves a full table, and one that has the UID, as it was. *)
AddUid(tod, uid) ==
    IF Len(tod) = TOD_TABLE_SIZE \/ Exist(tod, uid)
    THEN tod
    ELSE Append(tod, uid)

(* The UID at a zero-based index; behind the last entry it is UID_ALL.     *)
(* The code lets nIndex = m_nEntries through its check and then copies the *)
(* unused cell, which holds UID_ALL as well.                               *)
CopyUidEntry(tod, nIndex) ==
    IF nIndex < Len(tod) THEN tod[nIndex + 1] ELSE UID_ALL

(* Delete removes the first entry that has the UID and shifts the rest.    *)
Delete(tod, uid) ==
    LET first == CHOOSE i \in DOMAIN tod :
                     tod[i] = uid /\ \A j \in DOMAIN tod : tod[j] = uid => i <= j
    IN  IF Exist(tod, uid)
        THEN [i \in 1 .. (Len(tod) - 1) |-> IF i < first THEN tod[i] ELSE tod[i + 1]]
        ELSE tod
=============================================================================
