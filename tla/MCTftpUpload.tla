---------------------------- MODULE MCTftpUpload -----------------------------
(***************************************************************************)
(* Instances of TftpUpload for TLC: blocks of two bytes.                   *)
(***************************************************************************)
EXTENDS TftpUpload

CONSTANTS
    Large,      \* the client with the larger firmware
    Stranger

(* The large firmware ends with an empty block, one behind the memory. *)
MCSize == [c \in Clients |-> IF c = Large THEN 4 ELSE 3]

(* A stranger's packet is ignored, or ends the transfer: it is no data, or *)
(* data without a header, which is refused.                                *)
MCStrays == { [from |-> Stranger, op |-> op, block |-> 1, length |-> BLOCK] : op \in {"DATA", "OTHER"} }
=============================================================================
