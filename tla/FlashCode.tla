----------------------------- MODULE FlashCode -------------------------------
(***************************************************************************)
(* The GD32's own flash as a store device: lib-flashcode/src/gd32/fmc/     *)
(* flashcode.cpp behind lib-configstore/device/rom/storedevice.cpp.        *)
(*                                                                         *)
(* Erase and Write are called again and again until they return TRUE;      *)
(* they share one static state machine, so a caller that changes from one  *)
(* to the other finds it where the other left it.  A device is a record;   *)
(* an operation gives the device behind the call and whether it returned   *)
(* TRUE.  The erase of a page happens at its start; the busy flag stays    *)
(* until the hardware drops it.                                            *)
(***************************************************************************)
EXTENDS Integers

CONSTANTS
    WORDS,          \* the words of the region
    PAGE_WORDS,     \* BANK0_FLASH_PAGE: the words that are erased at once,
                    \* the region is a whole number of pages
    Blank           \* an erased word, 0xFFFFFFFF

Word == 1 .. WORDS

DeviceState ==
    {"IDLE", "ERASE_BUSY", "ERASE_PROGAM", "WRITE_BUSY", "WRITE_PROGRAM"}

(* s_State, s_nPage or s_nAddress, s_nLength, the busy flag and the words. *)
PowerOn(mem) == [st |-> "IDLE", at |-> 1, length |-> 0, busy |-> FALSE, mem |-> mem]

Ready(d) == [d EXCEPT !.busy = FALSE]

Call(d, done) == [dev |-> d, done |-> done]

(* What both operations do first, from IDLE or from the other's states. *)
Start(d, st) == Call([d EXCEPT !.st = st, !.at = 1, !.length = WORDS], FALSE)
Drop(d) == Call([d EXCEPT !.st = "IDLE"], FALSE)

(* ERASE_BUSY and WRITE_BUSY: wait, finish or go on. *)
AtBusy(d, st) ==
    IF d.busy THEN Call(d, FALSE)
    ELSE IF d.length = 0 THEN Call([d EXCEPT !.st = "IDLE"], TRUE)
    ELSE Call([d EXCEPT !.st = st], FALSE)

ErasePage(d) ==
    Call([d EXCEPT !.st = "ERASE_BUSY", !.busy = TRUE,
                   !.at = @ + PAGE_WORDS, !.length = @ - PAGE_WORDS,
                   !.mem = [w \in Word |->
                              IF w \in d.at .. d.at + PAGE_WORDS - 1 THEN Blank ELSE @[w]]],
         FALSE)

(* Mutant: an erase that finds a write under way says it is done. *)
Erase_DropDone(d) ==
    CASE d.st = "IDLE" -> Start(d, "ERASE_BUSY")
      [] d.st = "ERASE_BUSY" -> AtBusy(d, "ERASE_PROGAM")
      [] d.st = "ERASE_PROGAM" -> ErasePage(d)
      [] OTHER -> Call([d EXCEPT !.st = "IDLE"], TRUE)

Erase(d) ==
    CASE d.st = "IDLE" -> Start(d, "ERASE_BUSY")
      [] d.st = "ERASE_BUSY" -> AtBusy(d, "ERASE_PROGAM")
      [] d.st = "ERASE_PROGAM" -> ErasePage(d)
      [] OTHER -> Drop(d)

(* The words come from the caller's buffer at the time of the call. *)
Program(d, data) ==
    Call([d EXCEPT !.st = "WRITE_BUSY", !.busy = TRUE,
                   !.at = @ + 1, !.length = @ - 1,
                   !.mem[d.at] = data[d.at]],
         FALSE)

Write(d, data) ==
    CASE d.st = "IDLE" -> Start(d, "WRITE_BUSY")
      [] d.st = "WRITE_BUSY" -> AtBusy(d, "WRITE_PROGRAM")
      [] d.st = "WRITE_PROGRAM" -> Program(d, data)
      [] OTHER -> Drop(d)
=============================================================================
