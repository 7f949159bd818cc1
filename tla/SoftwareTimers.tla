--------------------------- MODULE SoftwareTimers ----------------------------
(***************************************************************************)
(* The table of the super-loop's timers, lib-hal/superloop/                *)
(* softwaretimers.cpp.  A table is a sequence of records; a timer keeps    *)
(* the ticks that are left until it expires in the place of the time at    *)
(* which it does, so that no clock is needed (the wrap of the clock after  *)
(* 2^32 ms is not in the model).                                           *)
(***************************************************************************)
EXTENDS Integers, Sequences, FiniteSets

CONSTANTS
    TIMERS_MAX      \* hal::SOFTWARE_TIMERS_MAX: 12

NoTimer == -1       \* TIMER_ID_NONE

Timer(interval, id, callback) ==
    [left |-> interval, interval |-> interval, id |-> id, callback |-> callback]

(* SoftwareTimerAdd, n times: the timers for which there is no place are   *)
(* not added, and the last handle is then TIMER_ID_NONE.                   *)
Added(table, n, first, callback) ==
    LET room == TIMERS_MAX - Len(table)
        added == IF n <= room THEN n ELSE room
    IN table \o [i \in 1 .. added |-> Timer(1, first + i - 1, callback)]

Handle(table, n, first) == IF Len(table) + n <= TIMERS_MAX THEN first + n - 1 ELSE NoTimer

Holds(table, id) == \E i \in 1 .. Len(table) : table[i].id = id
IndexOf(table, id) == CHOOSE i \in 1 .. Len(table) : table[i].id = id

(* SoftwareTimerDelete: the last timer takes the place of the deleted one. *)
Deleted(table, id) ==
    IF ~Holds(table, id) THEN table
    ELSE LET last == Len(table)
             moved == [table EXCEPT ![IndexOf(table, id)] = table[last]]
         IN SubSeq(moved, 1, last - 1)

(* What SoftwareTimerRun does at an index behind the callback: the slot    *)
(* may hold another timer by then, or none.                                *)
Rearmed(table, i) ==
    IF i <= Len(table) THEN [table EXCEPT ![i].left = table[i].interval] ELSE table

Elapsed(table) ==
    [i \in 1 .. Len(table) |->
        [table[i] EXCEPT !.left = IF @ = 0 THEN 0 ELSE @ - 1]]

IsDue(timer) == timer.left = 0
=============================================================================
