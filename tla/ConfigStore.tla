---------------------------- MODULE ConfigStore ------------------------------
(***************************************************************************)
(* The configuration store, lib-configstore/src/configstore.cpp, with the  *)
(* super-loop's timers that drive it and the flash that keeps it.          *)
(*                                                                         *)
(* RAM and flash are sequences of words: the signature, the UTC offset,    *)
(* and for each store the word with its set list and one word of data.     *)
(* The super-loop calls one function at a time; a change sets CHANGED and  *)
(* starts a timer, and each expiry of the timer takes one step of Flash.   *)
(* The power may fail between any two steps.                               *)
(*                                                                         *)
(* The module is the NDEBUG build, the one the repository's makefiles      *)
(* make: the asserts of timer_start and timer_stop are not in it.          *)
(***************************************************************************)
EXTENDS Integers, Sequences

CONSTANTS
    STORES,         \* the number of stores
    DATA,           \* the values of a store's data
    OFFSETS,        \* the UTC offsets, 0 is one of them
    PAGE_WORDS,     \* the words of a page of the flash
    TIMERS_MAX,     \* the places in the table of timers
    OTHERS,         \* the timers of the other parts of the program
    MaxCalls,       \* bound: calls that change or delay the store
    MaxFailures     \* bound: restarts and failures of the power

VARIABLES
    ram,            \* s_ConfigStoreData
    state,          \* s_State
    timerId,        \* s_nTimerId
    flash,          \* the device, see FlashCode
    timers,         \* m_Timers, see SoftwareTimers
    nextId,         \* m_nNextId
    run,            \* the index of the loop in SoftwareTimerRun, 0: not in it
    rebooting,      \* in the loop of configstore_commit
    calls, failures

store == <<ram, state, timerId>>
wheel == <<timers, nextId, run>>
budgets == <<calls, failures>>
vars == <<ram, state, timerId, flash, timers, nextId, run, rebooting, calls, failures>>

WORDS == 2 + 2 * STORES
Blank == -1
Sig == 1

INSTANCE SoftwareTimers
Dev == INSTANCE FlashCode

Store == 1 .. STORES
SetList(s) == 2 * s + 1
Data(s) == 2 * s + 2

ASSUME ConfigAssumption ==
    /\ STORES \in Nat \ {0}
    /\ DATA \subseteq Nat \ {0}
    /\ OFFSETS \subseteq Nat /\ 0 \in OFFSETS
    /\ PAGE_WORDS \in Nat \ {0} /\ WORDS % PAGE_WORDS = 0
    /\ TIMERS_MAX \in Nat \ {0} /\ OTHERS \in 0 .. TIMERS_MAX - 1
    /\ MaxCalls \in Nat
    /\ MaxFailures \in Nat

-----------------------------------------------------------------------------
(* The constructor: what it makes of the words of the device. *)

Empty == [w \in Dev!Word |-> IF w = 1 THEN Sig ELSE 0]

NoBlank(w) == w = 2 \/ \E s \in Store : w = SetList(s)

Loaded(mem) ==
    IF mem[1] # Sig THEN Empty
    ELSE [w \in Dev!Word |-> IF mem[w] = Blank /\ NoBlank(w) THEN 0 ELSE mem[w]]

OtherTimers(first) == [i \in 1 .. OTHERS |-> Timer(1, first + i - 1, "other")]

(* The store is made first, then the parts that use the other timers. *)
PoweredOn(mem) ==
    /\ ram' = Loaded(mem)
    /\ flash' = Dev!PowerOn(mem)
    /\ IF mem[1] # Sig
       THEN /\ state' = "CHANGED" /\ timerId' = 0
            /\ timers' = <<Timer(1, 0, "config")>> \o OtherTimers(1)
            /\ nextId' = OTHERS + 1
       ELSE /\ state' = "IDLE" /\ timerId' = NoTimer
            /\ timers' = OtherTimers(0)
            /\ nextId' = OTHERS
    /\ run' = 0 /\ rebooting' = FALSE

Init ==
    /\ ram = Empty
    /\ flash = Dev!PowerOn([w \in Dev!Word |-> Blank])
    /\ state = "CHANGED" /\ timerId = 0
    /\ timers = <<Timer(1, 0, "config")>> \o OtherTimers(1)
    /\ nextId = OTHERS + 1
    /\ run = 0 /\ rebooting = FALSE
    /\ calls = 0 /\ failures = 0

-----------------------------------------------------------------------------
(* The calls of the program. *)

Idle == run = 0 /\ ~rebooting
Called == Idle /\ calls < MaxCalls /\ calls' = calls + 1

(* Mutant: the table of timers has no limit. *)
TimerStart_NoLimit(n) ==
    /\ timers' = timers \o [i \in 1 .. n |-> Timer(1, nextId + i - 1, "config")]
    /\ nextId' = nextId + n /\ timerId' = nextId + n - 1

(* timer_start, n times: every call adds a timer, the handle is the last   *)
(* one's.                                                                  *)
TimerStart(n) ==
    /\ timers' = Added(timers, n, nextId, "config")
    /\ nextId' = nextId + Len(timers') - Len(timers)
    /\ timerId' = Handle(timers, n, nextId)

(* Mutant: a change in the middle of a save lets the save go on. *)
Changed_OnlyIdle(words, n) ==
    /\ ram' = words /\ state' = IF state = "IDLE" THEN "CHANGED" ELSE state
    /\ TimerStart(n)
    /\ UNCHANGED <<flash, run, rebooting, failures>>

(* Update and ResetSetList: the words, CHANGED and the timer. *)
Changed(words, n) ==
    /\ ram' = words /\ state' = "CHANGED" /\ TimerStart(n)
    /\ UNCHANGED <<flash, run, rebooting, failures>>

(* Update of one setting, with or without its bit of the set list, or of   *)
(* a whole store, with the set list that the caller has; also the Update   *)
(* by which Copy fills a store that is empty.  Without a new word nothing  *)
(* happens.                                                                *)
Update(s, v, set) ==
    LET words == [ram EXCEPT ![Data(s)] = v, ![SetList(s)] = set]
    IN  Called /\ words # ram /\ Changed(words, 1)

ResetSetList(s) == Called /\ Changed([ram EXCEPT ![SetList(s)] = 0], 1)

(* ResetSetListAll, the factory settings: one ResetSetList per store. *)
ResetSetListAll ==
    /\ Called
    /\ Changed([w \in Dev!Word |-> IF \E s \in Store : w = SetList(s) THEN 0 ELSE ram[w]],
               STORES)

(* Mutant: the change is not noted. *)
SetEnvUtcOffset_Quiet(v) ==
    /\ Called /\ ram[2] # v
    /\ ram' = [ram EXCEPT ![2] = v]
    /\ UNCHANGED <<state, timerId, flash, wheel, rebooting, failures>>

(* SetEnvUtcOffset: CHANGED, and no timer. *)
SetEnvUtcOffset(v) ==
    /\ Called /\ ram[2] # v
    /\ ram' = [ram EXCEPT ![2] = v] /\ state' = "CHANGED"
    /\ UNCHANGED <<timerId, flash, wheel, rebooting, failures>>

(* Delay: the RDM responder answered, the write has to wait. *)
Delay ==
    /\ Called /\ state # "IDLE"
    /\ state' = "CHANGED"
    /\ UNCHANGED <<ram, timerId, flash, wheel, rebooting, failures>>

-----------------------------------------------------------------------------
(* Flash *)

(* Mutant: the words are programmed over the old ones. *)
After_NoErase == [CHANGED |-> "CHANGED_WAITING", CHANGED_WAITING |-> "WRITING",
                  ERASED_WAITING |-> "ERASED", ERASED |-> "WRITING"]

After == [CHANGED |-> "CHANGED_WAITING", CHANGED_WAITING |-> "ERASING",
          ERASED_WAITING |-> "ERASED", ERASED |-> "WRITING"]

Erasing == Dev!Erase(flash)
Writing == Dev!Write(flash, ram)

(* Mutant: the end of the erase goes unnoticed. *)
Flash_EraseForEver ==
    \/ /\ state = "IDLE" /\ UNCHANGED <<state, flash>>
    \/ /\ state \in DOMAIN After
       /\ state' = After[state] /\ UNCHANGED flash
    \/ /\ state = "ERASING" /\ flash' = Erasing.dev /\ UNCHANGED state
    \/ /\ state = "WRITING" /\ flash' = Writing.dev
       /\ state' = IF Writing.done THEN "IDLE" ELSE state

Flash ==
    \/ /\ state = "IDLE" /\ UNCHANGED <<state, flash>>
    \/ /\ state \in DOMAIN After
       /\ state' = After[state] /\ UNCHANGED flash
    \/ /\ state = "ERASING" /\ flash' = Erasing.dev
       /\ state' = IF Erasing.done THEN "ERASED_WAITING" ELSE state
    \/ /\ state = "WRITING" /\ flash' = Writing.dev
       /\ state' = IF Writing.done THEN "IDLE" ELSE state

(* Mutant: the first call of the write is taken for the last. *)
Finished_AtWrite == state \in {"IDLE", "WRITING"}

(* Flash returns FALSE: there is nothing to do, or not any more. *)
Finished == state = "IDLE" \/ (state = "WRITING" /\ Writing.done)

-----------------------------------------------------------------------------
(* SoftwareTimerRun of the super-loop. *)

RunBegin ==
    /\ Idle /\ \E i \in 1 .. Len(timers) : IsDue(timers[i])
    /\ run' = 1
    /\ UNCHANGED <<store, flash, timers, nextId, rebooting, budgets>>

Skip ==
    /\ run \in 1 .. Len(timers) /\ ~IsDue(timers[run])
    /\ run' = run + 1
    /\ UNCHANGED <<store, flash, timers, nextId, rebooting, budgets>>

Expired(callback) ==
    /\ run \in 1 .. Len(timers) /\ IsDue(timers[run])
    /\ timers[run].callback = callback
    /\ run' = run + 1
    /\ UNCHANGED <<ram, nextId, rebooting, budgets>>

(* The callback of another part, which does nothing here. *)
OtherExpired ==
    /\ Expired("other")
    /\ timers' = Rearmed(timers, run)
    /\ UNCHANGED <<state, timerId, flash>>

(* timer: a step of Flash, and timer_stop when it was the last one. *)
ConfigExpired ==
    /\ Expired("config") /\ Flash
    /\ IF Finished
       THEN /\ timers' = Rearmed(Deleted(timers, timerId), run)
            /\ timerId' = IF Holds(timers, timerId) THEN NoTimer ELSE timerId
       ELSE timers' = Rearmed(timers, run) /\ UNCHANGED timerId

RunEnd ==
    /\ run > Len(timers) /\ run' = 0
    /\ UNCHANGED <<store, flash, timers, nextId, rebooting, budgets>>

-----------------------------------------------------------------------------
(* configstore_commit before a reboot, and the power. *)

Failure == failures < MaxFailures /\ failures' = failures + 1 /\ UNCHANGED calls

Reboot ==
    /\ Idle /\ failures < MaxFailures /\ rebooting' = TRUE
    /\ UNCHANGED <<store, flash, wheel, budgets>>

CommitStep ==
    /\ rebooting /\ ~Finished /\ Flash
    /\ UNCHANGED <<ram, timerId, wheel, rebooting, budgets>>

Restart == rebooting /\ Finished /\ Failure /\ PoweredOn(Writing.dev.mem)

PowerFail == Failure /\ PoweredOn(flash.mem)

(* The flash finishes an erase or a program. *)
FlashReady ==
    /\ flash.busy /\ flash' = Dev!Ready(flash)
    /\ UNCHANGED <<store, wheel, rebooting, budgets>>

(* 100 ms pass: the interval of the store's timer. *)
Tick ==
    /\ run = 0 /\ \E i \in 1 .. Len(timers) : ~IsDue(timers[i])
    /\ timers' = Elapsed(timers)
    /\ UNCHANGED <<store, flash, nextId, run, rebooting, budgets>>

Next ==
    \/ \E s \in Store, v \in DATA, set \in {0, 1} : Update(s, v, set)
    \/ \E s \in Store : ResetSetList(s)
    \/ ResetSetListAll
    \/ \E v \in OFFSETS : SetEnvUtcOffset(v)
    \/ Delay
    \/ RunBegin \/ Skip \/ OtherExpired \/ ConfigExpired \/ RunEnd
    \/ Reboot \/ CommitStep \/ Restart \/ PowerFail
    \/ FlashReady \/ Tick

(* The super-loop runs, the clock ticks and the flash does its work. *)
Fairness ==
    /\ WF_vars(RunBegin) /\ WF_vars(Skip) /\ WF_vars(OtherExpired)
    /\ WF_vars(ConfigExpired) /\ WF_vars(RunEnd)
    /\ WF_vars(CommitStep) /\ WF_vars(Restart) /\ WF_vars(FlashReady) /\ WF_vars(Tick)

Spec == Init /\ [][Next]_vars
FairSpec == Spec /\ Fairness

-----------------------------------------------------------------------------
(* The store as its users see it. *)

Part == 0 .. STORES

(* A store whose set list is empty uses its defaults, whatever its data. *)
Seen(words) ==
    [p \in Part |-> IF p = 0 THEN words[2]
                    ELSE IF words[SetList(p)] = 0 THEN 0 ELSE words[Data(p)]]

Current == Seen(ram)
Kept == Seen(Loaded(flash.mem))

Promise == INSTANCE ConfigKept WITH
    Parts <- Part, Settings <- DATA \cup OFFSETS \cup {0, Blank},
    Default <- 0, Torn <- Blank,
    current <- Current, kept <- Kept

-----------------------------------------------------------------------------
(* Properties. *)

States == {"IDLE", "ERASING", "WRITING"} \cup DOMAIN After

(* Every variable is in its domain. *)
TypeOK ==
    /\ ram \in [Dev!Word -> DATA \cup OFFSETS \cup {Blank, 0, 1}]
    /\ state \in States
    /\ timerId \in {NoTimer} \cup 0 .. nextId - 1
    /\ flash.st \in Dev!DeviceState /\ flash.at \in 1 .. WORDS + 1
    /\ flash.length \in 0 .. WORDS /\ flash.busy \in BOOLEAN
    /\ flash.mem \in [Dev!Word -> DATA \cup OFFSETS \cup {Blank, 0, 1}]
    /\ Len(timers) \in OTHERS .. TIMERS_MAX
    /\ nextId \in Nat /\ run \in 0 .. TIMERS_MAX + 1 /\ rebooting \in BOOLEAN

(* When the state machine rests, the next start finds what the program     *)
(* uses now: no order of changes, delays, erase and program steps and      *)
(* power failures makes the store forget a change it was told of.          *)
IdleIsSaved == state = "IDLE" => Kept = Current

(* While the words are programmed, those that were are the ones in RAM and *)
(* the others are blank: a change in the middle of a write cannot mix old  *)
(* and new words, and a resumed erase leaves nothing behind.               *)
WrittenSoFar ==
    state = "WRITING" =>
        \A w \in Dev!Word :
            flash.mem[w] = IF flash.st # "IDLE" /\ w < flash.at THEN ram[w] ELSE Blank

(* A change of a store is never left without a timer that will save it,    *)
(* although the handle of the timer is lost when a second change comes     *)
(* before the first is saved; only a UTC offset can wait for a reboot.     *)
StoresHaveTimer ==
    (\A i \in 1 .. Len(timers) : timers[i].callback # "config") /\ ~rebooting =>
        \A s \in Store : Kept[s] = Current[s]

(* A word is programmed only when it is blank, which flash requires, even  *)
(* when a change turns the store from programming back to erasing.         *)
ProgramsBlank ==
    [][\A w \in Dev!Word :
          flash'.mem[w] # flash.mem[w] => Blank \in {flash.mem[w], flash'.mem[w]}]_vars

(* The store keeps what ConfigKept promises. *)
KeepsPromise == Promise!Spec

(* A change is saved in the end, when the power stays on: with a timer,    *)
(* the machine gets to its rest from every state it can be left in.        *)
ChangesSaved ==
    (state # "IDLE" /\ \E i \in 1 .. Len(timers) : timers[i].callback = "config")
        ~> state = "IDLE"
=============================================================================
