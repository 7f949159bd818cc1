-------------------------- MODULE ConfigStoreProofs --------------------------
(***************************************************************************)
(* ConfigStore saves what it was told and implements ConfigKept, for any   *)
(* number of stores, size of a page, table of timers, and any number of    *)
(* changes and power failures; and a change never waits without a timer,   *)
(* although handles get lost and the table may be full.                    *)
(***************************************************************************)
EXTENDS ConfigStore, FiniteSetTheorems, TLAPS

(* What a word may hold.  A store's data is blank when its save was torn.  *)
Values(w) ==
    IF w = 1 THEN {Sig}
    ELSE IF w = 2 THEN OFFSETS
    ELSE IF \E s \in Store : w = SetList(s) THEN {0, 1}
    ELSE DATA \cup {0, Blank}

Ram == { r \in [Dev!Word -> Int] : \A w \in Dev!Word : r[w] \in Values(w) }
Mem == { m \in [Dev!Word -> Int] : \A w \in Dev!Word : m[w] \in Values(w) \cup {Blank} }

AllBlank(mem) == \A w \in Dev!Word : mem[w] = Blank

Device ==
    [st : Dev!DeviceState, at : Int, length : Int, busy : BOOLEAN, mem : Mem]

TypeInv == ram \in Ram /\ flash \in Device /\ state \in States

(* An erase goes from the first word to the last one, and so does a write. *)
DeviceInv ==
    /\ flash.st # "IDLE" => flash.at >= 1 /\ flash.at + flash.length = WORDS + 1
    /\ flash.st \in {"ERASE_BUSY", "ERASE_PROGAM"} =>
          \A w \in Dev!Word : w < flash.at => flash.mem[w] = Blank
    /\ flash.st = "WRITE_BUSY" => flash.length >= 0
    /\ flash.st = "WRITE_PROGRAM" => flash.length > 0

(* The two machines: where the store's is, the device's can only be there. *)
MachinesInv ==
    /\ state \in {"ERASED_WAITING", "ERASED"} => flash.st = "IDLE" /\ AllBlank(flash.mem)
    /\ state = "WRITING" => flash.st \in {"IDLE", "WRITE_BUSY", "WRITE_PROGRAM"}
    /\ state = "IDLE" => flash.st = "IDLE"

IInv == TypeInv /\ DeviceInv /\ MachinesInv /\ WrittenSoFar /\ IdleIsSaved

-----------------------------------------------------------------------------
(* Words. *)

LEMMA WordsOfStores ==
    /\ STORES \in Nat \ {0} /\ WORDS \in Nat /\ WORDS >= 4
    /\ Dev!Word = 1 .. WORDS
    /\ 1 \in Dev!Word /\ 2 \in Dev!Word
    /\ \A s \in Store : SetList(s) \in Dev!Word /\ Data(s) \in Dev!Word
  BY ConfigAssumption DEF WORDS, Dev!Word, Store, SetList, Data

LEMMA WordsDiffer ==
    \A s, t \in Store :
        /\ SetList(s) \notin {1, 2} /\ Data(s) \notin {1, 2}
        /\ SetList(s) # Data(t)
        /\ SetList(s) = SetList(t) => s = t
        /\ Data(s) = Data(t) => s = t
  BY ConfigAssumption DEF Store, SetList, Data

LEMMA EveryWord ==
    \A w \in Dev!Word :
        w = 1 \/ w = 2 \/ \E s \in Store : w = SetList(s) \/ w = Data(s)
<1> SUFFICES ASSUME NEW w \in Dev!Word, w # 1, w # 2
             PROVE  \E s \in Store : w = SetList(s) \/ w = Data(s)
  OBVIOUS
<1>1. w \in Int /\ w >= 3 /\ w <= 2 + 2 * STORES /\ STORES \in Nat
  BY WordsOfStores DEF WORDS
<1> DEFINE t == (w - 1) \div 2
<1>2. t \in Int /\ (w = 2 * t + 1 \/ w = 2 * t + 2)
  BY <1>1, Z3
<1>3. t \in Store
  BY <1>1, <1>2 DEF Store
<1> QED  BY <1>2, <1>3 DEF SetList, Data

LEMMA ValuesOf ==
    /\ Values(1) = {Sig} /\ Values(2) = OFFSETS
    /\ \A s \in Store : Values(SetList(s)) = {0, 1} /\ Values(Data(s)) = DATA \cup {0, Blank}
  BY WordsDiffer DEF Values

LEMMA NoBlankOf ==
    /\ ~NoBlank(1) /\ NoBlank(2)
    /\ \A s \in Store : NoBlank(SetList(s)) /\ ~NoBlank(Data(s))
  BY WordsDiffer DEF NoBlank

LEMMA ValuesAreWords ==
    \A w \in Dev!Word : Values(w) \subseteq Int /\ (NoBlank(w) => 0 \in Values(w) /\ Blank \notin Values(w))
<1> SUFFICES ASSUME NEW w \in Dev!Word
             PROVE  /\ Values(w) \subseteq Int
                    /\ NoBlank(w) => 0 \in Values(w) /\ Blank \notin Values(w)
  OBVIOUS
<1>1. CASE w = 1
  BY <1>1, ValuesOf, NoBlankOf DEF Sig
<1>2. CASE w = 2
  <2>1. 0 \in OFFSETS /\ \A v \in OFFSETS : v \in Nat
    BY ConfigAssumption
  <2>2. OFFSETS \subseteq Int /\ Blank \notin OFFSETS
    BY <2>1 DEF Blank
  <2> QED  BY <1>2, <2>1, <2>2, ValuesOf
<1>3. CASE \E s \in Store : w = SetList(s)
  BY <1>3, ValuesOf DEF Blank
<1>4. CASE \E s \in Store : w = Data(s)
  <2>1. \A v \in DATA : v \in Nat
    BY ConfigAssumption
  <2>2. DATA \cup {0, Blank} \subseteq Int
    BY <2>1 DEF Blank
  <2> QED  BY <1>4, <2>2, ValuesOf, NoBlankOf
<1> QED  BY <1>1, <1>2, <1>3, <1>4, EveryWord

(* What the constructor makes of a device is good to use, and what RAM     *)
(* holds is read back as it is.                                            *)
LEMMA EmptyType == Empty \in Ram /\ Empty \in Mem
<1>1. \A w \in Dev!Word : Empty[w] \in Values(w)
  <2>1. 0 \in OFFSETS
    BY ConfigAssumption
  <2> QED  BY <2>1, EveryWord, ValuesOf, WordsDiffer DEF Empty
<1>2. Empty \in [Dev!Word -> Int]
  BY DEF Empty, Sig
<1> QED  BY <1>1, <1>2 DEF Ram, Mem

LEMMA LoadedType ==
    ASSUME NEW m \in Mem
    PROVE  Loaded(m) \in Ram
<1>1. CASE m[1] # Sig
  BY <1>1, EmptyType DEF Loaded
<1>2. CASE m[1] = Sig
  <2> DEFINE r == [w \in Dev!Word |-> IF m[w] = Blank /\ NoBlank(w) THEN 0 ELSE m[w]]
  <2>1. Loaded(m) = r
    BY <1>2 DEF Loaded
  <2>2. ASSUME NEW w \in Dev!Word PROVE r[w] \in Values(w) /\ r[w] \in Int
    <3>1. m[w] \in Values(w) \cup {Blank}
      BY DEF Mem
    <3>2. CASE m[w] = Blank /\ ~NoBlank(w)
      <4>1. w = 1 \/ \E s \in Store : w = Data(s)
        BY <3>2, EveryWord, NoBlankOf
      <4>2. CASE w = 1
        BY <1>2, <4>2, <3>2 DEF Sig, Blank
      <4>3. CASE \E s \in Store : w = Data(s)
        BY <3>2, <4>3, ValuesOf DEF Blank
      <4> QED  BY <4>1, <4>2, <4>3
    <3>3. CASE m[w] = Blank /\ NoBlank(w)
      BY <3>3, ValuesAreWords
    <3>4. CASE m[w] # Blank
      BY <3>1, <3>4, ValuesAreWords
    <3> QED  BY <3>2, <3>3, <3>4
  <2> QED  BY <2>1, <2>2 DEF Ram
<1> QED  BY <1>1, <1>2

LEMMA LoadedRam ==
    ASSUME NEW r \in Ram
    PROVE  Loaded(r) = r
<1>1. r[1] = Sig
  BY WordsOfStores, ValuesOf DEF Ram
<1>2. \A w \in Dev!Word : ~(r[w] = Blank /\ NoBlank(w))
  BY ValuesAreWords DEF Ram
<1>3. r = [w \in Dev!Word |-> r[w]]
  BY DEF Ram
<1> QED  BY <1>1, <1>2, <1>3 DEF Loaded

(* What the parts see of a device, part by part. *)
LEMMA SeenOf ==
    ASSUME NEW m \in Mem
    PROVE  LET k == Seen(Loaded(m))
           IN  /\ m[1] # Sig => k = [p \in Part |-> 0]
               /\ m[1] = Sig =>
                    /\ k[0] = IF m[2] = Blank THEN 0 ELSE m[2]
                    /\ \A s \in Store :
                          k[s] = IF m[SetList(s)] \in {0, Blank} THEN 0 ELSE m[Data(s)]
<1>1. Part = {0} \cup Store /\ 0 \notin Store
  BY ConfigAssumption DEF Part, Store
<1>2. CASE m[1] # Sig
  <2>1. Loaded(m) = Empty
    BY <1>2 DEF Loaded
  <2>2. Empty[2] = 0 /\ \A s \in Store : Empty[SetList(s)] = 0
    BY WordsOfStores, WordsDiffer DEF Empty
  <2>3. \A p \in Part : Seen(Empty)[p] = 0
    BY <1>1, <2>2 DEF Seen
  <2>4. Seen(Empty) = [p \in Part |-> 0]
    BY <2>3 DEF Seen
  <2> QED  BY <1>2, <2>1, <2>4
<1>3. CASE m[1] = Sig
  <2> DEFINE r == [w \in Dev!Word |-> IF m[w] = Blank /\ NoBlank(w) THEN 0 ELSE m[w]]
  <2>1. Loaded(m) = r
    BY <1>3 DEF Loaded
  <2>2. r[2] = IF m[2] = Blank THEN 0 ELSE m[2]
    BY WordsOfStores, NoBlankOf
  <2>3. \A s \in Store :
           /\ r[SetList(s)] = IF m[SetList(s)] = Blank THEN 0 ELSE m[SetList(s)]
           /\ r[Data(s)] = m[Data(s)]
    BY WordsOfStores, NoBlankOf
  <2>4. Seen(r)[0] = r[2]
    BY <1>1 DEF Seen
  <2>5. \A s \in Store : Seen(r)[s] = IF r[SetList(s)] = 0 THEN 0 ELSE r[Data(s)]
    BY <1>1 DEF Seen
  <2> HIDE DEF r
  <2> QED  BY <1>3, <2>1, <2>2, <2>3, <2>4, <2>5
<1> QED  BY <1>2, <1>3

-----------------------------------------------------------------------------
(* Words that change: the calls of the program, and the flash.             *)

LEMMA RamUpdate ==
    ASSUME NEW r \in Ram, NEW w \in Dev!Word, NEW v \in Values(w)
    PROVE  [r EXCEPT ![w] = v] \in Ram
  BY ValuesAreWords DEF Ram

LEMMA CallsType ==
    ASSUME ram \in Ram
    PROVE  /\ \A s \in Store : \A v \in DATA, set \in {0, 1} :
                 [ram EXCEPT ![Data(s)] = v, ![SetList(s)] = set] \in Ram
           /\ \A s \in Store : [ram EXCEPT ![SetList(s)] = 0] \in Ram
           /\ [w \in Dev!Word |-> IF \E s \in Store : w = SetList(s) THEN 0 ELSE ram[w]] \in Ram
           /\ \A v \in OFFSETS : [ram EXCEPT ![2] = v] \in Ram
<1>1. ASSUME NEW s \in Store, NEW v \in DATA, NEW set \in {0, 1}
      PROVE  [ram EXCEPT ![Data(s)] = v, ![SetList(s)] = set] \in Ram
  <2>1. [ram EXCEPT ![Data(s)] = v] \in Ram
    BY RamUpdate, WordsOfStores, ValuesOf
  <2> QED  BY <2>1, RamUpdate, WordsOfStores, ValuesOf
<1>2. \A s \in Store : [ram EXCEPT ![SetList(s)] = 0] \in Ram
  BY RamUpdate, WordsOfStores, ValuesOf
<1>3. [w \in Dev!Word |-> IF \E s \in Store : w = SetList(s) THEN 0 ELSE ram[w]] \in Ram
  BY ValuesOf DEF Ram
<1>4. \A v \in OFFSETS : [ram EXCEPT ![2] = v] \in Ram
  BY RamUpdate, WordsOfStores, ValuesOf
<1> QED  BY <1>1, <1>2, <1>3, <1>4

(* The words that an erase leaves, and those that a program step leaves.   *)
ErasedMem ==
    [w \in Dev!Word |-> IF w \in flash.at .. flash.at + PAGE_WORDS - 1 THEN Blank
                        ELSE flash.mem[w]]
ProgramMem == [flash.mem EXCEPT ![flash.at] = ram[flash.at]]

LEMMA MemsType ==
    ASSUME ram \in Ram, flash.mem \in Mem
    PROVE  ErasedMem \in Mem /\ ProgramMem \in Mem
<1>1. \A w \in Dev!Word :
         /\ ram[w] \in Int /\ ram[w] \in Values(w)
         /\ flash.mem[w] \in Int /\ flash.mem[w] \in Values(w) \cup {Blank}
  BY DEF Ram, Mem
<1>2. ErasedMem \in Mem
  <2>1. \A w \in Dev!Word : ErasedMem[w] \in {Blank, flash.mem[w]}
    BY DEF ErasedMem
  <2>2. Blank \in Int
    BY DEF Blank
  <2>3. ErasedMem \in [Dev!Word -> Int]
    BY <1>1, <2>2 DEF ErasedMem
  <2> QED  BY <1>1, <2>1, <2>3 DEF Mem
<1>3. ProgramMem \in Mem
  <2>1. \A w \in Dev!Word : ProgramMem[w] \in {ram[w], flash.mem[w]}
    BY DEF ProgramMem, Mem
  <2>2. ProgramMem \in [Dev!Word -> Int]
    BY <1>1 DEF ProgramMem, Mem
  <2> QED  BY <1>1, <2>1, <2>2 DEF Mem
<1> QED  BY <1>2, <1>3

-----------------------------------------------------------------------------
(* One call of the device.                                                 *)

LEMMA DeviceStartsAt ==
    ASSUME NEW d \in Device, NEW st \in Dev!DeviceState, NEW at \in Int, NEW length \in Int
    PROVE  [d EXCEPT !.st = st, !.at = at, !.length = length] \in Device
  BY DEF Device

LEMMA DeviceStarts ==
    ASSUME NEW d \in Device, NEW st \in Dev!DeviceState
    PROVE  [d EXCEPT !.st = st, !.at = 1, !.length = WORDS] \in Device
<1>1. WORDS \in Int
  BY WordsOfStores
<1>2. 1 \in Int
  OBVIOUS
<1> QED  BY <1>1, <1>2, DeviceStartsAt, Zenon

LEMMA DeviceProceeds ==
    ASSUME NEW d \in Device, NEW st \in Dev!DeviceState, NEW n \in Int, NEW m \in Mem
    PROVE  [d EXCEPT !.st = st, !.busy = TRUE, !.at = @ + n, !.length = @ - n, !.mem = m]
               \in Device
<1>1. d.at + n \in Int /\ d.length - n \in Int
  BY DEF Device
<1> QED  BY <1>1 DEF Device

LEMMA DeviceProceedsByOne ==
    ASSUME NEW d \in Device, NEW st \in Dev!DeviceState, NEW m \in Mem
    PROVE  [d EXCEPT !.st = st, !.busy = TRUE, !.at = @ + 1, !.length = @ - 1, !.mem = m]
               \in Device
<1>1. d.at + 1 \in Int /\ d.length - 1 \in Int
  BY DEF Device
<1> QED  BY <1>1 DEF Device

LEMMA ErasingIs ==
    ASSUME flash \in Device
    PROVE  \/ /\ flash.st = "IDLE" /\ ~Erasing.done
              /\ Erasing.dev = [flash EXCEPT !.st = "ERASE_BUSY", !.at = 1, !.length = WORDS]
           \/ /\ flash.st = "ERASE_BUSY" /\ flash.busy /\ ~Erasing.done
              /\ Erasing.dev = flash
           \/ /\ flash.st = "ERASE_BUSY" /\ flash.length = 0 /\ Erasing.done
              /\ Erasing.dev = [flash EXCEPT !.st = "IDLE"]
           \/ /\ flash.st = "ERASE_BUSY" /\ flash.length # 0 /\ ~Erasing.done
              /\ Erasing.dev = [flash EXCEPT !.st = "ERASE_PROGAM"]
           \/ /\ flash.st = "ERASE_PROGAM" /\ ~Erasing.done
              /\ Erasing.dev = [flash EXCEPT !.st = "ERASE_BUSY", !.busy = TRUE,
                                   !.at = @ + PAGE_WORDS, !.length = @ - PAGE_WORDS,
                                   !.mem = ErasedMem]
           \/ /\ flash.st \in {"WRITE_BUSY", "WRITE_PROGRAM"} /\ ~Erasing.done
              /\ Erasing.dev = [flash EXCEPT !.st = "IDLE"]
  BY DEF Device, Dev!DeviceState, Erasing, Dev!Erase, Dev!Start, Dev!Drop, Dev!AtBusy,
         Dev!ErasePage, Dev!Call, ErasedMem

LEMMA WritingIs ==
    ASSUME flash \in Device
    PROVE  \/ /\ flash.st = "IDLE" /\ ~Writing.done
              /\ Writing.dev = [flash EXCEPT !.st = "WRITE_BUSY", !.at = 1, !.length = WORDS]
           \/ /\ flash.st = "WRITE_BUSY" /\ flash.busy /\ ~Writing.done
              /\ Writing.dev = flash
           \/ /\ flash.st = "WRITE_BUSY" /\ flash.length = 0 /\ Writing.done
              /\ Writing.dev = [flash EXCEPT !.st = "IDLE"]
           \/ /\ flash.st = "WRITE_BUSY" /\ flash.length # 0 /\ ~Writing.done
              /\ Writing.dev = [flash EXCEPT !.st = "WRITE_PROGRAM"]
           \/ /\ flash.st = "WRITE_PROGRAM" /\ ~Writing.done
              /\ Writing.dev = [flash EXCEPT !.st = "WRITE_BUSY", !.busy = TRUE,
                                   !.at = @ + 1, !.length = @ - 1, !.mem = ProgramMem]
           \/ /\ flash.st \in {"ERASE_BUSY", "ERASE_PROGAM"} /\ ~Writing.done
              /\ Writing.dev = [flash EXCEPT !.st = "IDLE"]
  BY DEF Device, Dev!DeviceState, Writing, Dev!Write, Dev!Start, Dev!Drop, Dev!AtBusy,
         Dev!Program, Dev!Call, ProgramMem

-----------------------------------------------------------------------------
(* The invariant.                                                          *)

(* What is programmed is complete when the write ends. *)
LEMMA WriteEnds ==
    ASSUME IInv, state = "WRITING", flash.st = "WRITE_BUSY", flash.length = 0
    PROVE  flash.mem = ram
<1>1. flash.at = WORDS + 1
  BY WordsOfStores DEF IInv, TypeInv, Device, DeviceInv
<1>2. \A w \in Dev!Word : w < flash.at
  BY <1>1, WordsOfStores
<1>3. \A w \in Dev!Word : flash.mem[w] = ram[w]
  BY <1>2 DEF IInv, WrittenSoFar
<1> QED  BY <1>3 DEF IInv, TypeInv, Device, Mem, Ram

LEMMA EraseInv ==
    ASSUME IInv, state = "ERASING", flash' = Erasing.dev, ram' = ram,
           state' = IF Erasing.done THEN "ERASED_WAITING" ELSE state
    PROVE  IInv'
<1>0. flash \in Device /\ ram \in Ram
  BY DEF IInv, TypeInv
<1>1. TypeInv'
  <2>1. flash.mem \in Mem /\ ErasedMem \in Mem
    BY <1>0, MemsType DEF Device
  <2>2. flash' \in Device
    <3>0. "ERASE_BUSY" \in Dev!DeviceState
      BY DEF Dev!DeviceState
    <3>1. PAGE_WORDS \in Int
      BY ConfigAssumption
    <3>2. [flash EXCEPT !.st = "ERASE_BUSY", !.busy = TRUE, !.at = @ + PAGE_WORDS,
                        !.length = @ - PAGE_WORDS, !.mem = ErasedMem] \in Device
      BY <1>0, <2>1, <3>1, <3>0, DeviceProceeds
    <3>3. [flash EXCEPT !.st = "ERASE_BUSY", !.at = 1, !.length = WORDS] \in Device
      BY <1>0, <3>0, DeviceStarts
    <3>4. /\ [flash EXCEPT !.st = "IDLE"] \in Device
          /\ [flash EXCEPT !.st = "ERASE_PROGAM"] \in Device
      BY <1>0 DEF Device, Dev!DeviceState
    <3> QED  BY <1>0, <3>2, <3>3, <3>4, ErasingIs
  <2>3. "ERASED_WAITING" \in States
    BY DEF States, After
  <2> QED  BY <1>0, <2>2, <2>3 DEF IInv, TypeInv
<1>2. DeviceInv' /\ (state' = "ERASED_WAITING" => flash'.st = "IDLE" /\ AllBlank(flash'.mem))
  <2>1. CASE flash.st = "ERASE_PROGAM"
    <3>1. flash' = [flash EXCEPT !.st = "ERASE_BUSY", !.busy = TRUE,
                       !.at = @ + PAGE_WORDS, !.length = @ - PAGE_WORDS, !.mem = ErasedMem]
          /\ ~Erasing.done
      BY <1>0, <2>1, ErasingIs
    <3>2. flash.at \in Int /\ flash.length \in Int /\ PAGE_WORDS \in Nat
      BY <1>0, ConfigAssumption DEF Device
    <3>3. flash'.at >= 1 /\ flash'.at + flash'.length = WORDS + 1
      BY <1>0, <2>1, <3>1, <3>2 DEF Device, IInv, DeviceInv
    <3>4. ASSUME NEW w \in Dev!Word, w < flash'.at PROVE flash'.mem[w] = Blank
      <4>1. flash'.mem[w] = ErasedMem[w] /\ flash'.at = flash.at + PAGE_WORDS
        BY <1>0, <3>1 DEF Device
      <4>2. w < flash.at => flash.mem[w] = Blank
        BY <2>1 DEF IInv, DeviceInv
      <4> QED  BY <3>2, <3>4, <4>1, <4>2, WordsOfStores DEF ErasedMem
    <3> QED  BY <1>0, <3>1, <3>3, <3>4 DEF Device, DeviceInv
  <2>2. CASE flash.st = "ERASE_BUSY"
    <3>1. \/ flash' = flash /\ ~Erasing.done
          \/ flash' = [flash EXCEPT !.st = "IDLE"] /\ flash.length = 0
          \/ flash' = [flash EXCEPT !.st = "ERASE_PROGAM"] /\ ~Erasing.done
      BY <1>0, <2>2, ErasingIs
    <3>2. flash.length = 0 => AllBlank(flash.mem)
      BY <1>0, <2>2, WordsOfStores DEF Device, IInv, DeviceInv, AllBlank
    <3> QED  BY <1>0, <2>2, <3>1, <3>2 DEF Device, IInv, DeviceInv
  <2>3. CASE flash.st = "IDLE"
    <3>1. flash' = [flash EXCEPT !.st = "ERASE_BUSY", !.at = 1, !.length = WORDS]
          /\ ~Erasing.done
      BY <1>0, <2>3, ErasingIs
    <3> QED  BY <1>0, <3>1, WordsOfStores DEF Device, DeviceInv
  <2>4. CASE flash.st \in {"WRITE_BUSY", "WRITE_PROGRAM"}
    <3>1. flash' = [flash EXCEPT !.st = "IDLE"] /\ ~Erasing.done
      BY <1>0, <2>4, ErasingIs
    <3> QED  BY <1>0, <3>1 DEF Device, DeviceInv
  <2> QED  BY <1>0, <2>1, <2>2, <2>3, <2>4 DEF Device, Dev!DeviceState
<1>3. MachinesInv' /\ WrittenSoFar' /\ IdleIsSaved'
  BY <1>2 DEF MachinesInv, WrittenSoFar, IdleIsSaved
<1> QED  BY <1>1, <1>2, <1>3 DEF IInv

LEMMA WriteInv ==
    ASSUME IInv, state = "WRITING", flash' = Writing.dev, ram' = ram,
           state' = IF Writing.done THEN "IDLE" ELSE state
    PROVE  IInv'
<1>0. flash \in Device /\ ram \in Ram /\ flash.st \in {"IDLE", "WRITE_BUSY", "WRITE_PROGRAM"}
  BY DEF IInv, TypeInv, MachinesInv
<1>1. TypeInv'
  <2>1. flash.mem \in Mem /\ ProgramMem \in Mem
    BY <1>0, MemsType DEF Device
  <2>2. flash' \in Device
    <3>0. "WRITE_BUSY" \in Dev!DeviceState
      BY DEF Dev!DeviceState
    <3>2. [flash EXCEPT !.st = "WRITE_BUSY", !.busy = TRUE, !.at = @ + 1,
                        !.length = @ - 1, !.mem = ProgramMem] \in Device
      BY <1>0, <2>1, <3>0, DeviceProceedsByOne
    <3>3. [flash EXCEPT !.st = "WRITE_BUSY", !.at = 1, !.length = WORDS] \in Device
      BY <1>0, <3>0, DeviceStarts
    <3>4. /\ [flash EXCEPT !.st = "IDLE"] \in Device
          /\ [flash EXCEPT !.st = "WRITE_PROGRAM"] \in Device
      BY <1>0 DEF Device, Dev!DeviceState
    <3> QED  BY <1>0, <3>2, <3>3, <3>4, WritingIs
  <2> QED  BY <1>0, <2>2 DEF TypeInv, States
<1>2. CASE flash.st = "WRITE_PROGRAM"
  <2>1. flash' = [flash EXCEPT !.st = "WRITE_BUSY", !.busy = TRUE,
                     !.at = @ + 1, !.length = @ - 1, !.mem = ProgramMem]
        /\ ~Writing.done
    BY <1>0, <1>2, WritingIs
  <2>2. flash.at \in Dev!Word
    BY <1>0, <1>2, WordsOfStores DEF Device, IInv, DeviceInv
  <2>3. DeviceInv'
    BY <1>0, <1>2, <2>1, WordsOfStores DEF Device, IInv, DeviceInv
  <2>4. WrittenSoFar'
    <3> SUFFICES ASSUME NEW w \in Dev!Word
                 PROVE  flash'.mem[w] = IF w < flash.at + 1 THEN ram[w] ELSE Blank
      BY <1>0, <2>1 DEF Device, WrittenSoFar
    <3>1. flash.mem[w] = IF w < flash.at THEN ram[w] ELSE Blank
      BY <1>2 DEF IInv, WrittenSoFar
    <3>2. flash'.mem[w] = IF w = flash.at THEN ram[w] ELSE flash.mem[w]
      BY <1>0, <2>1, <2>2 DEF Device, Mem, ProgramMem
    <3> QED  BY <2>2, <3>1, <3>2, WordsOfStores
  <2>5. MachinesInv' /\ IdleIsSaved'
    BY <1>0, <2>1 DEF Device, MachinesInv, IdleIsSaved
  <2> QED  BY <1>1, <2>3, <2>4, <2>5 DEF IInv
<1>3. CASE flash.st = "WRITE_BUSY" /\ Writing.done
  <2>1. flash' = [flash EXCEPT !.st = "IDLE"] /\ flash.length = 0
    BY <1>0, <1>3, WritingIs
  <2>2. flash'.mem = ram' /\ flash'.st = "IDLE"
    BY <1>0, <1>3, <2>1, WriteEnds DEF Device
  <2>3. Kept' = Current'
    BY <1>0, <2>2, LoadedRam DEF Kept, Current
  <2> QED  BY <1>1, <1>3, <2>2, <2>3
           DEF IInv, DeviceInv, MachinesInv, WrittenSoFar, IdleIsSaved
<1>4. CASE flash.st = "WRITE_BUSY" /\ ~Writing.done
  <2>1. flash' = flash \/ (flash' = [flash EXCEPT !.st = "WRITE_PROGRAM"] /\ flash.length # 0)
    BY <1>0, <1>4, WritingIs
  <2> QED  BY <1>0, <1>1, <1>4, <2>1
           DEF Device, IInv, DeviceInv, MachinesInv, WrittenSoFar, IdleIsSaved
<1>5. CASE flash.st = "IDLE"
  <2>1. flash' = [flash EXCEPT !.st = "WRITE_BUSY", !.at = 1, !.length = WORDS]
        /\ ~Writing.done
    BY <1>0, <1>5, WritingIs
  <2>2. \A w \in Dev!Word : flash'.mem[w] = Blank /\ ~(w < flash'.at)
    BY <1>0, <1>5, <2>1, WordsOfStores DEF Device, IInv, WrittenSoFar
  <2> QED  BY <1>0, <1>1, <2>1, <2>2, WordsOfStores
           DEF Device, IInv, DeviceInv, MachinesInv, WrittenSoFar, IdleIsSaved
<1> QED  BY <1>0, <1>2, <1>3, <1>4, <1>5

LEMMA FlashInv ==
    ASSUME IInv, Flash, ram' = ram
    PROVE  IInv'
<1>1. CASE state = "IDLE" /\ UNCHANGED <<state, flash>>
  BY <1>1 DEF IInv, TypeInv, DeviceInv, MachinesInv, WrittenSoFar, IdleIsSaved, Kept, Current
<1>2. CASE state \in DOMAIN After /\ state' = After[state] /\ UNCHANGED flash
  <2>1. state \in {"CHANGED", "CHANGED_WAITING", "ERASED_WAITING", "ERASED"}
    BY <1>2 DEF After
  <2>2. /\ state = "CHANGED" => state' = "CHANGED_WAITING"
        /\ state = "CHANGED_WAITING" => state' = "ERASING"
        /\ state = "ERASED_WAITING" => state' = "ERASED"
        /\ state = "ERASED" => state' = "WRITING"
    BY <1>2 DEF After
  <2>3. TypeInv'
    BY <1>2, <2>1, <2>2 DEF IInv, TypeInv, States, After
  <2> QED  BY <1>2, <2>1, <2>2, <2>3
           DEF IInv, DeviceInv, MachinesInv, WrittenSoFar, IdleIsSaved, AllBlank
<1>3. CASE /\ state = "ERASING" /\ flash' = Erasing.dev
           /\ state' = IF Erasing.done THEN "ERASED_WAITING" ELSE state
  BY <1>3, EraseInv
<1>4. CASE /\ state = "WRITING" /\ flash' = Writing.dev
           /\ state' = IF Writing.done THEN "IDLE" ELSE state
  BY <1>4, WriteInv
<1> QED  BY <1>1, <1>2, <1>3, <1>4 DEF Flash

LEMMA PoweredOnInv ==
    ASSUME NEW m \in Mem, PoweredOn(m)
    PROVE  IInv' /\ Current' = Seen(Loaded(m)) /\ Kept' = Seen(Loaded(m))
<1>1. ram' = Loaded(m) /\ flash' = Dev!PowerOn(m) /\ flash'.mem = m /\ flash'.st = "IDLE"
  BY DEF PoweredOn, Dev!PowerOn
<1>2. Current' = Seen(Loaded(m)) /\ Kept' = Seen(Loaded(m))
  BY <1>1 DEF Current, Kept
<1>3. state' \in {"IDLE", "CHANGED"}
  BY DEF PoweredOn
<1>4. TypeInv'
  <2>1. ram' \in Ram
    BY <1>1, LoadedType
  <2>2. flash' \in Device
    BY <1>1 DEF Device, Dev!PowerOn, Dev!DeviceState
  <2>3. state' \in States
    BY <1>3 DEF States, After
  <2> QED  BY <2>1, <2>2, <2>3 DEF TypeInv
<1>5. DeviceInv' /\ MachinesInv' /\ WrittenSoFar' /\ IdleIsSaved'
  BY <1>1, <1>2, <1>3 DEF DeviceInv, MachinesInv, WrittenSoFar, IdleIsSaved
<1> QED  BY <1>2, <1>4, <1>5 DEF IInv

(* A call changes RAM and no more, and the machine starts again. *)
LEMMA CallInv ==
    ASSUME IInv, ram' \in Ram, state' = "CHANGED", UNCHANGED flash
    PROVE  IInv'
<1>1. TypeInv'
  BY DEF IInv, TypeInv, States, After
<1>2. DeviceInv' /\ MachinesInv' /\ WrittenSoFar' /\ IdleIsSaved'
  BY DEF IInv, DeviceInv, MachinesInv, WrittenSoFar, IdleIsSaved
<1> QED  BY <1>1, <1>2 DEF IInv

LEMMA ReadyInv ==
    ASSUME IInv, FlashReady
    PROVE  IInv'
<1>1. flash \in Device /\ flash' = [flash EXCEPT !.busy = FALSE]
  BY DEF IInv, TypeInv, FlashReady, Dev!Ready
<1>2. UNCHANGED <<ram, state>>
  BY DEF FlashReady, store
<1>3. flash' \in Device /\ flash'.mem = flash.mem
      /\ UNCHANGED <<flash.st, flash.at, flash.length>>
  BY <1>1 DEF Device
<1> QED  BY <1>2, <1>3 DEF IInv, TypeInv, DeviceInv, MachinesInv, WrittenSoFar, IdleIsSaved,
            Kept, Current, AllBlank

(* The last call of Flash before a restart writes nothing more. *)
LEMMA RestartIs ==
    ASSUME IInv, Restart
    PROVE  PoweredOn(flash.mem)
<1>1. ram \in Ram /\ flash \in Device
  BY DEF IInv, TypeInv
<1>2. state = "IDLE" \/ (state = "WRITING" /\ Writing.done)
  BY DEF Restart, Finished
<1>3. flash.st \in {"IDLE", "WRITE_BUSY", "WRITE_PROGRAM"} /\ (state = "IDLE" => flash.st = "IDLE")
  BY <1>2 DEF IInv, MachinesInv
<1>4. Writing.dev.mem = flash.mem
  <2>1. \/ Writing.dev = [flash EXCEPT !.st = "WRITE_BUSY", !.at = 1, !.length = WORDS]
        \/ Writing.dev = [flash EXCEPT !.st = "IDLE"]
    BY <1>1, <1>2, <1>3, WritingIs
  <2> QED  BY <1>1, <2>1 DEF Device
<1> QED  BY <1>4 DEF Restart

(* Every step is a call, a step of Flash, the power, or nothing to RAM and *)
(* the flash.                                                              *)
LEMMA StepIs ==
    ASSUME IInv, [Next]_vars
    PROVE  \/ ram' \in Ram /\ state' = "CHANGED" /\ UNCHANGED flash
           \/ Flash /\ ram' = ram
           \/ PoweredOn(flash.mem)
           \/ FlashReady
           \/ UNCHANGED <<ram, state, flash>>
<1>0. ram \in Ram /\ flash \in Device
  BY DEF IInv, TypeInv
<1>1. CASE \E s \in Store, v \in DATA, set \in {0, 1} : Update(s, v, set)
  <2>1. PICK s \in Store, v \in DATA, set \in {0, 1} : Update(s, v, set)
    BY <1>1
  <2>2. Changed([ram EXCEPT ![Data(s)] = v, ![SetList(s)] = set], 1)
    BY <2>1 DEF Update
  <2>3. [ram EXCEPT ![Data(s)] = v, ![SetList(s)] = set] \in Ram
    BY <1>0, CallsType
  <2> QED  BY <2>2, <2>3 DEF Changed
<1>2. CASE \E s \in Store : ResetSetList(s)
  BY <1>0, <1>2, CallsType DEF ResetSetList, Changed
<1>3. CASE ResetSetListAll
  BY <1>0, <1>3, CallsType DEF ResetSetListAll, Changed
<1>4. CASE \E v \in OFFSETS : SetEnvUtcOffset(v)
  BY <1>0, <1>4, CallsType DEF SetEnvUtcOffset
<1>5. CASE Delay
  BY <1>0, <1>5 DEF Delay
<1>6. CASE RunBegin \/ Skip \/ OtherExpired \/ RunEnd \/ Reboot \/ Tick \/ UNCHANGED vars
  BY <1>6 DEF RunBegin, Skip, OtherExpired, Expired, RunEnd, Reboot, Tick, store, vars
<1>7. CASE ConfigExpired \/ CommitStep
  BY <1>7 DEF ConfigExpired, Expired, CommitStep
<1>8. CASE Restart
  BY <1>8, RestartIs
<1>9. CASE PowerFail
  BY <1>9 DEF PowerFail
<1>10. CASE FlashReady
  BY <1>10
<1> QED  BY <1>1, <1>2, <1>3, <1>4, <1>5, <1>6, <1>7, <1>8, <1>9, <1>10 DEF Next

LEMMA StepInv == IInv /\ [Next]_vars => IInv'
<1> SUFFICES ASSUME IInv, [Next]_vars PROVE IInv'
  OBVIOUS
<1>1. CASE ram' \in Ram /\ state' = "CHANGED" /\ UNCHANGED flash
  BY <1>1, CallInv
<1>2. CASE Flash /\ ram' = ram
  BY <1>2, FlashInv
<1>3. CASE PoweredOn(flash.mem)
  BY <1>3, PoweredOnInv DEF IInv, TypeInv, Device
<1>4. CASE FlashReady
  BY <1>4, ReadyInv
<1>5. CASE UNCHANGED <<ram, state, flash>>
  BY <1>5 DEF IInv, TypeInv, DeviceInv, MachinesInv, WrittenSoFar, IdleIsSaved,
              Kept, Current, AllBlank
<1> QED  BY <1>1, <1>2, <1>3, <1>4, <1>5, StepIs

LEMMA InitInv == Init => IInv
<1> SUFFICES ASSUME Init PROVE IInv
  OBVIOUS
<1> DEFINE m == [w \in Dev!Word |-> Blank]
<1>1. ram = Empty /\ flash = Dev!PowerOn(m) /\ state = "CHANGED"
  BY DEF Init
<1>2. m \in Mem
  BY DEF Mem, Blank
<1>3. flash \in Device /\ flash.st = "IDLE"
  BY <1>1, <1>2 DEF Device, Dev!PowerOn, Dev!DeviceState
<1>4. TypeInv
  BY <1>1, <1>3, EmptyType DEF TypeInv, States, After
<1> QED  BY <1>1, <1>3, <1>4 DEF IInv, DeviceInv, MachinesInv, WrittenSoFar, IdleIsSaved

LEMMA InvAlways == Spec => []IInv
  BY InitInv, StepInv, PTL DEF Spec

(* While the words are programmed, those that were are the ones in RAM and *)
(* the others are blank.                                                   *)
THEOREM WriteIsExact == Spec => []WrittenSoFar
<1>1. IInv => WrittenSoFar
  BY DEF IInv
<1> QED  BY <1>1, InvAlways, PTL

(* When the state machine rests, the next start finds what the program     *)
(* uses now.                                                               *)
THEOREM RestIsSaved == Spec => []IdleIsSaved
<1>1. IInv => IdleIsSaved
  BY DEF IInv
<1> QED  BY <1>1, InvAlways, PTL

-----------------------------------------------------------------------------
(* What a step does to the words of the flash.                             *)

LEMMA FlashMem ==
    ASSUME IInv, Flash
    PROVE  \/ flash'.mem = flash.mem
           \/ flash.st = "ERASE_PROGAM" /\ flash'.mem = ErasedMem
           \/ /\ state = "WRITING" /\ flash.st = "WRITE_PROGRAM"
              /\ flash'.mem = ProgramMem
<1>1. flash \in Device
  BY DEF IInv, TypeInv
<1>2. CASE UNCHANGED flash
  BY <1>2
<1>3. CASE state = "ERASING" /\ flash' = Erasing.dev
  BY <1>1, <1>3, ErasingIs DEF Device
<1>4. CASE state = "WRITING" /\ flash' = Writing.dev
  <2>1. flash.st \in {"IDLE", "WRITE_BUSY", "WRITE_PROGRAM"}
    BY <1>4 DEF IInv, MachinesInv
  <2> QED  BY <1>1, <1>4, <2>1, WritingIs DEF Device
<1> QED  BY <1>2, <1>3, <1>4 DEF Flash

LEMMA StepMem ==
    ASSUME IInv, [Next]_vars
    PROVE  (Flash /\ ram' = ram) \/ flash'.mem = flash.mem
<1>1. flash \in Device
  BY DEF IInv, TypeInv
<1>2. CASE PoweredOn(flash.mem)
  BY <1>2 DEF PoweredOn, Dev!PowerOn
<1>3. CASE FlashReady
  BY <1>1, <1>3 DEF FlashReady, Dev!Ready, Device
<1> QED  BY <1>2, <1>3, StepIs

(* A word is programmed only when it is blank. *)
THEOREM OnlyBlankIsProgrammed == Spec => ProgramsBlank
<1>1. ASSUME IInv, [Next]_vars
      PROVE  \A w \in Dev!Word :
                flash'.mem[w] # flash.mem[w] => Blank \in {flash.mem[w], flash'.mem[w]}
  <2> SUFFICES ASSUME NEW w \in Dev!Word, flash'.mem[w] # flash.mem[w]
               PROVE  Blank \in {flash.mem[w], flash'.mem[w]}
    OBVIOUS
  <2>1. Flash
    BY <1>1, StepMem
  <2>2. CASE flash'.mem = ErasedMem
    BY <2>2 DEF ErasedMem
  <2>3. CASE /\ state = "WRITING" /\ flash.st = "WRITE_PROGRAM"
             /\ flash'.mem = ProgramMem
    <3>1. w = flash.at
      BY <1>1, <2>3 DEF ProgramMem, IInv, TypeInv, Device, Mem
    <3>2. ~(w < flash.at)
      BY <1>1, <3>1 DEF IInv, TypeInv, Device
    <3>3. flash.mem[w] = Blank
      BY <1>1, <2>3, <3>2 DEF IInv, WrittenSoFar
    <3> QED  BY <3>3
  <2> QED  BY <1>1, <2>1, <2>2, <2>3, FlashMem
<1>2. IInv /\ [Next]_vars
      => [\A w \in Dev!Word :
             flash'.mem[w] # flash.mem[w] => Blank \in {flash.mem[w], flash'.mem[w]}]_vars
  BY <1>1
<1> QED  BY <1>2, InvAlways, PTL DEF Spec, ProgramsBlank

-----------------------------------------------------------------------------
(* The store implements ConfigKept.                                        *)

LEMMA SeenType ==
    ASSUME NEW r \in Ram
    PROVE  /\ Seen(r) \in [Part -> DATA \cup OFFSETS \cup {0, Blank}]
           /\ Seen(r)[0] = r[2]
           /\ \A s \in Store : Seen(r)[s] = IF r[SetList(s)] = 0 THEN 0 ELSE r[Data(s)]
<1>1. Part = {0} \cup Store /\ 0 \notin Store
  BY ConfigAssumption DEF Part, Store
<1>2. r[2] \in OFFSETS
  BY WordsOfStores, ValuesOf DEF Ram
<1>3. \A s \in Store : r[Data(s)] \in DATA \cup {0, Blank}
  BY WordsOfStores, ValuesOf DEF Ram
<1>4. Seen(r)[0] = r[2] /\ \A s \in Store : Seen(r)[s] = IF r[SetList(s)] = 0 THEN 0 ELSE r[Data(s)]
  BY <1>1 DEF Seen
<1>5. \A q \in Part : Seen(r)[q] \in DATA \cup OFFSETS \cup {0, Blank}
  BY <1>1, <1>2, <1>3, <1>4
<1>6. Seen(r) = [q \in Part |-> Seen(r)[q]]
  BY DEF Seen
<1> QED  BY <1>4, <1>5, <1>6

(* A device on which the words below n were written: a part behind them is *)
(* kept, the one in the middle is torn, unless it has no settings.         *)
LEMMA KeptSoFar ==
    ASSUME NEW r \in Ram, NEW m \in Mem, NEW n \in Int, n > 1,
           \A w \in Dev!Word : m[w] = IF w < n THEN r[w] ELSE Blank
    PROVE  LET k == Seen(Loaded(m))
           IN  /\ k[0] = IF n > 2 THEN Seen(r)[0] ELSE 0
               /\ \A s \in Store :
                     k[s] = IF n > Data(s) THEN Seen(r)[s]
                            ELSE IF n > SetList(s) /\ r[SetList(s)] # 0 THEN Blank ELSE 0
<1>1. m[1] = Sig
  BY WordsOfStores, ValuesOf DEF Ram
<1>2. m[2] = IF n > 2 THEN r[2] ELSE Blank
  BY WordsOfStores
<1>3. r[2] # Blank
  BY WordsOfStores, ValuesAreWords, NoBlankOf DEF Ram
<1>4. Seen(Loaded(m))[0] = IF n > 2 THEN Seen(r)[0] ELSE 0
  BY <1>1, <1>2, <1>3, SeenOf, SeenType
<1>5. ASSUME NEW s \in Store
      PROVE  Seen(Loaded(m))[s] = IF n > Data(s) THEN Seen(r)[s]
                 ELSE IF n > SetList(s) /\ r[SetList(s)] # 0 THEN Blank ELSE 0
  <2>1. Seen(Loaded(m))[s] = IF m[SetList(s)] \in {0, Blank} THEN 0 ELSE m[Data(s)]
    BY <1>1, SeenOf
  <2>2. /\ m[SetList(s)] = IF n > SetList(s) THEN r[SetList(s)] ELSE Blank
        /\ m[Data(s)] = IF n > Data(s) THEN r[Data(s)] ELSE Blank
    BY WordsOfStores DEF SetList, Data, Store
  <2>3. r[SetList(s)] # Blank
    BY WordsOfStores, ValuesAreWords, NoBlankOf DEF Ram
  <2>4. Seen(r)[s] = IF r[SetList(s)] = 0 THEN 0 ELSE r[Data(s)]
    BY SeenType
  <2>5. n > Data(s) => n > SetList(s)
    BY DEF SetList, Data, Store
  <2> QED  BY <2>1, <2>2, <2>3, <2>4, <2>5
<1> QED  BY <1>4, <1>5

LEMMA EraseKeeps ==
    ASSUME IInv, flash.st = "ERASE_PROGAM", flash'.mem = ErasedMem, ram' = ram
    PROVE  Promise!Drop
<1>1. flash.mem \in Mem /\ ram \in Ram /\ flash.at \in Int
  BY DEF IInv, TypeInv, Device
<1>2. ErasedMem \in Mem
  BY <1>1, MemsType
<1>3. ErasedMem[1] = Blank
  <2>1. flash.at >= 1 /\ (1 < flash.at => flash.mem[1] = Blank)
    BY WordsOfStores DEF IInv, DeviceInv
  <2>2. 1 < flash.at \/ 1 \in flash.at .. flash.at + PAGE_WORDS - 1
    BY <1>1, <2>1, ConfigAssumption
  <2> QED  BY <2>1, <2>2, WordsOfStores DEF ErasedMem
<1>4. Seen(Loaded(ErasedMem)) = [q \in Part |-> 0]
  BY <1>2, <1>3, SeenOf DEF Sig, Blank
<1> QED  BY <1>4 DEF Promise!Drop, Current, Kept

LEMMA ProgramKeeps ==
    ASSUME IInv, state = "WRITING", flash.st = "WRITE_PROGRAM",
           flash'.mem = ProgramMem, ram' = ram
    PROVE  Promise!Next \/ UNCHANGED <<Current, Kept>>
<1> DEFINE at == flash.at
           m == flash.mem
           n == ProgramMem
           k == Seen(Loaded(m))
           l == Seen(Loaded(n))
           c == Seen(ram)
<1>1. /\ m \in Mem /\ n \in Mem /\ ram \in Ram /\ at \in Int
  BY MemsType DEF IInv, TypeInv, Device
<1>2. at \in Dev!Word
  BY WordsOfStores DEF IInv, TypeInv, Device, DeviceInv
<1>3. \A w \in Dev!Word : m[w] = IF w < at THEN ram[w] ELSE Blank
  BY DEF IInv, WrittenSoFar
<1>4. \A w \in Dev!Word : n[w] = IF w < at + 1 THEN ram[w] ELSE Blank
  <2> SUFFICES ASSUME NEW w \in Dev!Word
               PROVE  n[w] = IF w < at + 1 THEN ram[w] ELSE Blank
    OBVIOUS
  <2>1. n[w] = IF w = at THEN ram[w] ELSE m[w]
    BY <1>1, <1>2 DEF Mem, ProgramMem
  <2> QED  BY <1>1, <1>2, <1>3, <2>1, WordsOfStores
<1>5. Part = {0} \cup Store /\ 0 \notin Store
  BY ConfigAssumption DEF Part, Store
<1>6. /\ k = [q \in Part |-> k[q]] /\ l = [q \in Part |-> l[q]]
      /\ Current = c /\ Current' = c /\ Kept = k /\ Kept' = l
  BY DEF Seen, Current, Kept
<1> HIDE DEF m, n, k, l, c, at
<1>7. at > 1 => k[0] = IF at > 2 THEN c[0] ELSE 0
  BY <1>1, <1>3, KeptSoFar DEF k, c
<1>8. at = 1 => k = [q \in Part |-> 0]
  BY <1>1, <1>3, WordsOfStores, SeenOf DEF k, Sig, Blank
<1>9. \A s \in Store :
        at > 1 =>
         /\ k[s] = IF at > Data(s) THEN c[s]
                   ELSE IF at > SetList(s) /\ ram[SetList(s)] # 0 THEN Blank ELSE 0
  BY <1>1, <1>3, KeptSoFar DEF k, c
<1>10. /\ l[0] = IF at + 1 > 2 THEN c[0] ELSE 0
       /\ \A s \in Store :
            l[s] = IF at + 1 > Data(s) THEN c[s]
                   ELSE IF at + 1 > SetList(s) /\ ram[SetList(s)] # 0 THEN Blank ELSE 0
  BY <1>1, <1>2, <1>4, WordsOfStores, KeptSoFar DEF l, c
<1>11. CASE at = 1
  <2>1. \A q \in Part : l[q] = 0
    BY <1>5, <1>10, <1>11 DEF SetList, Data, Store
  <2>2. k = l
    BY <1>6, <1>8, <1>11, <2>1
  <2> QED  BY <1>6, <2>2
<1>12. CASE at = 2
  <2>1. \A s \in Store : k[s] = 0 /\ l[s] = 0
    BY <1>9, <1>10, <1>12 DEF SetList, Data, Store
  <2>2. k[0] = 0 /\ l[0] = c[0]
    BY <1>7, <1>10, <1>12
  <2>3. l = [k EXCEPT ![0] = c[0]]
    BY <1>5, <1>6, <2>1, <2>2
  <2>4. Promise!Keep(0)
    BY <1>6, <2>2, <2>3 DEF Promise!Keep
  <2> QED  BY <1>5, <2>4 DEF Promise!Next
<1>13. CASE \E s \in Store : at = SetList(s)
  <2> PICK s \in Store : at = SetList(s)
    BY <1>13
  <2>1. at > 2 /\ at < Data(s)
    BY DEF SetList, Data, Store
  <2>2. \A t \in Store \ {s} : l[t] = k[t] /\ (k[t] = Blank => c[t] = Blank)
    <3> SUFFICES ASSUME NEW t \in Store \ {s}
                 PROVE  l[t] = k[t] /\ (k[t] = Blank => c[t] = Blank)
      OBVIOUS
    <3>1. at # SetList(t) /\ at # Data(t) /\ (at > SetList(t) => at > Data(t))
      BY DEF SetList, Data, Store
    <3>2. at + 1 > Data(t) <=> at > Data(t)
      BY <1>1, <3>1 DEF Data, Store
    <3>3. at + 1 > SetList(t) <=> at > SetList(t)
      BY <1>1, <3>1 DEF SetList, Store
    <3> QED  BY <1>1, <1>9, <1>10, <2>1, <3>1, <3>2, <3>3 DEF Blank
  <2>3. k[0] = c[0] /\ l[0] = c[0] /\ c[0] # Blank
    <3>1. c[0] = ram[2] /\ ram[2] # Blank
      BY <1>1, SeenType, WordsOfStores, ValuesAreWords, NoBlankOf DEF c, Ram
    <3> QED  BY <1>1, <1>7, <1>10, <2>1, <3>1
  <2>4. k[s] = 0 /\ l[s] = IF ram[SetList(s)] # 0 THEN Blank ELSE 0
    BY <1>1, <1>9, <1>10, <2>1 DEF SetList, Data, Store
  <2>5. CASE ram[SetList(s)] = 0
    <3>1. \A q \in Part : l[q] = k[q]
      BY <1>5, <2>2, <2>3, <2>4, <2>5
    <3> QED  BY <1>6, <3>1
  <2>6. CASE ram[SetList(s)] # 0
    <3>1. l = [k EXCEPT ![s] = Blank]
      BY <1>5, <1>6, <2>2, <2>3, <2>4, <2>6
    <3>2. \A q \in Part : k[q] = Blank => c[q] = Blank
      BY <1>5, <2>2, <2>3, <2>4 DEF Blank
    <3>3. Promise!Tear(s)
      BY <1>6, <2>4, <3>1, <3>2 DEF Promise!Tear
    <3> QED  BY <1>5, <3>3 DEF Promise!Next
  <2> QED  BY <2>5, <2>6
<1>14. CASE \E s \in Store : at = Data(s)
  <2> PICK s \in Store : at = Data(s)
    BY <1>14
  <2>1. at > 2 /\ at > SetList(s)
    BY DEF SetList, Data, Store
  <2>2. \A t \in Store \ {s} : l[t] = k[t]
    <3> SUFFICES ASSUME NEW t \in Store \ {s} PROVE l[t] = k[t]
      OBVIOUS
    <3>1. at # SetList(t) /\ at # Data(t)
      BY DEF SetList, Data, Store
    <3>2. at + 1 > Data(t) <=> at > Data(t)
      BY <1>1, <3>1 DEF Data, Store
    <3>3. at + 1 > SetList(t) <=> at > SetList(t)
      BY <1>1, <3>1 DEF SetList, Store
    <3> QED  BY <1>1, <1>9, <1>10, <2>1, <3>2, <3>3
  <2>3. k[0] = c[0] /\ l[0] = c[0]
    BY <1>1, <1>7, <1>10, <2>1
  <2>4. k[s] \in {0, Blank} /\ l[s] = c[s]
    BY <1>1, <1>9, <1>10, <2>1 DEF SetList, Data, Store
  <2>5. l = [k EXCEPT ![s] = c[s]]
    BY <1>5, <1>6, <2>2, <2>3, <2>4
  <2>6. Promise!Keep(s)
    BY <1>6, <2>4, <2>5 DEF Promise!Keep
  <2> QED  BY <1>5, <2>6 DEF Promise!Next
<1> QED  BY <1>2, <1>11, <1>12, <1>13, <1>14, EveryWord

LEMMA CallKeeps ==
    ASSUME IInv, ram' \in Ram, UNCHANGED flash
    PROVE  Promise!Change
<1>1. Current' = Seen(ram') /\ Kept' = Kept
  BY DEF Current, Kept
<1>2. Seen(ram') \in [Part -> DATA \cup OFFSETS \cup {0, Blank}]
  BY SeenType
<1> QED  BY <1>1, <1>2 DEF Promise!Change

LEMMA InitKeeps == Init => Promise!Init
<1> SUFFICES ASSUME Init PROVE Promise!Init
  OBVIOUS
<1> DEFINE m == [w \in Dev!Word |-> Blank]
<1>1. ram = Empty /\ flash.mem = m
  BY DEF Init, Dev!PowerOn
<1>2. m \in Mem /\ m[1] # Sig
  BY WordsOfStores DEF Mem, Blank, Sig
<1>3. Loaded(m) = Empty
  BY <1>2 DEF Loaded
<1>4. Seen(Loaded(m)) = [q \in Part |-> 0]
  BY <1>2, SeenOf
<1> QED  BY <1>1, <1>3, <1>4 DEF Promise!Init, Current, Kept

LEMMA StepKeeps == IInv /\ [Next]_vars => [Promise!Next]_(Promise!vars)
<1> SUFFICES ASSUME IInv, [Next]_vars
             PROVE  Promise!Next \/ UNCHANGED <<Current, Kept>>
  BY DEF Promise!vars
<1>1. CASE ram' \in Ram /\ UNCHANGED flash
  BY <1>1, CallKeeps DEF Promise!Next
<1>2. CASE Flash /\ ram' = ram
  <2>1. CASE flash'.mem = flash.mem
    BY <1>2, <2>1 DEF Current, Kept
  <2>2. CASE flash.st = "ERASE_PROGAM" /\ flash'.mem = ErasedMem
    BY <1>2, <2>2, EraseKeeps DEF Promise!Next
  <2>3. CASE state = "WRITING" /\ flash.st = "WRITE_PROGRAM" /\ flash'.mem = ProgramMem
    BY <1>2, <2>3, ProgramKeeps
  <2> QED  BY <1>2, <2>1, <2>2, <2>3, FlashMem
<1>3. CASE PoweredOn(flash.mem)
  <2>1. Current' = Kept /\ Kept' = Kept
    BY <1>3, PoweredOnInv DEF IInv, TypeInv, Device, Kept
  <2> QED  BY <2>1 DEF Promise!PowerUp, Promise!Next
<1>4. CASE FlashReady
  <2>1. flash'.mem = flash.mem /\ ram' = ram
    BY <1>4 DEF IInv, TypeInv, Device, FlashReady, Dev!Ready, store
  <2> QED  BY <2>1 DEF Current, Kept
<1>5. CASE UNCHANGED <<ram, state, flash>>
  BY <1>5 DEF Current, Kept
<1> QED  BY <1>1, <1>2, <1>3, <1>4, <1>5, StepIs

(* The store implements ConfigKept: whatever the order of changes, steps   *)
(* of the save and power failures, nothing is saved that was not set, no   *)
(* part is overwritten in place, and at most one part is torn.             *)
THEOREM StoreKeepsPromise == Spec => KeepsPromise
  BY InitKeeps, StepKeeps, InvAlways, PTL DEF Spec, KeepsPromise, Promise!Spec

-----------------------------------------------------------------------------
(* The timers: no other part of the program loses one to the store.        *)

Timers == [left : Int, interval : Int, id : Int, callback : {"config", "other"}]

(* The same timers, whatever time they have left. *)
SameTimers(t, u) ==
    /\ u \in Seq(Timers) /\ Len(u) = Len(t)
    /\ \A i \in 1 .. Len(t) : u[i].id = t[i].id /\ u[i].callback = t[i].callback

-----------------------------------------------------------------------------
(* What the operations of SoftwareTimers make of a table.                  *)

LEMMA RearmedIs ==
    ASSUME NEW t \in Seq(Timers), NEW i \in Nat \ {0}
    PROVE  SameTimers(t, Rearmed(t, i))
<1>1. CASE i <= Len(t)
  <2> DEFINE e == [t[i] EXCEPT !.left = t[i].interval]
             u == [t EXCEPT ![i] = e]
  <2>1. i \in 1 .. Len(t) /\ t[i] \in Timers
    BY <1>1
  <2>2. e \in Timers /\ e.id = t[i].id /\ e.callback = t[i].callback
    BY <2>1 DEF Timers
  <2>3. Rearmed(t, i) = u
    BY <1>1 DEF Rearmed
  <2> HIDE DEF e
  <2>4. u \in Seq(Timers) /\ Len(u) = Len(t)
    BY <2>1, <2>2
  <2>5. \A j \in 1 .. Len(t) : u[j] = IF j = i THEN e ELSE t[j]
    BY <2>1
  <2> HIDE DEF u
  <2> QED  BY <2>2, <2>3, <2>4, <2>5 DEF SameTimers
<1>2. CASE ~(i <= Len(t))
  BY <1>2 DEF Rearmed, SameTimers
<1> QED  BY <1>1, <1>2

LEMMA ElapsedIs ==
    ASSUME NEW t \in Seq(Timers)
    PROVE  SameTimers(t, Elapsed(t))
<1> DEFINE e(i) == [t[i] EXCEPT !.left = IF t[i].left = 0 THEN 0 ELSE t[i].left - 1]
           u == [i \in 1 .. Len(t) |-> e(i)]
<1>1. \A i \in 1 .. Len(t) : e(i) \in Timers /\ e(i).id = t[i].id /\ e(i).callback = t[i].callback
  <2> SUFFICES ASSUME NEW i \in 1 .. Len(t)
               PROVE  e(i) \in Timers /\ e(i).id = t[i].id /\ e(i).callback = t[i].callback
    OBVIOUS
  <2> DEFINE x == IF t[i].left = 0 THEN 0 ELSE t[i].left - 1
  <2>1. t[i] \in Timers
    OBVIOUS
  <2>2. x \in Int
    BY <2>1 DEF Timers
  <2> HIDE DEF x
  <2>3. [t[i] EXCEPT !.left = x] \in Timers
        /\ [t[i] EXCEPT !.left = x].id = t[i].id
        /\ [t[i] EXCEPT !.left = x].callback = t[i].callback
    BY <2>1, <2>2 DEF Timers
  <2> QED  BY <2>3 DEF x
<1>2. Elapsed(t) = u
  BY DEF Elapsed
<1> HIDE DEF e
<1>3. u \in Seq(Timers) /\ Len(u) = Len(t)
  BY <1>1
<1> QED  BY <1>1, <1>2, <1>3 DEF SameTimers

LEMMA DeletedIs ==
    ASSUME NEW t \in Seq(Timers), NEW id, Holds(t, id)
    PROVE  LET u == Deleted(t, id)
           IN  /\ u \in Seq(Timers) /\ Len(u) = Len(t) - 1
               /\ \E k \in 1 .. Len(t) :
                     /\ t[k].id = id
                     /\ \A i \in 1 .. Len(u) : u[i] = IF i = k THEN t[Len(t)] ELSE t[i]
<1> DEFINE k == IndexOf(t, id)
           moved == [t EXCEPT ![k] = t[Len(t)]]
           u == SubSeq(moved, 1, Len(t) - 1)
<1>1. k \in 1 .. Len(t) /\ t[k].id = id
  BY DEF Holds, IndexOf
<1>2. Deleted(t, id) = u
  BY DEF Deleted
<1> HIDE DEF k
<1>3. moved \in Seq(Timers) /\ Len(moved) = Len(t)
      /\ \A i \in 1 .. Len(t) : moved[i] = IF i = k THEN t[Len(t)] ELSE t[i]
  BY <1>1
<1> HIDE DEF moved
<1>4. u \in Seq(Timers) /\ Len(u) = Len(t) - 1 /\ \A i \in 1 .. Len(u) : u[i] = moved[i]
  BY <1>1, <1>3
<1> HIDE DEF u
<1> QED  BY <1>1, <1>2, <1>3, <1>4

LEMMA AddedIs ==
    ASSUME NEW t \in Seq(Timers), Len(t) <= TIMERS_MAX, NEW n \in Nat, NEW first \in Int
    PROVE  LET u == Added(t, n, first, "config")
               added == IF n <= TIMERS_MAX - Len(t) THEN n ELSE TIMERS_MAX - Len(t)
           IN  /\ u \in Seq(Timers) /\ Len(u) = Len(t) + added
               /\ \A i \in 1 .. Len(t) : u[i] = t[i]
               /\ \A i \in 1 .. added : u[Len(t) + i].id = first + i - 1
                                        /\ u[Len(t) + i].callback = "config"
<1> DEFINE added == IF n <= TIMERS_MAX - Len(t) THEN n ELSE TIMERS_MAX - Len(t)
           e(i) == Timer(1, first + i - 1, "config")
           v == [i \in 1 .. added |-> e(i)]
<1>1. added \in Nat
  BY ConfigAssumption
<1>2. \A i \in 1 .. added : e(i) \in Timers /\ e(i).id = first + i - 1 /\ e(i).callback = "config"
  BY <1>1 DEF Timers, Timer
<1>3. Added(t, n, first, "config") = t \o v
  BY DEF Added
<1> HIDE DEF added, e
<1>4. v \in Seq(Timers) /\ Len(v) = added
  BY <1>1, <1>2
<1>5. \A i \in 1 .. added : v[i] = e(i)
  OBVIOUS
<1> HIDE DEF v
<1>6. /\ t \o v \in Seq(Timers) /\ Len(t \o v) = Len(t) + added
      /\ \A i \in 1 .. Len(t) : (t \o v)[i] = t[i]
      /\ \A i \in 1 .. added : (t \o v)[Len(t) + i] = v[i]
  BY <1>1, <1>4
<1> QED  BY <1>2, <1>3, <1>5, <1>6 DEF added

-----------------------------------------------------------------------------
(* A table of timers: the other parts have one place each, under handles   *)
(* that the store never has, and no two timers share a handle.             *)

Others(first) == first .. first + OTHERS - 1

TableInv(t, next, first) ==
    /\ t \in Seq(Timers) /\ Len(t) <= TIMERS_MAX
    /\ next \in Int /\ first + OTHERS <= next
    /\ \A i \in 1 .. Len(t) : /\ 0 <= t[i].id /\ t[i].id < next
                              /\ t[i].callback = "other" <=> t[i].id \in Others(first)
    /\ \A i, j \in 1 .. Len(t) : t[i].id = t[j].id => i = j
    /\ \A k \in Others(first) : \E i \in 1 .. Len(t) : t[i].id = k

HasTimer(t) == \E i \in 1 .. Len(t) : t[i].callback = "config"

HandleInv(id, next, first) == id \in {NoTimer} \cup 0 .. next - 1 /\ id \notin Others(first)

LEMMA SameInv ==
    ASSUME NEW t, NEW u, NEW next, NEW first \in {0, 1},
           TableInv(t, next, first), SameTimers(t, u)
    PROVE  TableInv(u, next, first) /\ (HasTimer(t) => HasTimer(u))
<1>1. Len(t) \in Nat /\ Len(u) = Len(t)
  BY DEF TableInv, SameTimers
<1> QED  BY <1>1 DEF TableInv, SameTimers, HasTimer

(* Of the other parts' timers there are as many as ever. *)
LEMMA OthersStay ==
    ASSUME NEW t, NEW next, NEW first \in {0, 1}, TableInv(t, next, first)
    PROVE  OTHERS <= Len(t) /\ (Len(t) = TIMERS_MAX => HasTimer(t))
<1> DEFINE S == Others(first)
           I == 1 .. Len(t)
<1>1. /\ OTHERS \in Nat /\ OTHERS < TIMERS_MAX /\ Len(t) \in Nat
      /\ IsFiniteSet(S) /\ IsFiniteSet(I)
      /\ Cardinality(S) = OTHERS /\ Cardinality(I) = Len(t)
  <2>1. OTHERS \in Nat /\ OTHERS < TIMERS_MAX /\ TIMERS_MAX \in Nat /\ Len(t) \in Nat
    BY ConfigAssumption DEF TableInv
  <2>2. \A a, b \in Int : /\ IsFiniteSet(a .. b)
                          /\ Cardinality(a .. b) = IF a > b THEN 0 ELSE b - a + 1
    BY FS_Interval
  <2>3. IsFiniteSet(I) /\ Cardinality(I) = Len(t)
    <3>1. 1 \in Int /\ Len(t) \in Int
      BY <2>1
    <3>2. IsFiniteSet(I) /\ Cardinality(I) = IF 1 > Len(t) THEN 0 ELSE Len(t) - 1 + 1
      <4> DEFINE a == 1
                 b == Len(t)
      <4>1. a \in Int /\ b \in Int
        BY <3>1
      <4> HIDE DEF a, b
      <4>2. IsFiniteSet(a .. b) /\ Cardinality(a .. b) = IF a > b THEN 0 ELSE b - a + 1
        BY <2>2, <4>1
      <4> QED  BY <4>2 DEF a, b
    <3>3. (IF 1 > Len(t) THEN 0 ELSE Len(t) - 1 + 1) = Len(t)
      BY <2>1
    <3> QED  BY <3>2, <3>3
  <2>4. IsFiniteSet(S) /\ Cardinality(S) = OTHERS
    <3> DEFINE b == first + OTHERS - 1
    <3>1. first \in Int /\ b \in Int
      BY <2>1
    <3>2. IsFiniteSet(first .. b) /\ Cardinality(first .. b) = IF first > b THEN 0 ELSE b - first + 1
      <4> HIDE DEF b
      <4> QED  BY <2>2, <3>1
    <3>3. (IF first > b THEN 0 ELSE b - first + 1) = OTHERS
      BY <2>1
    <3> QED  BY <3>2, <3>3 DEF Others
  <2> QED  BY <2>1, <2>3, <2>4
<1>2. OTHERS <= Len(t)
  <2> SUFFICES ASSUME Len(t) < OTHERS PROVE FALSE
    BY <1>1
  <2> DEFINE f == [k \in S |-> CHOOSE i \in I : t[i].id = k]
  <2>1. \A k \in S : f[k] \in I /\ t[f[k]].id = k
    BY DEF TableInv
  <2>2. f \in [S -> I]
    BY <2>1
  <2> HIDE DEF f
  <2>3. \E k, l \in S : k # l /\ f[k] = f[l]
    <3> HIDE DEF S, I
    <3> QED  BY <1>1, <2>2, FS_PigeonHole
  <2> QED  BY <2>1, <2>3
<1>3. ASSUME Len(t) = TIMERS_MAX, ~HasTimer(t) PROVE FALSE
  <2> DEFINE f == [i \in I |-> t[i].id]
  <2>1. \A i \in I : t[i].callback \in {"config", "other"}
    <3>1. \A i \in I : t[i] \in Timers
      BY DEF TableInv
    <3> QED  BY <3>1 DEF Timers
  <2>2. \A i \in I : t[i].id \in S
    BY <1>3, <2>1 DEF TableInv, HasTimer
  <2>3. f \in [I -> S]
    BY <2>2
  <2> HIDE DEF f
  <2>4. \E i, j \in I : i # j /\ f[i] = f[j]
    <3> HIDE DEF S, I
    <3> QED  BY <1>1, <1>3, <2>3, FS_PigeonHole
  <2> QED  BY <2>4 DEF f, TableInv
<1> QED  BY <1>2, <1>3

LEMMA DeletedInv ==
    ASSUME NEW t, NEW next, NEW first \in {0, 1}, TableInv(t, next, first),
           NEW id, id \notin Others(first)
    PROVE  TableInv(Deleted(t, id), next, first)
<1>1. CASE ~Holds(t, id)
  BY <1>1 DEF Deleted
<1>2. CASE Holds(t, id)
  <2> DEFINE u == Deleted(t, id)
             n == Len(t)
  <2>1. t \in Seq(Timers) /\ n \in Nat
    BY DEF TableInv
  <2>2. u \in Seq(Timers) /\ Len(u) = n - 1
    BY <1>2, <2>1, DeletedIs
  <2>3. PICK k \in 1 .. n : t[k].id = id /\ \A i \in 1 .. Len(u) : u[i] = IF i = k THEN t[n] ELSE t[i]
    BY <1>2, <2>1, DeletedIs
  <2> DEFINE from(i) == IF i = k THEN n ELSE i
  <2> HIDE DEF u, n
  <2>4. \A i \in 1 .. Len(u) : from(i) \in 1 .. n /\ u[i] = t[from(i)]
    BY <2>1, <2>2, <2>3
  <2>5. \A i, j \in 1 .. Len(u) : from(i) = from(j) => i = j
    BY <2>1, <2>2
  <2>6. \A j \in 1 .. n : j # k => \E i \in 1 .. Len(u) : from(i) = j
    <3> SUFFICES ASSUME NEW j \in 1 .. n, j # k PROVE \E i \in 1 .. Len(u) : from(i) = j
      OBVIOUS
    <3>1. CASE j = n
      <4>1. k \in 1 .. Len(u) /\ from(k) = j
        BY <2>1, <2>2, <3>1
      <4> QED  BY <4>1
    <3>2. CASE j # n
      <4>1. j \in 1 .. Len(u) /\ from(j) = j
        BY <2>1, <2>2, <3>2
      <4> QED  BY <4>1
    <3> QED  BY <3>1, <3>2
  <2> HIDE DEF from
  <2>7. \A l \in Others(first) : \E i \in 1 .. Len(u) : u[i].id = l
    <3> SUFFICES ASSUME NEW l \in Others(first) PROVE \E i \in 1 .. Len(u) : u[i].id = l
      OBVIOUS
    <3>1. PICK j \in 1 .. n : t[j].id = l
      BY DEF TableInv, n
    <3>2. PICK i \in 1 .. Len(u) : from(i) = j
      BY <2>3, <2>6, <3>1
    <3> QED  BY <2>4, <3>1, <3>2
  <2>8. \A i, j \in 1 .. Len(u) : u[i].id = u[j].id => i = j
    BY <2>4, <2>5 DEF TableInv, n
  <2>9. \A i \in 1 .. Len(u) :
          /\ 0 <= u[i].id /\ u[i].id < next
          /\ u[i].callback = "other" <=> u[i].id \in Others(first)
    BY <2>4 DEF TableInv, n
  <2>10. Len(u) <= TIMERS_MAX /\ next \in Int /\ first + OTHERS <= next
    BY <2>1, <2>2, ConfigAssumption DEF TableInv, n
  <2>11. TableInv(u, next, first)
    BY <2>2, <2>7, <2>8, <2>9, <2>10 DEF TableInv
  <2> QED  BY <2>11 DEF u
<1> QED  BY <1>1, <1>2

(* After timer_start there is a timer of the store, if only an older one. *)
LEMMA AddedInv ==
    ASSUME NEW t, NEW next, NEW first \in {0, 1}, TableInv(t, next, first),
           NEW n \in Nat \ {0}
    PROVE  LET u == Added(t, n, next, "config")
               later == next + Len(u) - Len(t)
           IN  /\ TableInv(u, later, first) /\ HasTimer(u)
               /\ HandleInv(Handle(t, n, next), later, first)
<1> DEFINE u == Added(t, n, next, "config")
           room == TIMERS_MAX - Len(t)
           added == IF n <= room THEN n ELSE room
           later == next + added
           m == Len(t)
<1>1. /\ t \in Seq(Timers) /\ m \in Nat /\ m <= TIMERS_MAX
      /\ TIMERS_MAX \in Nat /\ OTHERS \in Nat /\ next \in Int /\ first + OTHERS <= next
      /\ room \in Nat /\ added \in Nat /\ added <= room
      /\ (added = 0 => m = TIMERS_MAX)
  BY ConfigAssumption DEF TableInv
<1>2. /\ u \in Seq(Timers) /\ Len(u) = m + added
      /\ \A i \in 1 .. m : u[i] = t[i]
      /\ \A i \in 1 .. added : u[m + i].id = next + i - 1 /\ u[m + i].callback = "config"
  BY <1>1, AddedIs
<1> HIDE DEF u
<1>3. \A i \in 1 .. Len(u) :
          \/ i \in 1 .. m /\ u[i] = t[i]
          \/ i > m /\ u[i].id = next + i - m - 1 /\ u[i].callback = "config"
  <2> SUFFICES ASSUME NEW i \in 1 .. Len(u), i > m
               PROVE  u[i].id = next + i - m - 1 /\ u[i].callback = "config"
    BY <1>1, <1>2
  <2> DEFINE l == i - m
  <2>1. l \in 1 .. added /\ i = m + l
    BY <1>1, <1>2
  <2>2. u[m + l].id = next + l - 1 /\ u[m + l].callback = "config"
    <3> HIDE DEF l, added, m
    <3> QED  BY <1>2, <2>1
  <2> QED  BY <1>1, <2>1, <2>2
<1> HIDE DEF added
<1>4. TableInv(u, later, first)
  <2>1. Len(u) <= TIMERS_MAX /\ later \in Int /\ first + OTHERS <= later
    BY <1>1, <1>2
  <2>2. \A i \in 1 .. m : 0 <= t[i].id /\ t[i].id < next /\ t[i].id \in Int
    <3>1. \A i \in 1 .. m : t[i] \in Timers
      BY <1>1
    <3> QED  BY <3>1 DEF TableInv, Timers
  <2>3. \A i \in 1 .. Len(u) :
          /\ 0 <= u[i].id /\ u[i].id < later
          /\ u[i].callback = "other" <=> u[i].id \in Others(first)
    <3> SUFFICES ASSUME NEW i \in 1 .. Len(u)
                 PROVE  /\ 0 <= u[i].id /\ u[i].id < later
                        /\ u[i].callback = "other" <=> u[i].id \in Others(first)
      OBVIOUS
    <3>1. CASE i \in 1 .. m /\ u[i] = t[i]
      BY <1>1, <2>2, <3>1 DEF TableInv
    <3>2. CASE i > m /\ u[i].id = next + i - m - 1 /\ u[i].callback = "config"
      BY <1>1, <1>2, <3>2 DEF Others
    <3> QED  BY <1>3, <3>1, <3>2
  <2>4. \A i, k \in 1 .. Len(u) : u[i].id = u[k].id => i = k
    <3> SUFFICES ASSUME NEW i \in 1 .. Len(u), NEW k \in 1 .. Len(u), u[i].id = u[k].id
                 PROVE  i = k
      OBVIOUS
    <3>1. CASE i \in 1 .. m /\ k \in 1 .. m
      BY <1>2, <3>1 DEF TableInv
    <3>2. CASE i > m /\ k > m
      BY <1>1, <1>2, <1>3, <3>2
    <3>3. CASE i \in 1 .. m /\ k > m
      BY <1>1, <1>2, <1>3, <2>2, <3>3
    <3>4. CASE k \in 1 .. m /\ i > m
      BY <1>1, <1>2, <1>3, <2>2, <3>4
    <3> QED  BY <1>1, <1>2, <3>1, <3>2, <3>3, <3>4
  <2>5. \A k \in Others(first) : \E i \in 1 .. Len(u) : u[i].id = k
    <3> SUFFICES ASSUME NEW k \in Others(first) PROVE \E i \in 1 .. Len(u) : u[i].id = k
      OBVIOUS
    <3>1. PICK i \in 1 .. m : t[i].id = k
      BY DEF TableInv
    <3>2. i \in 1 .. Len(u) /\ u[i].id = k
      BY <1>1, <1>2, <3>1
    <3> QED  BY <3>2
  <2> HIDE DEF later
  <2> QED  BY <1>2, <2>1, <2>3, <2>4, <2>5 DEF TableInv
<1>5. HasTimer(u)
  <2>1. CASE added = 0
    <3>1. PICK i \in 1 .. m : t[i].callback = "config"
      BY <1>1, <2>1, OthersStay DEF HasTimer
    <3>2. i \in 1 .. Len(u) /\ u[i].callback = "config"
      BY <1>1, <1>2, <3>1
    <3> QED  BY <3>2 DEF HasTimer
  <2>2. CASE added # 0
    <3>1. m + 1 \in 1 .. Len(u) /\ 1 \in 1 .. added
      BY <1>1, <1>2, <2>2
    <3>2. u[m + 1].callback = "config"
      BY <1>2, <3>1
    <3> QED  BY <3>1, <3>2 DEF HasTimer
  <2> QED  BY <2>1, <2>2
<1>6. HandleInv(Handle(t, n, next), later, first)
  <2>1. Handle(t, n, next) \in {NoTimer} \cup next .. later - 1
    BY <1>1 DEF Handle, added
  <2>2. \A id \in next .. later - 1 : id \in 0 .. later - 1 /\ id \notin Others(first)
    BY <1>1 DEF Others
  <2>3. NoTimer \notin Others(first)
    BY <1>1 DEF NoTimer, Others
  <2> QED  BY <2>1, <2>2, <2>3 DEF HandleInv
<1>7. next + Len(u) - Len(t) = later
  BY <1>1, <1>2
<1> QED  BY <1>4, <1>5, <1>6, <1>7 DEF u

-----------------------------------------------------------------------------
(* The timers of the store.                                                *)

WheelInv ==
    /\ \E first \in {0, 1} : TableInv(timers, nextId, first) /\ HandleInv(timerId, nextId, first)
    /\ run \in 0 .. TIMERS_MAX + 1 /\ rebooting \in BOOLEAN

Saved == \A s \in Store : Kept[s] = Current[s]

LEMMA OtherTimersIs ==
    ASSUME NEW first \in {0, 1}
    PROVE  /\ OtherTimers(first) \in Seq(Timers) /\ Len(OtherTimers(first)) = OTHERS
           /\ \A i \in 1 .. OTHERS : /\ OtherTimers(first)[i].id = first + i - 1
                                     /\ OtherTimers(first)[i].callback = "other"
<1> DEFINE e(i) == Timer(1, first + i - 1, "other")
           v == [i \in 1 .. OTHERS |-> e(i)]
<1>1. OTHERS \in Nat
  BY ConfigAssumption
<1>2. \A i \in 1 .. OTHERS : e(i) \in Timers /\ e(i).id = first + i - 1 /\ e(i).callback = "other"
  BY <1>1 DEF Timers, Timer
<1>3. OtherTimers(first) = v
  BY DEF OtherTimers
<1> HIDE DEF e
<1>4. v \in Seq(Timers) /\ Len(v) = OTHERS
  BY <1>1, <1>2
<1>5. \A i \in 1 .. OTHERS : v[i] = e(i)
  OBVIOUS
<1> QED  BY <1>2, <1>3, <1>4, <1>5

(* The tables that the two kinds of a start make. *)
LEMMA LoadedTable ==
    TableInv(OtherTimers(0), OTHERS, 0) /\ HandleInv(NoTimer, OTHERS, 0)
<1> DEFINE v == OtherTimers(0)
<1>1. OTHERS \in Nat /\ OTHERS <= TIMERS_MAX
  BY ConfigAssumption
<1>2. /\ v \in Seq(Timers) /\ Len(v) = OTHERS
      /\ \A i \in 1 .. OTHERS : v[i].id = i - 1 /\ v[i].callback = "other"
  BY OtherTimersIs
<1> HIDE DEF v
<1>3. \A k \in Others(0) : k + 1 \in 1 .. OTHERS /\ v[k + 1].id = k
  BY <1>1, <1>2 DEF Others
<1>4. \A i, k \in 1 .. OTHERS : v[i].id = v[k].id => i = k
  BY <1>1, <1>2
<1>5. TableInv(v, OTHERS, 0)
  BY <1>1, <1>2, <1>3, <1>4 DEF TableInv, Others
<1>6. HandleInv(NoTimer, OTHERS, 0)
  BY <1>1 DEF HandleInv, Others, NoTimer
<1> QED  BY <1>5, <1>6 DEF v

LEMMA EmptyTable ==
    LET t == <<Timer(1, 0, "config")>> \o OtherTimers(1)
    IN  TableInv(t, OTHERS + 1, 1) /\ HandleInv(0, OTHERS + 1, 1) /\ HasTimer(t)
<1> DEFINE e == Timer(1, 0, "config")
           v == OtherTimers(1)
           t == <<e>> \o v
<1>1. OTHERS \in Nat /\ OTHERS + 1 <= TIMERS_MAX
  BY ConfigAssumption
<1>2. e \in Timers /\ e.id = 0 /\ e.callback = "config"
  BY DEF Timers, Timer
<1>3. /\ v \in Seq(Timers) /\ Len(v) = OTHERS
      /\ \A i \in 1 .. OTHERS : v[i].id = i /\ v[i].callback = "other"
  BY <1>1, OtherTimersIs
<1> HIDE DEF e, v
<1>4. t \in Seq(Timers) /\ Len(t) = OTHERS + 1 /\ t[1] = e
      /\ \A i \in 2 .. OTHERS + 1 : t[i] = v[i - 1]
  BY <1>1, <1>2, <1>3
<1> HIDE DEF t
<1>5. \A i \in 1 .. OTHERS + 1 :
        t[i].id = i - 1 /\ (t[i].callback = "other" <=> i # 1) /\ (i = 1 => t[i].callback = "config")
  <2> SUFFICES ASSUME NEW i \in 1 .. OTHERS + 1
               PROVE  /\ t[i].id = i - 1
                      /\ (t[i].callback = "other" <=> i # 1) /\ (i = 1 => t[i].callback = "config")
    OBVIOUS
  <2>1. CASE i = 1
    BY <1>2, <1>4, <2>1
  <2>2. CASE i # 1
    <3>1. i \in 2 .. OTHERS + 1 /\ i - 1 \in 1 .. OTHERS
      BY <1>1, <2>2
    <3> QED  BY <1>3, <1>4, <2>2, <3>1
  <2> QED  BY <2>1, <2>2
<1>6. \A k \in Others(1) : k + 1 \in 1 .. OTHERS + 1 /\ t[k + 1].id = k
  BY <1>1, <1>5 DEF Others
<1>7. TableInv(t, OTHERS + 1, 1)
  <2>1. \A i \in 1 .. OTHERS + 1 :
          /\ 0 <= t[i].id /\ t[i].id < OTHERS + 1
          /\ t[i].callback = "other" <=> t[i].id \in Others(1)
    BY <1>1, <1>5 DEF Others
  <2>2. \A i, k \in 1 .. OTHERS + 1 : t[i].id = t[k].id => i = k
    BY <1>1, <1>5
  <2>3. Len(t) <= TIMERS_MAX /\ OTHERS + 1 \in Int /\ 1 + OTHERS <= OTHERS + 1
    BY <1>1, <1>4
  <2>4. \A k \in Others(1) : \E i \in 1 .. OTHERS + 1 : t[i].id = k
    BY <1>6
  <2> QED  BY <1>4, <2>1, <2>2, <2>3, <2>4 DEF TableInv
<1>8. HasTimer(t)
  <2>1. 1 \in 1 .. Len(t) /\ t[1].callback = "config"
    BY <1>1, <1>4, <1>5
  <2> QED  BY <2>1 DEF HasTimer
<1>9. HandleInv(0, OTHERS + 1, 1)
  BY <1>1 DEF HandleInv, Others
<1> QED  BY <1>7, <1>8, <1>9 DEF t, e, v

-----------------------------------------------------------------------------
(* Steps.                                                                  *)

Fine == WheelInv /\ (HasTimer(timers) \/ rebooting \/ Saved)

LEMMA FineMeans == WheelInv => (Fine <=> WheelInv /\ StoresHaveTimer)
<1>1. ASSUME WheelInv
      PROVE  HasTimer(timers) <=> ~(\A i \in 1 .. Len(timers) : timers[i].callback # "config")
  BY DEF HasTimer
<1> QED  BY <1>1 DEF Fine, StoresHaveTimer, Saved

LEMMA StartFine ==
    ASSUME WheelInv, NEW n \in Nat \ {0}, TimerStart(n), UNCHANGED <<run, rebooting>>
    PROVE  Fine'
<1>1. PICK first \in {0, 1} : TableInv(timers, nextId, first)
  BY DEF WheelInv
<1>2. TableInv(timers', nextId', first) /\ HasTimer(timers') /\ HandleInv(timerId', nextId', first)
  BY <1>1, AddedInv DEF TimerStart
<1> QED  BY <1>1, <1>2 DEF WheelInv, Fine, HasTimer, TableInv, HandleInv

(* The timers stay, and so does what is saved. *)
LEMMA SameFine ==
    ASSUME Fine, SameTimers(timers, timers'), UNCHANGED <<nextId, timerId>>,
           run' \in 0 .. TIMERS_MAX + 1, rebooting' \in BOOLEAN,
           HasTimer(timers) \/ rebooting' \/ ((Saved => Saved') /\ rebooting' = rebooting)
    PROVE  Fine'
<1>1. PICK first \in {0, 1} :
        TableInv(timers, nextId, first) /\ HandleInv(timerId, nextId, first)
  BY DEF Fine, WheelInv
<1>2. TableInv(timers', nextId', first) /\ (HasTimer(timers) => HasTimer(timers'))
      /\ HandleInv(timerId', nextId', first)
  BY <1>1, SameInv
<1>3. WheelInv'
  BY <1>1, <1>2 DEF WheelInv, TableInv, HandleInv
<1> QED  BY <1>2, <1>3 DEF Fine, HasTimer

LEMMA UnchangedTimers ==
    ASSUME WheelInv
    PROVE  SameTimers(timers, timers) /\ timers \in Seq(Timers) /\ Len(timers) <= TIMERS_MAX
           /\ Len(timers) \in Nat
  BY DEF WheelInv, TableInv, SameTimers

LEMMA PoweredOnFine ==
    ASSUME IInv, PoweredOn(flash.mem)
    PROVE  Fine'
<1>1. Saved'
  <2>1. flash.mem \in Mem
    BY DEF IInv, TypeInv, Device
  <2>2. Current' = Kept'
    BY <2>1, PoweredOnInv
  <2> QED  BY <2>2 DEF Saved
<1>2. run' \in 0 .. TIMERS_MAX + 1 /\ rebooting' \in BOOLEAN
  <2>1. run' = 0 /\ rebooting' = FALSE
    BY DEF PoweredOn
  <2>2. 0 \in 0 .. TIMERS_MAX + 1
    BY ConfigAssumption
  <2> QED  BY <2>1, <2>2
<1>3. \E first \in {0, 1} : TableInv(timers', nextId', first) /\ HandleInv(timerId', nextId', first)
  BY LoadedTable, EmptyTable DEF PoweredOn
<1> QED  BY <1>1, <1>2, <1>3 DEF Fine, WheelInv, TableInv, HandleInv

(* The save is done: one timer goes, and never one of another part. *)
LEMMA ConfigExpiredFine ==
    ASSUME IInv, IInv', Fine, ConfigExpired
    PROVE  Fine'
<1>1. /\ run \in 1 .. Len(timers) /\ timers[run].callback = "config" /\ Flash
      /\ run' = run + 1 /\ UNCHANGED <<nextId, rebooting>>
  BY DEF ConfigExpired, Expired
<1>2. run' \in 0 .. TIMERS_MAX + 1 /\ rebooting' \in BOOLEAN /\ run \in Nat \ {0}
  BY <1>1, UnchangedTimers, ConfigAssumption DEF Fine, WheelInv
<1>3. HasTimer(timers)
  BY <1>1 DEF HasTimer
<1>4. PICK first \in {0, 1} :
        TableInv(timers, nextId, first) /\ HandleInv(timerId, nextId, first)
  BY DEF Fine, WheelInv
<1>5. CASE Finished
  <2> DEFINE u == Deleted(timers, timerId)
  <2>1. state' = "IDLE"
    BY <1>1, <1>5 DEF Finished, Flash, After
  <2>2. Saved'
    BY <2>1 DEF IInv, IdleIsSaved, Saved
  <2>3. TableInv(u, nextId, first)
    BY <1>4, DeletedInv DEF HandleInv
  <2>4. timers' = Rearmed(u, run)
    BY <1>5 DEF ConfigExpired
  <2> HIDE DEF u
  <2>5. TableInv(timers', nextId', first)
    <3>1. SameTimers(u, Rearmed(u, run))
      BY <1>2, <2>3, RearmedIs DEF TableInv
    <3> QED  BY <1>1, <2>3, <2>4, <3>1, SameInv
  <2>6. timerId' \in {NoTimer, timerId}
    BY <1>5 DEF ConfigExpired
  <2>7. HandleInv(timerId', nextId', first)
    BY <1>1, <1>4, <2>6, ConfigAssumption DEF HandleInv, NoTimer, Others
  <2> QED  BY <1>2, <2>2, <2>5, <2>7 DEF Fine, WheelInv, TableInv, HandleInv
<1>6. CASE ~Finished
  <2>1. timers' = Rearmed(timers, run) /\ timerId' = timerId
    BY <1>6 DEF ConfigExpired
  <2>2. SameTimers(timers, timers')
    BY <1>2, <1>4, <2>1, RearmedIs DEF TableInv
  <2> QED  BY <1>1, <1>2, <1>3, <2>1, <2>2, SameFine
<1> QED  BY <1>5, <1>6

LEMMA StepFine == IInv /\ IInv' /\ Fine /\ [Next]_vars => Fine'
<1> SUFFICES ASSUME IInv, IInv', Fine, [Next]_vars PROVE Fine'
  OBVIOUS
<1>0. /\ STORES \in Nat \ {0} /\ TIMERS_MAX \in Nat \ {0}
      /\ timers \in Seq(Timers) /\ Len(timers) \in Nat /\ Len(timers) <= TIMERS_MAX
      /\ SameTimers(timers, timers) /\ run \in 0 .. TIMERS_MAX + 1 /\ rebooting \in BOOLEAN
  BY ConfigAssumption, UnchangedTimers DEF Fine, WheelInv
<1>1. ASSUME NEW words, NEW n \in Nat \ {0}, Changed(words, n) PROVE Fine'
  BY <1>1, StartFine DEF Changed, Fine
<1>2. CASE \E s \in Store, v \in DATA, set \in {0, 1} : Update(s, v, set)
  BY <1>1, <1>2 DEF Update
<1>3. CASE \E s \in Store : ResetSetList(s)
  BY <1>1, <1>3 DEF ResetSetList
<1>4. CASE ResetSetListAll
  BY <1>0, <1>1, <1>4 DEF ResetSetListAll
<1>5. ASSUME SameTimers(timers, timers'), UNCHANGED <<nextId, timerId, rebooting, ram, flash>>,
             run' \in 0 .. TIMERS_MAX + 1
      PROVE  Fine'
  BY <1>0, <1>5, SameFine DEF Saved, Kept, Current
<1>6. ASSUME NEW v \in OFFSETS, SetEnvUtcOffset(v) PROVE Fine'
  <2>1. /\ ram \in Ram /\ ram' = [ram EXCEPT ![2] = v] /\ flash' = flash
        /\ UNCHANGED <<timers, nextId, timerId, run, rebooting>>
    BY <1>6 DEF SetEnvUtcOffset, wheel, IInv, TypeInv
  <2>2. ram' \in Ram
    BY DEF IInv, TypeInv
  <2>3. \A s \in Store : ram'[SetList(s)] = ram[SetList(s)] /\ ram'[Data(s)] = ram[Data(s)]
    BY <2>1, WordsOfStores, WordsDiffer DEF Ram
  <2>4. \A s \in Store : Current'[s] = Current[s]
    BY <2>1, <2>2, <2>3, SeenType DEF Current
  <2>5. Saved => Saved'
    BY <2>1, <2>4 DEF Saved, Kept
  <2> QED  BY <1>0, <2>1, <2>5, SameFine
<1>7. CASE Delay
  BY <1>0, <1>5, <1>7 DEF Delay, wheel
<1>8. CASE RunBegin
  <2>1. 1 \in 0 .. TIMERS_MAX + 1
    BY <1>0
  <2> QED  BY <1>0, <1>5, <1>8, <2>1 DEF RunBegin, store
<1>9. CASE Skip
  <2>1. run + 1 \in 0 .. TIMERS_MAX + 1
    BY <1>0, <1>9 DEF Skip
  <2> QED  BY <1>0, <1>5, <1>9, <2>1 DEF Skip, store
<1>10. CASE OtherExpired
  <2>1. run + 1 \in 0 .. TIMERS_MAX + 1 /\ run \in Nat \ {0}
    BY <1>0, <1>10 DEF OtherExpired, Expired
  <2>2. SameTimers(timers, timers')
    BY <1>0, <1>10, <2>1, RearmedIs DEF OtherExpired
  <2> QED  BY <1>5, <1>10, <2>1, <2>2 DEF OtherExpired, Expired
<1>11. CASE ConfigExpired
  BY <1>11, ConfigExpiredFine
<1>12. CASE RunEnd
  <2>1. 0 \in 0 .. TIMERS_MAX + 1
    BY <1>0
  <2> QED  BY <1>0, <1>5, <1>12, <2>1 DEF RunEnd, store
<1>13. CASE Reboot
  <2>1. rebooting' = TRUE /\ UNCHANGED <<timers, nextId, timerId, run>>
    BY <1>13 DEF Reboot, store, wheel
  <2>2. rebooting' /\ rebooting' \in BOOLEAN
    BY <2>1, Zenon
  <2>3. SameTimers(timers, timers') /\ run' \in 0 .. TIMERS_MAX + 1
    BY <1>0, <2>1
  <2>4. UNCHANGED <<nextId, timerId>>
    BY <2>1
  <2> QED  BY <2>2, <2>3, <2>4, SameFine
<1>14. CASE CommitStep
  <2>1. rebooting = TRUE /\ UNCHANGED <<timers, nextId, timerId, run, rebooting>>
    BY <1>0, <1>14 DEF CommitStep, wheel
  <2> QED  BY <1>0, <2>1, SameFine
<1>15. CASE Restart
  BY <1>15, RestartIs, PoweredOnFine
<1>16. CASE PowerFail
  BY <1>16, PoweredOnFine DEF PowerFail
<1>17. CASE FlashReady
  <2>1. flash'.mem = flash.mem
    BY <1>17 DEF FlashReady, Dev!Ready, IInv, TypeInv, Device
  <2>2. Saved => Saved'
    BY <1>17, <2>1 DEF FlashReady, store, Saved, Kept, Current
  <2> QED  BY <1>0, <1>17, <2>2, SameFine DEF FlashReady, store, wheel
<1>18. CASE Tick
  <2>1. SameTimers(timers, timers')
    BY <1>0, <1>18, ElapsedIs DEF Tick
  <2> QED  BY <1>0, <1>5, <1>18, <2>1 DEF Tick, store
<1>19. CASE UNCHANGED vars
  BY <1>0, <1>5, <1>19 DEF vars
<1> QED
  BY <1>2, <1>3, <1>4, <1>6, <1>7, <1>8, <1>9, <1>10, <1>11, <1>12, <1>13, <1>14, <1>15,
     <1>16, <1>17, <1>18, <1>19 DEF Next

LEMMA InitFine == Init => Fine
<1> SUFFICES ASSUME Init PROVE Fine
  OBVIOUS
<1>1. run = 0 /\ rebooting = FALSE /\ 0 \in 0 .. TIMERS_MAX + 1
  BY ConfigAssumption DEF Init
<1>2. TableInv(timers, nextId, 1) /\ HandleInv(timerId, nextId, 1) /\ HasTimer(timers)
  BY EmptyTable DEF Init
<1> QED  BY <1>1, <1>2 DEF Fine, WheelInv

LEMMA FineAlways == Spec => []Fine
  BY InitInv, StepInv, InitFine, StepFine, PTL DEF Spec

(* A change of a store is never left without a timer that will save it,    *)
(* although timer_start loses handles and the table of timers may be full. *)
THEOREM ChangeHasTimer == Spec => []StoresHaveTimer
<1>1. Fine => StoresHaveTimer
  BY FineMeans DEF Fine
<1> QED  BY <1>1, FineAlways, PTL

-----------------------------------------------------------------------------
(* Types.  An erase ends exactly at the end of the region because what is  *)
(* left of it is a whole number of pages.                                  *)

WholePages(n) == \E k \in Nat : n = k * PAGE_WORDS

PagesInv ==
    /\ flash.at \in 1 .. WORDS + 1 /\ flash.length \in 0 .. WORDS
    /\ flash.st \in {"ERASE_BUSY", "ERASE_PROGAM"} => WholePages(flash.length)
    /\ flash.st = "ERASE_PROGAM" => flash.length # 0

LEMMA Pages ==
    /\ WholePages(WORDS)
    /\ \A n \in Nat \ {0} : WholePages(n) => n - PAGE_WORDS >= 0 /\ WholePages(n - PAGE_WORDS)
<1>1. WORDS \in Nat /\ PAGE_WORDS \in Nat \ {0} /\ WORDS % PAGE_WORDS = 0
  BY ConfigAssumption, WordsOfStores
<1>2. WholePages(WORDS)
  <2> DEFINE k == WORDS \div PAGE_WORDS
  <2>1. k \in Nat /\ WORDS = k * PAGE_WORDS
    BY <1>1
  <2> QED  BY <2>1 DEF WholePages
<1>3. ASSUME NEW n \in Nat \ {0}, WholePages(n)
      PROVE  n - PAGE_WORDS >= 0 /\ WholePages(n - PAGE_WORDS)
  <2>1. PICK k \in Nat : n = k * PAGE_WORDS
    BY <1>3 DEF WholePages
  <2>2. k # 0
    BY <1>1, <1>3, <2>1
  <2>3. k - 1 \in Nat /\ n - PAGE_WORDS = (k - 1) * PAGE_WORDS
    BY <1>1, <2>1, <2>2
  <2>4. (k - 1) * PAGE_WORDS >= 0
    BY <1>1, <2>3
  <2> QED  BY <2>3, <2>4 DEF WholePages
<1> QED  BY <1>2, <1>3

LEMMA ErasePages ==
    ASSUME IInv, PagesInv, flash' = Erasing.dev
    PROVE  PagesInv'
<1>1. flash \in Device /\ flash.at \in Int /\ flash.length \in Int
  BY DEF IInv, TypeInv, Device
<1>2. WORDS \in Nat /\ 1 \in 1 .. WORDS + 1 /\ WORDS \in 0 .. WORDS /\ PAGE_WORDS \in Nat
  BY ConfigAssumption, WordsOfStores
<1>3. CASE flash' = [flash EXCEPT !.st = "ERASE_BUSY", !.at = 1, !.length = WORDS]
  BY <1>1, <1>2, <1>3, Pages DEF PagesInv, Device
<1>4. CASE flash' = flash
  BY <1>4 DEF PagesInv
<1>5. CASE flash' = [flash EXCEPT !.st = "IDLE"]
  BY <1>1, <1>5 DEF PagesInv, Device
<1>6. CASE flash.length # 0 /\ flash.st = "ERASE_BUSY" /\ flash' = [flash EXCEPT !.st = "ERASE_PROGAM"]
  BY <1>1, <1>6 DEF PagesInv, Device
<1>7. CASE /\ flash.st = "ERASE_PROGAM"
           /\ flash' = [flash EXCEPT !.st = "ERASE_BUSY", !.busy = TRUE, !.at = @ + PAGE_WORDS,
                                     !.length = @ - PAGE_WORDS, !.mem = ErasedMem]
  <2>1. flash.length \in Nat \ {0} /\ WholePages(flash.length)
    BY <1>7 DEF PagesInv
  <2>2. flash.length - PAGE_WORDS >= 0 /\ WholePages(flash.length - PAGE_WORDS)
    BY <2>1, Pages
  <2>3. flash.at >= 1 /\ flash.at + flash.length = WORDS + 1
    BY <1>7 DEF IInv, DeviceInv
  <2>4. flash.at + PAGE_WORDS \in 1 .. WORDS + 1 /\ flash.length - PAGE_WORDS \in 0 .. WORDS
    BY <1>1, <1>2, <2>2, <2>3
  <2>5. /\ flash'.st = "ERASE_BUSY" /\ flash'.at = flash.at + PAGE_WORDS
        /\ flash'.length = flash.length - PAGE_WORDS
    BY <1>1, <1>7 DEF Device
  <2> QED  BY <2>2, <2>4, <2>5 DEF PagesInv
<1> QED  BY <1>1, <1>3, <1>4, <1>5, <1>6, <1>7, ErasingIs

LEMMA WritePages ==
    ASSUME IInv, PagesInv, state = "WRITING", flash' = Writing.dev
    PROVE  PagesInv'
<1>1. flash \in Device /\ flash.at \in Int /\ flash.length \in Int
  BY DEF IInv, TypeInv, Device
<1>2. WORDS \in Nat /\ 1 \in 1 .. WORDS + 1 /\ WORDS \in 0 .. WORDS
  BY WordsOfStores
<1>3. CASE flash' = [flash EXCEPT !.st = "WRITE_BUSY", !.at = 1, !.length = WORDS]
  BY <1>1, <1>2, <1>3 DEF PagesInv, Device
<1>4. CASE flash' = flash
  BY <1>4 DEF PagesInv
<1>5. CASE \E st \in {"IDLE", "WRITE_PROGRAM"} : flash' = [flash EXCEPT !.st = st]
  BY <1>1, <1>5 DEF PagesInv, Device
<1>6. CASE /\ flash.st = "WRITE_PROGRAM"
           /\ flash' = [flash EXCEPT !.st = "WRITE_BUSY", !.busy = TRUE,
                                     !.at = @ + 1, !.length = @ - 1, !.mem = ProgramMem]
  <2>1. flash.at >= 1 /\ flash.at + flash.length = WORDS + 1 /\ flash.length > 0
    BY <1>6 DEF IInv, DeviceInv
  <2>2. flash.at + 1 \in 1 .. WORDS + 1 /\ flash.length - 1 \in 0 .. WORDS
    BY <1>1, <1>2, <2>1
  <2>3. flash'.st = "WRITE_BUSY" /\ flash'.at = flash.at + 1 /\ flash'.length = flash.length - 1
    BY <1>1, <1>6 DEF Device
  <2> QED  BY <2>2, <2>3 DEF PagesInv
<1> QED  BY <1>1, <1>3, <1>4, <1>5, <1>6, WritingIs

LEMMA StepPages == IInv /\ PagesInv /\ [Next]_vars => PagesInv'
<1> SUFFICES ASSUME IInv, PagesInv, [Next]_vars PROVE PagesInv'
  OBVIOUS
<1>1. CASE UNCHANGED flash
  BY <1>1 DEF PagesInv
<1>2. CASE Flash
  BY <1>1, <1>2, ErasePages, WritePages DEF Flash
<1>3. CASE PoweredOn(flash.mem)
  <2>1. flash'.at = 1 /\ flash'.length = 0 /\ flash'.st = "IDLE"
    BY <1>3 DEF PoweredOn, Dev!PowerOn
  <2> QED  BY <2>1, WordsOfStores DEF PagesInv
<1>4. CASE FlashReady
  <2>1. flash'.at = flash.at /\ flash'.length = flash.length /\ flash'.st = flash.st
    BY <1>4 DEF FlashReady, Dev!Ready, IInv, TypeInv, Device
  <2> QED  BY <2>1 DEF PagesInv
<1> QED  BY <1>1, <1>2, <1>3, <1>4, StepIs

LEMMA InitPages == Init => PagesInv
  BY WordsOfStores DEF Init, Dev!PowerOn, PagesInv

(* Every variable stays in its domain: no erase or write runs past the end *)
(* of the region, and the table of timers never overflows nor loses the    *)
(* timer of another part.                                                  *)
THEOREM StoreTypeCorrect == Spec => []TypeOK
<1>1. ASSUME IInv, PagesInv, Fine PROVE TypeOK
  <2>1. \A w \in Dev!Word : Values(w) \subseteq DATA \cup OFFSETS \cup {Blank, 0, 1}
    BY DEF Values, Sig
  <2>2. /\ ram \in [Dev!Word -> DATA \cup OFFSETS \cup {Blank, 0, 1}]
        /\ flash.mem \in [Dev!Word -> DATA \cup OFFSETS \cup {Blank, 0, 1}]
    BY <1>1, <2>1 DEF IInv, TypeInv, Device, Ram, Mem
  <2>3. state \in States /\ flash.st \in Dev!DeviceState /\ flash.busy \in BOOLEAN
    BY <1>1 DEF IInv, TypeInv, Device
  <2>4. PICK first \in {0, 1} :
          TableInv(timers, nextId, first) /\ HandleInv(timerId, nextId, first)
    BY <1>1 DEF Fine, WheelInv
  <2>5. OTHERS <= Len(timers)
    BY <2>4, OthersStay
  <2>6. Len(timers) \in OTHERS .. TIMERS_MAX /\ nextId \in Nat
    BY <2>4, <2>5, ConfigAssumption DEF TableInv
  <2>7. timerId \in {NoTimer} \cup 0 .. nextId - 1
    BY <2>4 DEF HandleInv
  <2> QED  BY <1>1, <2>2, <2>3, <2>6, <2>7 DEF TypeOK, PagesInv, Fine, WheelInv
<1>2. Spec => []PagesInv
  BY InitInv, StepInv, InitPages, StepPages, PTL DEF Spec
<1> QED  BY <1>1, <1>2, InvAlways, FineAlways, PTL
=============================================================================
