--------------------------- MODULE LightSetProofs ----------------------------
(***************************************************************************)
(* What the operators of LightSetData return, and what holds of a loop     *)
(* over ports, for any number of slots and ports.                          *)
(*                                                                         *)
(* The theorems of the library on induction have an operator as their      *)
(* parameter.  Here a set takes its place: the numbers for which something *)
(* holds.                                                                  *)
(***************************************************************************)
EXTENDS LightSetData, WellFoundedInduction, TLAPS

LEMMA SetInduction ==
    ASSUME NEW T, 0 \in T, \A n \in Nat : n \in T => n + 1 \in T
    PROVE  Nat \subseteq T
<1> DEFINE R == OpToRel(<, Nat)
           U == Nat \ T
<1>1. IsWellFoundedOn(R, Nat)
  BY NatLessThanWellFounded
<1>2. ASSUME U # {} PROVE FALSE
  <2>1. U \subseteq Nat
    OBVIOUS
  <2>2. PICK x \in U : \A y \in U : <<y, x>> \notin R
    <3> HIDE DEF R, U
    <3> QED  BY <1>1, <1>2, <2>1, WFMin
  <2>3. \A y \in Nat : y < x => <<y, x>> \in R
    BY DEF OpToRel
  <2>4. x \in Nat /\ x # 0 /\ x \notin T
    OBVIOUS
  <2>5. x - 1 \in Nat /\ x - 1 < x /\ (x - 1) + 1 = x
    BY <2>4
  <2>6. x - 1 \in T
    <3> HIDE DEF R
    <3> QED  BY <2>2, <2>3, <2>5
  <2> HIDE DEF U
  <2> QED  BY <2>4, <2>5, <2>6
<1> QED  BY <1>2

(* A loop of N turns from the state first; step[n] is the body of turn n.  *)
IsLoop(N, S, first, step) ==
    N \in Nat /\ first \in S /\ step \in [1 .. N -> [S -> S]]

IsRunOf(f, N, S, first, step) ==
    /\ f \in [0 .. N -> S] /\ f[0] = first
    /\ \A n \in 1 .. N : f[n] = step[n][f[n - 1]]

(* There is a function that does what the loop does. *)
LEMMA LoopRuns ==
    ASSUME NEW N, NEW S, NEW first, NEW step, IsLoop(N, S, first, step)
    PROVE  \E f : IsRunOf(f, N, S, first, step)
<1> USE DEF IsLoop, IsRunOf
<1> DEFINE Runs(f, m) == f[0] = first /\ \A n \in 1 .. m : f[n] = step[n][f[n - 1]]
           T == { m \in Nat : m <= N => \E f \in [0 .. m -> S] : Runs(f, m) }
<1>1. 0 \in T
  <2> DEFINE f == [n \in 0 .. 0 |-> first]
  <2>1. f \in [0 .. 0 -> S] /\ f[0] = first
    OBVIOUS
  <2>2. Runs(f, 0)
    BY <2>1
  <2> HIDE DEF f
  <2> QED  BY <2>1, <2>2
<1>2. ASSUME NEW m \in Nat, m \in T PROVE m + 1 \in T
  <2> SUFFICES ASSUME m + 1 <= N PROVE \E f \in [0 .. m + 1 -> S] : Runs(f, m + 1)
    OBVIOUS
  <2>1. PICK f \in [0 .. m -> S] : Runs(f, m)
    BY <1>2
  <2> DEFINE g == [n \in 0 .. m + 1 |-> IF n = m + 1 THEN step[m + 1][f[m]] ELSE f[n]]
  <2>2. f[m] \in S /\ m + 1 \in 1 .. N /\ m + 1 \in 0 .. m + 1
    OBVIOUS
  <2>3. step[m + 1][f[m]] \in S
    BY <2>2
  <2>4. g \in [0 .. m + 1 -> S]
    BY <2>3
  <2>5. g[m + 1] = step[m + 1][f[m]] /\ \A n \in 0 .. m : g[n] = f[n]
    BY <2>2
  <2> HIDE DEF g
  <2>6. \A n \in 1 .. m + 1 : g[n] = step[n][g[n - 1]]
    <3> SUFFICES ASSUME NEW n \in 1 .. m + 1 PROVE g[n] = step[n][g[n - 1]]
      OBVIOUS
    <3>1. n - 1 \in 0 .. m
      OBVIOUS
    <3>2. CASE n = m + 1
      BY <2>5, <3>1, <3>2
    <3>3. CASE n # m + 1
      <4>1. n \in 1 .. m /\ n \in 0 .. m
        BY <3>3
      <4> QED  BY <2>1, <2>5, <3>1, <4>1
    <3> QED  BY <3>2, <3>3
  <2>7. g[0] = first
    BY <2>1, <2>5
  <2> QED  BY <2>4, <2>6, <2>7
<1>3. Nat \subseteq T
  <2> HIDE DEF T
  <2> QED  BY <1>1, <1>2, SetInduction
<1>4. \E f \in [0 .. N -> S] : Runs(f, N)
  BY <1>3
<1> QED  BY <1>4

(* What holds of each number of turns in turn holds at the end. *)
LEMMA LoopInduction ==
    ASSUME NEW N \in Nat, NEW T, 0 \in T, \A n \in 1 .. N : n - 1 \in T => n \in T
    PROVE  0 .. N \subseteq T
<1> DEFINE U == { n \in Nat : n <= N => n \in T }
<1>1. 0 \in U
  OBVIOUS
<1>2. \A n \in Nat : n \in U => n + 1 \in U
  <2> SUFFICES ASSUME NEW n \in Nat, n \in U, n + 1 <= N PROVE n + 1 \in T
    OBVIOUS
  <2>1. n + 1 \in 1 .. N /\ (n + 1) - 1 = n /\ n \in T
    OBVIOUS
  <2> QED  BY <2>1
<1>3. Nat \subseteq U
  <2> HIDE DEF U
  <2> QED  BY <1>1, <1>2, SetInduction
<1> QED  BY <1>3

-----------------------------------------------------------------------------
(* Slots. *)

LEMMA FrameIs ==
    ASSUME NEW frame \in Frame
    PROVE  /\ Len(frame) \in 0 .. SLOTS /\ SLOTS \in Nat /\ LEVELS \in Nat
           /\ frame \in [1 .. Len(frame) -> Level]
<1>1. PICK n \in 0 .. SLOTS : frame \in [1 .. n -> Level]
  BY DEF Frame
<1>2. SLOTS \in Nat /\ LEVELS \in Nat
  BY LightSetAssumption
<1>3. Len(frame) = n
  BY <1>1, <1>2
<1> QED  BY <1>1, <1>2, <1>3

LEMMA OverIs ==
    ASSUME NEW frame \in Frame, NEW old \in Universe
    PROVE  /\ Over(frame, old) \in Universe
           /\ \A i \in 1 .. Len(frame) : Over(frame, old)[i] = frame[i]
<1>1. Len(frame) \in 0 .. SLOTS /\ SLOTS \in Nat /\ frame \in [1 .. Len(frame) -> Level]
  BY FrameIs
<1>2. \A i \in 1 .. SLOTS : (IF i <= Len(frame) THEN frame[i] ELSE old[i]) \in Level
  BY <1>1 DEF Universe
<1> DEFINE o == [i \in 1 .. SLOTS |-> IF i <= Len(frame) THEN frame[i] ELSE old[i]]
<1>3. o \in [1 .. SLOTS -> Level]
  BY <1>2
<1>4. \A i \in 1 .. Len(frame) : i \in 1 .. SLOTS /\ i <= Len(frame)
  BY <1>1
<1>5. \A i \in 1 .. Len(frame) : o[i] = frame[i]
  BY <1>4
<1> HIDE DEF o
<1>6. Over(frame, old) = o
  BY DEF Over, o
<1> QED  BY <1>3, <1>5, <1>6 DEF Universe

LEMMA HigherIs ==
    ASSUME NEW a \in Level, NEW b \in Level
    PROVE  Higher(a, b) \in Level /\ Higher(a, b) = Higher(b, a)
<1>1. a \in Int /\ b \in Int
  BY LightSetAssumption DEF Level
<1> QED  BY <1>1 DEF Higher

(* Whatever was there before, what is to be sent after a merge in HTP mode *)
(* is the higher level of both sources.                                    *)
LEMMA MergeIs ==
    ASSUME NEW d \in PortData, NEW x \in Sides, NEW frame \in Frame, NEW ltp \in BOOLEAN
    PROVE  LET r == Merge(d, x, frame, ltp)
           IN  /\ r \in PortData
               /\ r.length = Len(frame)
               /\ ~ltp => \A i \in 1 .. r.length : r.out[i] = Higher(r.A[i], r.B[i])
<1> DEFINE own == Over(frame, d[x])
           other == d[Other(x)]
           highest == [i \in 1 .. Len(frame) |-> Higher(own[i], other[i])]
           sent == IF ltp THEN frame ELSE highest
           out == Over(sent, d.out)
           r == Merge(d, x, frame, ltp)
<1>1. /\ Len(frame) \in 0 .. SLOTS /\ SLOTS \in Nat
      /\ \A i \in 1 .. Len(frame) : i \in 1 .. SLOTS
  BY FrameIs
<1>2. d[x] \in Universe /\ other \in Universe /\ d.out \in Universe
  BY DEF PortData, Sides, Other
<1>3. own \in Universe
  BY <1>2, OverIs
<1>4. \A i \in 1 .. SLOTS : own[i] \in Level /\ other[i] \in Level
  BY <1>2, <1>3 DEF Universe
<1>5. highest \in [1 .. Len(frame) -> Level]
  BY <1>1, <1>4, HigherIs
<1>6. highest \in Frame /\ Len(highest) = Len(frame)
  BY <1>1, <1>5 DEF Frame
<1>7. sent \in Frame /\ Len(sent) = Len(frame)
  BY <1>6
<1>8. out \in Universe /\ \A i \in 1 .. Len(frame) : out[i] = sent[i]
  BY <1>2, <1>7, OverIs
<1>9. r = [d EXCEPT ![x] = own, !.length = Len(frame), !.out = out]
  BY DEF Merge
<1>10. ASSUME ~ltp, NEW i \in 1 .. Len(frame) PROVE out[i] = Higher(own[i], other[i])
  BY <1>8, <1>10
<1>11. \A i \in 1 .. Len(frame) : Higher(own[i], other[i]) = Higher(other[i], own[i])
  BY <1>1, <1>4, HigherIs
<1> HIDE DEF own, out, sent, highest
<1>12. CASE x = "A"
  <2>1. other = d.B
    BY <1>12 DEF Other
  <2>2. r = [A |-> own, B |-> other, out |-> out, length |-> Len(frame)]
    BY <1>9, <1>12, <2>1 DEF PortData
  <2>3. Len(frame) \in 0 .. SLOTS
    BY <1>1
  <2>4. /\ r \in PortData
        /\ r.length = Len(frame) /\ r.out = out /\ r.A = own /\ r.B = other
    BY <1>2, <1>3, <1>8, <2>2, <2>3 DEF PortData
  <2> QED  BY <1>1, <1>10, <2>4
<1>13. CASE x = "B"
  <2>1. other = d.A
    BY <1>13 DEF Other
  <2>2. r = [A |-> other, B |-> own, out |-> out, length |-> Len(frame)]
    BY <1>9, <1>13, <2>1 DEF PortData
  <2>3. Len(frame) \in 0 .. SLOTS
    BY <1>1
  <2>4. /\ r \in PortData
        /\ r.length = Len(frame) /\ r.out = out /\ r.A = other /\ r.B = own
    BY <1>2, <1>3, <1>8, <2>2, <2>3 DEF PortData
  <2> QED  BY <1>1, <1>10, <1>11, <2>4
<1> QED  BY <1>12, <1>13 DEF Sides

LEMMA SetSourceIs ==
    ASSUME NEW d \in PortData, NEW x \in Sides, NEW frame \in Frame
    PROVE  LET r == SetSource(d, x, frame)
           IN  r \in PortData /\ r.length = Len(frame)
  BY MergeIs DEF SetSource

LEMMA ClearIs ==
    ASSUME NEW d \in PortData
    PROVE  /\ Clear(d) \in PortData /\ Clear(d).length = SLOTS /\ SLOTS # 0
           /\ ClearLength(d) \in PortData /\ ClearLength(d).length = 0
           /\ SyncClear(d) \in PortData /\ SyncClear(d).length = 0
           /\ SyncClear(d).out = d.out /\ SyncClear(d).A = d.A /\ SyncClear(d).B = d.B
<1>1. SLOTS \in Nat \ {0} /\ 0 \in Level
  BY LightSetAssumption DEF Level
<1>2. Dark \in Universe /\ SLOTS \in 0 .. SLOTS /\ 0 \in 0 .. SLOTS
  BY <1>1 DEF Dark, Universe
<1> QED  BY <1>1, <1>2 DEF Clear, ClearLength, SyncClear, PortData

LEMMA NoDataIs == NoData \in PortData
<1>1. SLOTS \in Nat \ {0} /\ 0 \in Level
  BY LightSetAssumption DEF Level
<1>2. Dark \in Universe /\ 0 \in 0 .. SLOTS
  BY <1>1 DEF Dark, Universe
<1> QED  BY <1>2 DEF NoData, PortData

-----------------------------------------------------------------------------
(* The line. *)

LEMMA SlotsIs ==
    ASSUME NEW d \in PortData
    PROVE  Slots(d) \in Frame
<1>1. d.out \in [1 .. SLOTS -> Level] /\ d.length \in 0 .. SLOTS /\ SLOTS \in Nat
  BY LightSetAssumption DEF PortData, Universe
<1>2. Slots(d) = [i \in 1 .. d.length |-> d.out[i]]
  BY <1>1 DEF Slots
<1>3. \A i \in 1 .. d.length : i \in 1 .. SLOTS
  BY <1>1
<1>4. Slots(d) \in [1 .. d.length -> Level]
  BY <1>1, <1>2, <1>3
<1> QED  BY <1>1, <1>4 DEF Frame

LEMMA LineIs ==
    ASSUME NEW m \in DmxPort, NEW d \in PortData
    PROVE  /\ Started(m) \in DmxPort /\ Started(m).sent = m.sent
           /\ SetData(m, d, TRUE) \in DmxPort
           /\ SyncPort(m, d) \in DmxPort
           /\ SyncStart(m, d) \in DmxPort /\ SyncStart(m, d).sent = m.sent
           /\ \A level \in Level : FillLine(m, level) \in DmxPort
<1>1. Slots(d) \in Frame
  BY SlotsIs
<1>2. ASSUME NEW level \in Level PROVE FillLine(m, level) \in DmxPort
  <2>1. [i \in 1 .. SLOTS |-> level] \in [1 .. SLOTS -> Level] /\ SLOTS \in 0 .. SLOTS
    BY LightSetAssumption
  <2>2. [i \in 1 .. SLOTS |-> level] \in Frame
    BY <2>1 DEF Frame
  <2> QED  BY <2>2 DEF FillLine, DmxPort
<1>3. /\ Started(m) \in DmxPort /\ Started(m).sent = m.sent
      /\ SetData(m, d, TRUE) \in DmxPort /\ SyncPort(m, d) \in DmxPort
  BY <1>1 DEF Started, SetData, SyncPort, DmxPort
<1>4. SyncStart(m, d) \in DmxPort /\ SyncStart(m, d).sent = m.sent
  BY <1>3 DEF SyncStart
<1> QED  BY <1>2, <1>3, <1>4

LEMMA NoDmxIs == NoDmx \in DmxPort
<1>1. 0 \in 0 .. SLOTS /\ << >> \in [1 .. 0 -> Level]
  BY LightSetAssumption
<1> QED  BY <1>1 DEF NoDmx, DmxPort, Frame
=============================================================================
