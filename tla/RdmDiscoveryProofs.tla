------------------------- MODULE RdmDiscoveryProofs -------------------------
(***************************************************************************)
(* Theorems about RdmDiscovery, for UIDs of every width, any number of     *)
(* ports and responders, and any number of faults.                         *)
(***************************************************************************)
EXTENDS RdmDiscovery, SequenceTheorems, TLAPS

-----------------------------------------------------------------------------
(* UIDs and the midpoint.                                                  *)

(* The powers of two that the bounds of the search are made of. *)
LEMMA Powers ==
    /\ UID_BITS \in Nat /\ UID_BITS >= 2
    /\ \A k \in 0 .. UID_BITS : PowerOfTwo[k] \in Nat /\ PowerOfTwo[k] >= 1
    /\ PowerOfTwo[0] = 1
    /\ HalfTopBit \in Nat /\ HalfTopBit >= 1
    /\ TopBit = 2 * HalfTopBit
    /\ PowerOfTwo[UID_BITS] = 2 * TopBit
<1>1. UID_BITS \in Nat /\ UID_BITS >= 2
  BY UidAssumption
<1>2. \A k \in 0 .. UID_BITS : PowerOfTwo[k] \in Nat /\ PowerOfTwo[k] >= 1
  <2>1. \A k \in 0 .. UID_BITS : PowerOfTwo[k] \in Nat \ {0}
    BY UidAssumption
  <2> QED
    BY <2>1
<1>3. /\ UID_BITS \in 1 .. UID_BITS
      /\ UID_BITS - 1 \in 1 .. UID_BITS
      /\ UID_BITS - 2 \in 0 .. UID_BITS
      /\ (UID_BITS - 1) - 1 = UID_BITS - 2
  BY <1>1
<1>4. TopBit = 2 * HalfTopBit
  BY <1>3, UidAssumption DEF TopBit, HalfTopBit
<1>5. PowerOfTwo[UID_BITS] = 2 * TopBit
  BY <1>3, UidAssumption DEF TopBit
<1> QED
  BY <1>1, <1>2, <1>3, <1>4, <1>5, UidAssumption DEF HalfTopBit

(* MidPosition is the middle of a branch although it never adds up two     *)
(* whole UIDs, and it lies inside the branch, below its upper bound.       *)
THEOREM MidPositionIsMiddle ==
    ASSUME NEW lower \in Uid, NEW upper \in Uid, lower < upper
    PROVE  /\ MidPosition(lower, upper) = (lower + upper) \div 2
           /\ lower <= MidPosition(lower, upper)
           /\ MidPosition(lower, upper) < upper
           /\ MidPosition(lower, upper) \in Uid
           /\ MidPosition(lower, upper) + 1 \in Uid
<1> DEFINE H == HalfTopBit
<1>1. /\ H \in Nat /\ H >= 1 /\ TopBit = 2 * H
      /\ lower \in Nat /\ upper \in Nat
      /\ LastUid \in Nat /\ upper <= LastUid
  BY Powers DEF Uid, FirstUid, LastUid
<1>2. MidPosition(lower, upper) = (lower + upper) \div 2
  <2> DEFINE half == (WithoutTopBit(lower) + WithoutTopBit(upper)) \div 2
  <2>1. CASE ~HasTopBit(upper)
    <3>1. ~HasTopBit(lower)
      BY <1>1, <2>1 DEF HasTopBit
    <3> QED
      BY <1>1, <2>1, <3>1 DEF MidPosition, WithoutTopBit
  <2>2. CASE HasTopBit(upper) /\ ~HasTopBit(lower)
    <3>1. MidPosition(lower, upper) = (lower + (upper - 2 * H)) \div 2 + H
      BY <1>1, <2>2 DEF MidPosition, WithoutTopBit, HasTopBit
    <3> QED
      BY <1>1, <3>1
  <2>3. CASE HasTopBit(upper) /\ HasTopBit(lower)
    <3>1. MidPosition(lower, upper) =
            ((lower - 2 * H) + (upper - 2 * H)) \div 2 + H + H
      BY <1>1, <2>3 DEF MidPosition, WithoutTopBit, HasTopBit
    <3> HIDE DEF H
    <3> QED
      BY <1>1, <3>1
  <2> QED
    BY <2>1, <2>2, <2>3
<1> QED
  BY <1>1, <1>2 DEF Uid, FirstUid

-----------------------------------------------------------------------------
(* The inductive invariant.                                                *)

(* DISCOVERY is entered with bCommandRunning cleared: a flag left set by   *)
(* Stop would make the first step wait for a request that was never sent.  *)
NotRunningElsewhere ==
    discovery.running => Resumed \in {"DISCOVERY", "IDLE"}

(* The n-th branch on the stack comes from at least n - 1 halvings, so it  *)
(* holds at most 2^(UID_BITS + 1 - n) UIDs; so does the branch in hand,    *)
(* which has left the place above the stack.                               *)
Size(b) == b.upper - b.lower + 1

SizeBound ==
    /\ Len(stack) <= UID_BITS + 1
    /\ \A i \in 1 .. Len(stack) : Size(stack[i]) <= PowerOfTwo[UID_BITS + 1 - i]
    /\ BranchInHand => /\ Len(stack) <= UID_BITS
                       /\ Size(branch) <= PowerOfTwo[UID_BITS - Len(stack)]

SearchInv == BranchesTile /\ NotRunningElsewhere /\ SizeBound

IInv == TypeOK /\ SearchInv

-----------------------------------------------------------------------------
(* What the parts of an action do.                                         *)

(* After NewState the machine is in the state, or will be in it when       *)
(* LATE_RESPONSE is over.                                                  *)
LEMMA NewStateTarget ==
    ASSUME state \in States, savedState \in States \ {"LATE_RESPONSE"},
           NEW next \in States \ {"LATE_RESPONSE"}, NEW late \in BOOLEAN,
           NewState(next, late)
    PROVE  /\ state' \in States
           /\ savedState' \in States \ {"LATE_RESPONSE"}
           /\ Resumed' = next
BY DEF NewState, Resumed, States

Requests ==
    [pid : {"DISC_UNIQUE_BRANCH"}, lower : Uid, upper : Uid]
      \cup [pid : {"DISC_MUTE", "DISC_UN_MUTE"}, uid : AnyUid]

(* A reply to a request, and what noise makes of it, is a reply. *)
LEMMA ReplyType ==
    ASSUME NEW request \in Requests,
           NEW there \in SUBSET Uid, NEW mutedThere \in SUBSET Uid
    PROVE  /\ ReplyTo(request, there, mutedThere) \in Replies
           /\ MutedAfter(request, there, mutedThere) \in SUBSET Uid
<1>1. CASE request.pid = "DISC_UNIQUE_BRANCH"
  <2>1. Answering(request, there, mutedThere) \subseteq Uid
    BY DEF Answering
  <2>2. ReplyTo(request, there, mutedThere) \in
          {NoReply, Collision} \cup { DubReply(u) : u \in Uid }
    BY <1>1, <2>1 DEF ReplyTo
  <2> QED
    BY <1>1, <2>2 DEF MutedAfter, Replies, DubReply
<1>2. CASE request.pid = "DISC_MUTE"
  BY <1>2 DEF ReplyTo, MutedAfter, Replies, MuteAck, NoReply
<1>3. CASE request.pid = "DISC_UN_MUTE"
  BY <1>3 DEF ReplyTo, MutedAfter, Replies, NoReply
<1> QED
  BY <1>1, <1>2, <1>3 DEF Requests

LEMMA NoiseType == Noise \subseteq Replies
BY DiscoveryAssumption DEF Replies, DubReply

(* Each thing that an action does to the line leaves the line well typed. *)
LEMMA TransmitType ==
    ASSUME TypeOK, NEW request \in Requests, NEW budget \in 0 .. MaxFaults,
           Transmit(request, budget)
    PROVE  LineTypeOK'
<1> DEFINE reply == ReplyTo(request, devices[portIndex], muted[portIndex])
<1>1. /\ portIndex \in Ports
      /\ devices[portIndex] \in SUBSET Uid /\ muted[portIndex] \in SUBSET Uid
  BY DEF TypeOK, MachineTypeOK, LineTypeOK
<1>2. /\ reply \in Replies
      /\ MutedAfter(request, devices[portIndex], muted[portIndex]) \in SUBSET Uid
  BY <1>1, ReplyType
<1>3. devices' = devices /\ replugs' = replugs
  BY DEF Transmit
<1>4. muted' \in [Ports -> SUBSET Uid]
  BY <1>1, <1>2 DEF Transmit, TypeOK, LineTypeOK
<1>5. line' \in [Ports -> Replies]
  <2> DEFINE Heard(r) == line' = [line EXCEPT ![portIndex] = IF r = NoReply THEN @ ELSE r]
  <2>1. \A r \in Replies : Heard(r) => line' \in [Ports -> Replies]
    BY <1>1 DEF TypeOK, LineTypeOK
  <2>2. Heard(reply) \/ line' = line \/ \E r \in Noise : Heard(r)
    BY DEF Transmit
  <2> QED
    BY <1>2, <2>1, <2>2, NoiseType DEF TypeOK, LineTypeOK
<1>6. faults' \in 0 .. MaxFaults
  BY DiscoveryAssumption DEF Transmit
<1> QED
  BY <1>3, <1>4, <1>5, <1>6 DEF TypeOK, LineTypeOK

LEMMA NoReplyType == NoReply \in Replies
BY DEF Replies

LEMMA QuietLineType ==
    ASSUME TypeOK,
           \/ UNCHANGED lineVars
           \/ Receive
           \/ TimeOutQuietly
           \/ /\ line' = [line EXCEPT ![portIndex] = NoReply]
              /\ UNCHANGED <<devices, muted, faults, replugs>>
    PROVE  LineTypeOK'
BY NoReplyType
   DEF TypeOK, LineTypeOK, MachineTypeOK, lineVars, Receive, TimeOutQuietly

-----------------------------------------------------------------------------
(* The four things that an action can do to the search.                    *)

LEMMA SearchKept ==
    ASSUME IInv, UNCHANGED <<stack, branch>>,
           Halving' => Halving, BranchInHand' => BranchInHand,
           NotRunningElsewhere'
    PROVE  SearchInv'
BY DEF IInv, SearchInv, BranchesTile, SizeBound, Top, Size

LEMMA SearchStarted ==
    ASSUME IInv, stack' = << [lower |-> FirstUid, upper |-> LastUid] >>,
           Resumed' = "UNMUTE", discovery'.running = FALSE
    PROVE  SearchInv'
<1>1. ~BranchInHand' /\ ~Halving' /\ NotRunningElsewhere'
  BY DEF BranchInHand, Halving, NotRunningElsewhere
<1>2. /\ Len(stack') = 1
      /\ stack'[1] = [lower |-> FirstUid, upper |-> LastUid]
  OBVIOUS
<1>3. BranchesTile'
  BY <1>1, <1>2, Powers DEF BranchesTile, FirstUid, LastUid
<1>4. SizeBound'
  <2>1. Size(stack'[1]) <= PowerOfTwo[UID_BITS]
    BY <1>2, Powers DEF Size, FirstUid, LastUid
  <2>2. /\ \A i \in 1 .. Len(stack') : i = 1
        /\ UID_BITS + 1 - 1 = UID_BITS
        /\ Len(stack') <= UID_BITS + 1
    BY <1>2, Powers
  <2> QED
    BY <1>1, <2>1, <2>2 DEF SizeBound, Size
<1> QED
  BY <1>1, <1>3, <1>4 DEF SearchInv

LEMMA PoppedSeq ==
    ASSUME NEW S, NEW s \in Seq(S), s # << >>
    PROVE  /\ Len(s) \in Nat /\ Len(s) >= 1 /\ Len(s) \in 1 .. Len(s)
           /\ s[Len(s)] \in S
           /\ SubSeq(s, 1, Len(s) - 1) \in Seq(S)
           /\ Len(SubSeq(s, 1, Len(s) - 1)) = Len(s) - 1
           /\ \A i \in 1 .. Len(s) - 1 : SubSeq(s, 1, Len(s) - 1)[i] = s[i]
<1> DEFINE m == Len(s)
           popped == SubSeq(s, 1, m - 1)
<1>1. m \in Nat /\ m >= 1 /\ m \in 1 .. m
  OBVIOUS
<1>2. \A i \in 1 .. m : s[i] \in S
  BY ElementOfSeq
<1> HIDE DEF m
<1>3. m - 1 \in Int /\ 1 \in Int /\ \A i \in 1 .. m - 1 : s[i] \in S
  BY <1>1, <1>2
<1>4. /\ popped \in Seq(S)
      /\ Len(popped) = IF 1 <= m - 1 THEN (m - 1) - 1 + 1 ELSE 0
      /\ \A i \in 1 .. (m - 1) - 1 + 1 : popped[i] = s[1 + i - 1]
  BY <1>3, SubSeqProperties
<1> HIDE DEF popped
<1>5. Len(popped) = m - 1
  BY <1>1, <1>4
<1>6. \A i \in 1 .. m - 1 : popped[i] = s[i]
  <2> SUFFICES ASSUME NEW i \in 1 .. m - 1
               PROVE  popped[i] = s[i]
    OBVIOUS
  <2>1. i \in 1 .. (m - 1) - 1 + 1 /\ 1 + i - 1 = i
    BY <1>1
  <2> QED
    BY <1>4, <2>1
<1> QED
  BY <1>1, <1>2, <1>4, <1>5, <1>6 DEF m, popped

(* The branch on top of the stack is taken in hand. *)
LEMMA SearchPopped ==
    ASSUME IInv, stack # << >>, branch' = Top, stack' = Popped,
           Resumed' \in {"DISCOVERY", "DISCOVERY_SINGLE_DEVICE"},
           discovery'.running \in BOOLEAN,
           discovery'.running => Resumed' = "DISCOVERY" /\ Top.lower # Top.upper
    PROVE  SearchInv' /\ branch' \in Branch /\ stack' \in Seq(Branch)
<1> DEFINE n == Len(stack)
<1>1. /\ n \in Nat /\ n >= 1
      /\ stack[n] \in Branch
      /\ Len(stack') = n - 1
      /\ stack' \in Seq(Branch)
      /\ \A i \in 1 .. n - 1 : stack'[i] = stack[i] /\ i \in 1 .. n
  <2>1. stack \in Seq(Branch)
    BY DEF IInv, TypeOK, MachineTypeOK
  <2> QED
    BY <2>1, PoppedSeq DEF Popped
<1>2. /\ branch' = stack[n] /\ branch'.lower \in Nat /\ branch'.upper \in Nat
      /\ branch'.lower <= branch'.upper
      /\ branch'.lower = IF n = 1 THEN FirstUid ELSE stack[n - 1].upper + 1
  <2>1. branch' = stack[n] /\ n \in 1 .. n
    BY <1>1 DEF Top
  <2>2. stack[n].lower \in Nat /\ stack[n].upper \in Nat
    BY <1>1 DEF Branch, Uid, FirstUid
  <2>3. /\ stack[n].lower <= stack[n].upper
        /\ stack[n].lower = IF n = 1 THEN FirstUid ELSE stack[n - 1].upper + 1
    BY <2>1 DEF IInv, SearchInv, BranchesTile
  <2> QED
    BY <2>1, <2>2, <2>3
<1>3. BranchesTile'
  <2>1. \A i \in 1 .. Len(stack') :
            /\ stack'[i].lower <= stack'[i].upper
            /\ stack'[i].lower = IF i = 1 THEN FirstUid ELSE stack'[i - 1].upper + 1
    <3> SUFFICES ASSUME NEW i \in 1 .. n - 1
                 PROVE  /\ stack'[i].lower <= stack'[i].upper
                        /\ stack'[i].lower = IF i = 1 THEN FirstUid
                                             ELSE stack'[i - 1].upper + 1
      BY <1>1
    <3>1. i \in 1 .. n /\ stack'[i] = stack[i]
      BY <1>1
    <3>2. i # 1 => stack'[i - 1] = stack[i - 1]
      BY <1>1
    <3> QED
      BY <3>1, <3>2 DEF IInv, SearchInv, BranchesTile
  <2>2. branch'.lower = IF stack' = << >> THEN FirstUid ELSE Top'.upper + 1
    <3>1. CASE n = 1
      BY <1>1, <1>2, <3>1
    <3>2. CASE n # 1
      <4>1. stack' # << >> /\ Top' = stack[n - 1]
        BY <1>1, <3>2 DEF Top
      <4> QED
        BY <1>2, <3>2, <4>1
    <3> QED
      BY <3>1, <3>2
  <2>3. Halving' => branch'.lower < branch'.upper
    BY <1>1, <1>2 DEF Halving, Top
  <2> QED
    BY <1>2, <2>1, <2>2, <2>3 DEF BranchesTile
<1>4. NotRunningElsewhere'
  BY DEF NotRunningElsewhere
<1>5. SizeBound'
  <2>1. /\ Len(stack') <= UID_BITS + 1 /\ Len(stack') <= UID_BITS
        /\ n <= UID_BITS + 1
    BY <1>1, Powers DEF IInv, SearchInv, SizeBound
  <2>2. \A i \in 1 .. Len(stack') : Size(stack'[i]) <= PowerOfTwo[UID_BITS + 1 - i]
    BY <1>1 DEF IInv, SearchInv, SizeBound
  <2>3. Size(branch') <= PowerOfTwo[UID_BITS - Len(stack')]
    <3>1. Size(stack[n]) <= PowerOfTwo[UID_BITS + 1 - n]
      BY <1>1 DEF IInv, SearchInv, SizeBound
    <3>2. UID_BITS - Len(stack') = UID_BITS + 1 - n
      BY <1>1, Powers
    <3> QED
      BY <1>2, <3>1, <3>2
  <2> QED
    BY <2>1, <2>2, <2>3 DEF SizeBound, Size
<1> QED
  BY <1>1, <1>2, <1>3, <1>4, <1>5 DEF SearchInv

(* Where two places are put behind n others, a place is one of the n or one  *)
(* of the two.                                                               *)
LEMMA LastTwo ==
    ASSUME NEW n \in Nat, NEW i \in 1 .. n + 2
    PROVE  i \in 1 .. n \/ i = n + 1 \/ i = n + 2
OBVIOUS

(* A branch of at most 2 Q UIDs cut at its middle: the lower half is no      *)
(* larger than the branch, the upper one has at most Q.                      *)
LEMMA HalvesBound ==
    ASSUME NEW l \in Nat, NEW m \in Nat, NEW u \in Nat, NEW Q \in Nat,
           m = (l + u) \div 2, l <= m, m < u, u - l + 1 <= 2 * Q
    PROVE  m - l + 1 <= 2 * Q /\ u - (m + 1) + 1 <= Q
OBVIOUS

(* The branch in hand goes back to the stack as two halves. *)
LEMMA SearchSplit ==
    ASSUME IInv, Halving,
           stack' = stack \o << [lower |-> branch.lower,
                                 upper |-> MidPosition(branch.lower, branch.upper)],
                                [lower |-> MidPosition(branch.lower, branch.upper) + 1,
                                 upper |-> branch.upper] >>,
           Resumed' = "DISCOVERY", discovery'.running = FALSE
    PROVE  SearchInv' /\ stack' \in Seq(Branch)
<1> DEFINE n == Len(stack)
           mid == MidPosition(branch.lower, branch.upper)
           low == [lower |-> branch.lower, upper |-> mid]
           high == [lower |-> mid + 1, upper |-> branch.upper]
<1>1. /\ branch.lower \in Uid /\ branch.upper \in Uid
      /\ branch.lower \in Nat /\ branch.upper \in Nat
      /\ branch.lower < branch.upper
      /\ branch.lower = IF n = 0 THEN FirstUid ELSE stack[n].upper + 1
  <2>1. branch.lower < branch.upper /\ branch \in Branch /\ BranchInHand
    BY DEF IInv, TypeOK, MachineTypeOK, SearchInv, BranchesTile, BranchInHand
  <2>2. stack = << >> <=> n = 0
    BY DEF IInv, TypeOK, MachineTypeOK
  <2> QED
    BY <2>1, <2>2 DEF Branch, Uid, FirstUid, IInv, SearchInv, BranchesTile, Top
<1>2. /\ mid = (branch.lower + branch.upper) \div 2
      /\ mid \in Nat /\ branch.lower <= mid /\ mid < branch.upper
      /\ low \in Branch /\ high \in Branch
  <2>1. /\ mid = (branch.lower + branch.upper) \div 2
        /\ branch.lower <= mid /\ mid < branch.upper
        /\ mid \in Uid /\ mid + 1 \in Uid
    BY <1>1, MidPositionIsMiddle
  <2> HIDE DEF mid
  <2>2. mid \in Nat
    BY <2>1 DEF Uid, FirstUid
  <2> QED
    BY <1>1, <2>1, <2>2 DEF Branch
<1> HIDE DEF mid
<1>halves. /\ low.lower = branch.lower /\ low.upper = mid
      /\ high.lower = mid + 1 /\ high.upper = branch.upper
  OBVIOUS
<1>3. /\ n \in Nat
      /\ stack' \in Seq(Branch)
      /\ Len(stack') = n + 2
      /\ \A i \in 1 .. n : stack'[i] = stack[i]
      /\ stack'[n + 1] = low /\ stack'[n + 2] = high
  <2>1. stack \in Seq(Branch)
    BY DEF IInv, TypeOK, MachineTypeOK
  <2>2. stack' = stack \o << low, high >>
    BY DEF mid
  <2> HIDE DEF low, high
  <2> QED
    BY <1>2, <2>1, <2>2
<1> HIDE DEF low, high
<1>4. ~BranchInHand' /\ ~Halving' /\ NotRunningElsewhere'
  BY DEF BranchInHand, Halving, NotRunningElsewhere
<1>5. BranchesTile'
  <2> SUFFICES ASSUME NEW i \in 1 .. n + 2
               PROVE  /\ stack'[i].lower <= stack'[i].upper
                      /\ stack'[i].lower = IF i = 1 THEN FirstUid
                                           ELSE stack'[i - 1].upper + 1
    BY <1>3, <1>4 DEF BranchesTile
  <2>1. CASE i \in 1 .. n
    <3>1. i # 1 => stack'[i - 1] = stack[i - 1]
      BY <1>3, <2>1
    <3> QED
      BY <1>3, <2>1, <3>1 DEF IInv, SearchInv, BranchesTile
  <2>2. CASE i = n + 1
    <3>1. i # 1 => stack'[i - 1] = stack[n]
      BY <1>3, <2>2
    <3> QED
      BY <1>1, <1>2, <1>halves, <1>3, <2>2, <3>1
  <2>3. CASE i = n + 2
    <3>1. i # 1 /\ i - 1 = n + 1
      BY <1>3, <2>3
    <3>2. stack'[i] = high /\ stack'[i - 1] = low
      BY <1>3, <2>3, <3>1
    <3>3. high.lower <= high.upper /\ high.lower = low.upper + 1
      BY <1>1, <1>2, <1>halves
    <3> QED
      BY <3>1, <3>2, <3>3
  <2>4. i \in 1 .. n \/ i = n + 1 \/ i = n + 2
    BY <1>3, LastTwo
  <2> QED
    BY <2>1, <2>2, <2>3, <2>4
<1>6. SizeBound'
  <2> DEFINE k == UID_BITS - n
  <2>1. n <= UID_BITS /\ Size(branch) <= PowerOfTwo[k]
    BY DEF IInv, SearchInv, SizeBound, BranchInHand
  <2>2. /\ k \in 1 .. UID_BITS /\ UID_BITS + 1 - (n + 1) = k
        /\ UID_BITS + 1 - (n + 2) = k - 1
    <3>1. k \in Nat /\ k <= UID_BITS
      BY <1>3, <2>1, Powers
    <3>2. k # 0
      BY <1>1, <2>1, Powers DEF Size
    <3> QED
      BY <1>3, <3>1, <3>2, Powers
  <2>3. PowerOfTwo[k] = 2 * PowerOfTwo[k - 1] /\ PowerOfTwo[k - 1] \in Nat
    <3>1. k - 1 \in 0 .. UID_BITS
      BY <2>2, Powers
    <3> QED
      BY <2>2, <3>1, UidAssumption, Powers
  <2> HIDE DEF k
  <2>4. Size(low) <= PowerOfTwo[k] /\ Size(high) <= PowerOfTwo[k - 1]
    <3>1. PowerOfTwo[k] \in Nat
      BY <2>2, Powers
    <3>2. /\ Size(low) = mid - branch.lower + 1
          /\ Size(high) = branch.upper - (mid + 1) + 1
      BY <1>halves DEF Size
    <3>3. branch.upper - branch.lower + 1 <= PowerOfTwo[k]
      BY <2>1 DEF Size
    <3>4. PowerOfTwo[k - 1] \in Nat
      BY <2>3
    <3> DEFINE P == PowerOfTwo[k]
               Q == PowerOfTwo[k - 1]
    <3>5. P = 2 * Q /\ P \in Nat /\ Q \in Nat
      BY <2>3, <3>1
    <3> HIDE DEF P, Q
    <3>6. branch.upper - branch.lower + 1 <= P
      BY <3>3 DEF P
    <3>7. mid - branch.lower + 1 <= P /\ branch.upper - (mid + 1) + 1 <= Q
      <4>1. branch.lower \in Nat /\ branch.upper \in Nat
        BY <1>1
      <4> QED
        BY <1>2, <3>5, <3>6, <4>1, HalvesBound
    <3> QED
      BY <3>2, <3>7 DEF P, Q
  <2>5. n + 2 <= UID_BITS + 1
    BY <1>3, <2>2, Powers DEF k
  <2>6. ASSUME NEW i \in 1 .. n + 2
        PROVE  Size(stack'[i]) <= PowerOfTwo[UID_BITS + 1 - i]
    <3>1. CASE i \in 1 .. n
      BY <1>3, <3>1 DEF IInv, SearchInv, SizeBound
    <3>2. CASE i = n + 1
      BY <1>3, <2>2, <2>4, <3>2
    <3>3. CASE i = n + 2
      BY <1>3, <2>2, <2>4, <3>3
    <3> QED
      BY <1>3, <3>1, <3>2, <3>3
  <2> QED
    BY <1>3, <1>4, <2>5, <2>6 DEF SizeBound, Size
<1> QED
  BY <1>3, <1>4, <1>5, <1>6 DEF SearchInv

LEMMA SearchUntouched ==
    ASSUME IInv, UNCHANGED <<state, savedState, stack, branch>>,
           discovery'.running = discovery.running
    PROVE  SearchInv'
BY SearchKept
   DEF IInv, SearchInv, NotRunningElsewhere, Halving, BranchInHand, Resumed

LEMMA TimeOutBudget ==
    ASSUME NEW left, TypeOK, TimeOut(left)
    PROVE  left \in 0 .. MaxFaults
BY DiscoveryAssumption DEF TimeOut, TypeOK, LineTypeOK

LEMMA Counters ==
    /\ UNMUTE_COUNTER \in Nat /\ MUTE_COUNTER \in Nat
    /\ DISCOVERY_COUNTER \in Nat /\ QUIKFIND_COUNTER \in Nat
    /\ QUIKFIND_DISCOVERY_COUNTER \in Nat
    /\ \A n \in Nat : /\ Command(n) \in [counter : Nat, running : BOOLEAN]
                      /\ Command(n).running = FALSE
BY DiscoveryAssumption DEF Command

(* The table operators keep a table a sequence of unicast UIDs. *)
LEMMA TodType ==
    ASSUME NEW t \in Seq(Uid)
    PROVE  /\ \A uid \in Uid : AddUid(t, uid) \in Seq(Uid)
           /\ \A n \in Nat : CopyUidEntry(t, n) \in AnyUid
           /\ \A uid : Delete(t, uid) \in Seq(Uid)
           /\ EmptyTod \in Seq(Uid)
<1>1. \A uid \in Uid : AddUid(t, uid) \in Seq(Uid)
  BY DEF AddUid
<1>2. \A n \in Nat : CopyUidEntry(t, n) \in AnyUid
  BY DEF CopyUidEntry, AnyUid
<1>3. ASSUME NEW uid PROVE Delete(t, uid) \in Seq(Uid)
  <2> DEFINE first == CHOOSE i \in DOMAIN t :
                          t[i] = uid /\ \A j \in DOMAIN t : t[j] = uid => i <= j
             Kept(i) == IF i < first THEN t[i] ELSE t[i + 1]
  <2>1. CASE Exist(t, uid)
    <3>1. Len(t) \in Nat /\ DOMAIN t = 1 .. Len(t)
      OBVIOUS
    <3>2. Len(t) - 1 \in Nat
      BY <2>1, <3>1 DEF Exist, TodUids
    <3>3. ASSUME NEW i \in 1 .. (Len(t) - 1) PROVE Kept(i) \in Uid
      <4>1. i \in 1 .. Len(t) /\ i + 1 \in 1 .. Len(t)
        BY <3>1, <3>3
      <4> HIDE DEF first
      <4> QED
        BY <4>1, ElementOfSeq
    <3>4. Delete(t, uid) = [i \in 1 .. (Len(t) - 1) |-> Kept(i)]
      BY <2>1 DEF Delete
    <3> HIDE DEF Kept
    <3> QED
      BY <3>2, <3>3, <3>4, IsASeq
  <2>2. CASE ~Exist(t, uid)
    BY <2>2 DEF Delete
  <2> QED
    BY <2>1, <2>2
<1> QED
  BY <1>1, <1>2, <1>3 DEF EmptyTod

-----------------------------------------------------------------------------
(* Every action preserves the invariant.                                   *)

(* State LATE_RESPONSE. *)
LEMMA LateResponseStep ==
    ASSUME IInv, LateResponse
    PROVE  IInv'
<1>1. Resumed' = Resumed /\ state' \in States
  BY DEF LateResponse, Resumed, IInv, TypeOK, MachineTypeOK
<1>2. SearchInv'
  BY <1>1, SearchKept
  DEF LateResponse, counters, IInv, SearchInv, NotRunningElsewhere, Halving,
      BranchInHand
<1>3. LineTypeOK'
  BY QuietLineType DEF IInv, LateResponse
<1>4. MachineTypeOK'
  BY <1>1 DEF IInv, TypeOK, MachineTypeOK, control, counters, LateResponse
<1> QED
  BY <1>2, <1>3, <1>4 DEF IInv, TypeOK

(* State UNMUTE. *)
LEMMA UnMuteStep ==
    ASSUME IInv,
           UnMuteDone \/ UnMuteSend \/ UnMuteWait
    PROVE  IInv'
<1>1. CASE UnMuteDone
  <2>1. /\ state' \in States
        /\ savedState' \in States \ {"LATE_RESPONSE"}
        /\ Resumed' = IF doIncremental THEN "MUTE" ELSE "DISCOVERY"
        /\ Resumed = state
    BY <1>1, NewStateTarget
    DEF IInv, TypeOK, MachineTypeOK, States, Resumed, UnMuteDone
  <2>2. SearchInv'
    BY <1>1, <2>1, SearchKept
    DEF UnMuteDone, IInv, SearchInv, NotRunningElsewhere, TypeOK,
        MachineTypeOK, Halving, BranchInHand
  <2>3. LineTypeOK'
    BY <1>1, QuietLineType DEF IInv, UnMuteDone
  <2>4. MachineTypeOK'
    BY <1>1, <2>1, Counters
    DEF IInv, TypeOK, MachineTypeOK, control, counters, UnMuteDone
  <2> QED
    BY <2>2, <2>3, <2>4 DEF IInv, TypeOK
<1>2. CASE UnMuteSend
  <2>1. SearchInv'
    BY <1>2, SearchUntouched DEF UnMuteSend, IInv, TypeOK, MachineTypeOK
  <2>2. LineTypeOK'
    <3>1. DiscUnMute \in Requests
      BY <1>2
      DEF IInv, TypeOK, MachineTypeOK, Requests, AnyUid, Branch, DiscUnMute,
          UnMuteSend
    <3>2. faults \in 0 .. MaxFaults
      BY DEF IInv, TypeOK, LineTypeOK
    <3> QED
      BY <1>2, <3>1, <3>2, TransmitType, TimeOutBudget DEF IInv, UnMuteSend
  <2>3. MachineTypeOK'
    BY <1>2, Counters
    DEF IInv, TypeOK, MachineTypeOK, control, counters, UnMuteSend
  <2> QED
    BY <2>1, <2>2, <2>3 DEF IInv, TypeOK
<1>3. CASE UnMuteWait
  <2>1. SearchInv'
    BY <1>3, SearchUntouched DEF UnMuteWait, IInv, TypeOK, MachineTypeOK
  <2>2. LineTypeOK'
    BY <1>3, QuietLineType DEF IInv, UnMuteWait
  <2>3. MachineTypeOK'
    <3>1. unMute.counter - 1 \in Nat
      BY <1>3 DEF IInv, TypeOK, MachineTypeOK, UnMuteWait
    <3>2. Command(unMute.counter - 1) \in [counter : Nat, running : BOOLEAN]
      BY <1>3, <3>1, Counters DEF IInv, TypeOK, MachineTypeOK, UnMuteWait
    <3> QED
      BY <1>3, <3>1, <3>2, Counters
      DEF IInv, TypeOK, MachineTypeOK, control, counters, UnMuteWait
  <2> QED
    BY <2>1, <2>2, <2>3 DEF IInv, TypeOK
<1> QED
  BY <1>1, <1>2, <1>3

(* State MUTE. *)
LEMMA MuteStep ==
    ASSUME IInv,
           MuteDone \/ MuteGone \/ MuteSend \/ MuteAnswer \/ MuteTimeOut
    PROVE  IInv'
<1>1. CASE MuteDone
  <2>1. /\ state' \in States
        /\ savedState' \in States \ {"LATE_RESPONSE"}
        /\ Resumed' = "DISCOVERY"
        /\ Resumed = state
    BY <1>1, NewStateTarget
    DEF IInv, TypeOK, MachineTypeOK, States, Resumed, MuteDone
  <2>2. SearchInv'
    BY <1>1, <2>1, SearchKept
    DEF MuteDone, IInv, SearchInv, NotRunningElsewhere, TypeOK, MachineTypeOK,
        Halving, BranchInHand
  <2>3. LineTypeOK'
    BY <1>1, QuietLineType DEF IInv, MuteDone
  <2>4. MachineTypeOK'
    BY <1>1, <2>1, Counters
    DEF IInv, TypeOK, MachineTypeOK, control, counters, MuteDone
  <2> QED
    BY <2>2, <2>3, <2>4 DEF IInv, TypeOK
<1>2. CASE MuteGone
  <2>1. SearchInv'
    BY <1>2, SearchUntouched DEF MuteGone, IInv, TypeOK, MachineTypeOK
  <2>2. LineTypeOK'
    BY <1>2, QuietLineType DEF IInv, MuteGone
  <2>3. MachineTypeOK'
    <3>1. tod[portIndex] \in Seq(Uid)
      BY <1>2 DEF IInv, TypeOK, MachineTypeOK, MuteGone
    <3>2. tod' \in [Ports -> Seq(Uid)]
      BY <1>2, <3>1, TodType DEF IInv, TypeOK, MachineTypeOK, MuteGone
    <3>3. mute.todEntries - 1 \in Nat
      BY <1>2, <3>1, <3>2 DEF IInv, TypeOK, MachineTypeOK, MuteGone
    <3> QED
      BY <1>2, <3>1, <3>2, <3>3, Counters
      DEF IInv, TypeOK, MachineTypeOK, control, counters, MuteGone
  <2> QED
    BY <2>1, <2>2, <2>3 DEF IInv, TypeOK
<1>3. CASE MuteSend
  <2>1. SearchInv'
    BY <1>3, SearchUntouched DEF MuteSend, IInv, TypeOK, MachineTypeOK
  <2>2. LineTypeOK'
    <3>1. DiscMute(CopyUidEntry(tod[portIndex], mute.todEntries - 1)) \in Requests
      <4>1. tod[portIndex] \in Seq(Uid) /\ mute.todEntries - 1 \in Nat
        BY <1>3 DEF IInv, TypeOK, MachineTypeOK, MuteSend
      <4>2. CopyUidEntry(tod[portIndex], mute.todEntries - 1) \in AnyUid
        BY <4>1, TodType
      <4> QED
        BY <4>2 DEF Requests, DiscMute
    <3>2. faults \in 0 .. MaxFaults
      BY DEF IInv, TypeOK, LineTypeOK
    <3> QED
      BY <1>3, <3>1, <3>2, TransmitType, TimeOutBudget DEF IInv, MuteSend
  <2>3. MachineTypeOK'
    <3>1. tod[portIndex] \in Seq(Uid)
      BY <1>3 DEF IInv, TypeOK, MachineTypeOK, MuteSend
    <3>2. mute.todEntries - 1 \in Nat
      BY <1>3, <3>1 DEF IInv, TypeOK, MachineTypeOK, MuteSend
    <3>3. CopyUidEntry(tod[portIndex], mute.todEntries - 1) \in AnyUid
      BY <1>3, <3>1, <3>2, TodType DEF IInv, TypeOK, MachineTypeOK, MuteSend
    <3> QED
      BY <1>3, <3>1, <3>2, <3>3, Counters
      DEF IInv, TypeOK, MachineTypeOK, control, counters, MuteSend
  <2> QED
    BY <2>1, <2>2, <2>3 DEF IInv, TypeOK
<1>4. CASE MuteAnswer
  <2>1. SearchInv'
    BY <1>4, SearchUntouched DEF MuteAnswer, IInv, TypeOK, MachineTypeOK
  <2>2. LineTypeOK'
    BY <1>4, QuietLineType DEF IInv, MuteAnswer
  <2>3. MachineTypeOK'
    <3>1. mute.todEntries - 1 \in Nat
      BY <1>4 DEF IInv, TypeOK, MachineTypeOK, MuteAnswer
    <3> QED
      BY <1>4, <3>1, Counters
      DEF IInv, TypeOK, MachineTypeOK, control, counters, MuteAnswer
  <2> QED
    BY <2>1, <2>2, <2>3 DEF IInv, TypeOK
<1>5. CASE MuteTimeOut
  <2>1. SearchInv'
    BY <1>5, SearchUntouched DEF MuteTimeOut, IInv, TypeOK, MachineTypeOK
  <2>2. LineTypeOK'
    <3>1. DiscMute(mute.uid) \in Requests
      BY <1>5
      DEF IInv, TypeOK, MachineTypeOK, Requests, AnyUid, Branch, DiscMute,
          MuteTimeOut
    <3>2. faults \in 0 .. MaxFaults
      BY DEF IInv, TypeOK, LineTypeOK
    <3> QED
      BY <1>5, <3>1, <3>2, TransmitType, TimeOutBudget DEF IInv, MuteTimeOut
  <2>3. MachineTypeOK'
    <3>1. mute.counter - 1 \in Nat
      BY <1>5 DEF IInv, TypeOK, MachineTypeOK, MuteTimeOut
    <3>2. [mute EXCEPT !.counter = @ - 1] \in [counter : Nat, running : BOOLEAN, todEntries : Nat, uid : AnyUid]
      BY <1>5, <3>1 DEF IInv, TypeOK, MachineTypeOK, MuteTimeOut
    <3> QED
      BY <1>5, <3>1, <3>2, Counters
      DEF IInv, TypeOK, MachineTypeOK, control, counters, MuteTimeOut
  <2> QED
    BY <2>1, <2>2, <2>3 DEF IInv, TypeOK
<1> QED
  BY <1>1, <1>2, <1>3, <1>4, <1>5

(* State DISCOVERY. *)
LEMMA DiscoveryStep ==
    ASSUME IInv,
           \/ DiscoveryAnswer \/ DiscoveryTimeOut \/ DiscoveryFinished
           \/ DiscoverySingleUid \/ DiscoverySend
    PROVE  IInv'
<1>1. CASE DiscoveryAnswer
  <2>1. /\ state' \in States
        /\ savedState' \in States \ {"LATE_RESPONSE"}
        /\ Resumed' = "DUB"
        /\ Resumed = state
    BY <1>1, NewStateTarget
    DEF IInv, TypeOK, MachineTypeOK, States, Resumed, DiscoveryAnswer
  <2>2. SearchInv'
    BY <1>1, <2>1, SearchKept
    DEF DiscoveryAnswer, IInv, SearchInv, NotRunningElsewhere, TypeOK,
        MachineTypeOK, Halving, BranchInHand
  <2>3. LineTypeOK'
    BY <1>1, QuietLineType DEF IInv, DiscoveryAnswer
  <2>4. MachineTypeOK'
    <3>1. response' \in Replies
      BY <1>1, NoReplyType
      DEF IInv, TypeOK, MachineTypeOK, LineTypeOK, Received, DiscoveryAnswer
    <3> QED
      BY <1>1, <2>1, <3>1, Counters
      DEF IInv, TypeOK, MachineTypeOK, control, counters, DiscoveryAnswer
  <2> QED
    BY <2>2, <2>3, <2>4 DEF IInv, TypeOK
<1>2. CASE DiscoveryTimeOut
  <2>1. SearchInv'
    BY <1>2, SearchUntouched DEF DiscoveryTimeOut, IInv, TypeOK, MachineTypeOK
  <2>2. LineTypeOK'
    <3>1. DiscUniqueBranch(branch.lower, branch.upper) \in Requests
      BY <1>2
      DEF IInv, TypeOK, MachineTypeOK, Requests, AnyUid, Branch,
          DiscUniqueBranch, DiscoveryTimeOut
    <3>2. faults \in 0 .. MaxFaults
      BY DEF IInv, TypeOK, LineTypeOK
    <3> QED
      BY <1>2, <3>1, <3>2, TransmitType, TimeOutBudget
      DEF IInv, DiscoveryTimeOut
  <2>3. MachineTypeOK'
    <3>1. discovery.counter - 1 \in Nat
      BY <1>2 DEF IInv, TypeOK, MachineTypeOK, DiscoveryTimeOut
    <3>2. [discovery EXCEPT !.counter = @ - 1] \in [counter : Nat, running : BOOLEAN]
      BY <1>2, <3>1 DEF IInv, TypeOK, MachineTypeOK, DiscoveryTimeOut
    <3> QED
      BY <1>2, <3>1, <3>2, Counters
      DEF IInv, TypeOK, MachineTypeOK, control, counters, DiscoveryTimeOut
  <2> QED
    BY <2>1, <2>2, <2>3 DEF IInv, TypeOK
<1>3. CASE DiscoveryFinished
  <2>1. /\ state' \in States
        /\ savedState' \in States \ {"LATE_RESPONSE"}
        /\ Resumed' = "FINISHED"
        /\ Resumed = state
    BY <1>3, NewStateTarget
    DEF IInv, TypeOK, MachineTypeOK, States, Resumed, DiscoveryFinished
  <2>2. SearchInv'
    BY <1>3, <2>1, SearchKept
    DEF DiscoveryFinished, IInv, SearchInv, NotRunningElsewhere, TypeOK,
        MachineTypeOK, Halving, BranchInHand, counters
  <2>3. LineTypeOK'
    BY <1>3, QuietLineType DEF IInv, DiscoveryFinished
  <2>4. MachineTypeOK'
    BY <1>3, <2>1, Counters
    DEF IInv, TypeOK, MachineTypeOK, control, counters, DiscoveryFinished
  <2> QED
    BY <2>2, <2>3, <2>4 DEF IInv, TypeOK
<1>4. CASE DiscoverySingleUid
  <2>1. /\ state' \in States
        /\ savedState' \in States \ {"LATE_RESPONSE"}
        /\ Resumed' = "DISCOVERY_SINGLE_DEVICE"
        /\ Resumed = state
    BY <1>4, NewStateTarget
    DEF IInv, TypeOK, MachineTypeOK, States, Resumed, DiscoverySingleUid
  <2>2. SearchInv' /\ branch' \in Branch /\ stack' \in Seq(Branch)
    BY <1>4, <2>1, SearchPopped
    DEF DiscoverySingleUid, IInv, SearchInv, NotRunningElsewhere, TypeOK,
        MachineTypeOK
  <2>3. LineTypeOK'
    BY <1>4, QuietLineType DEF IInv, DiscoverySingleUid
  <2>4. MachineTypeOK'
    BY <1>4, <2>1, <2>2, Counters
    DEF IInv, TypeOK, MachineTypeOK, control, counters, DiscoverySingleUid
  <2> QED
    BY <2>2, <2>3, <2>4 DEF IInv, TypeOK
<1>5. CASE DiscoverySend
  <2>1. SearchInv' /\ branch' \in Branch /\ stack' \in Seq(Branch)
    BY <1>5, SearchPopped, PoppedSeq, Counters
    DEF DiscoverySend, IInv, SearchInv, NotRunningElsewhere, TypeOK,
        MachineTypeOK, Top, Resumed
  <2>2. LineTypeOK'
    <3>1. DiscUniqueBranch(Top.lower, Top.upper) \in Requests
      <4>1. Top \in Branch
        BY <1>5, PoppedSeq DEF IInv, TypeOK, MachineTypeOK, Top, DiscoverySend
      <4> QED
        BY <4>1 DEF Requests, DiscUniqueBranch, Branch
    <3>2. faults \in 0 .. MaxFaults
      BY DEF IInv, TypeOK, LineTypeOK
    <3> QED
      BY <1>5, <3>1, <3>2, TransmitType, TimeOutBudget DEF IInv, DiscoverySend
  <2>3. MachineTypeOK'
    BY <1>5, <2>1, Counters
    DEF IInv, TypeOK, MachineTypeOK, control, counters, DiscoverySend
  <2> QED
    BY <2>1, <2>2, <2>3 DEF IInv, TypeOK
<1> QED
  BY <1>1, <1>2, <1>3, <1>4, <1>5

(* State DISCOVERY_SINGLE_DEVICE. *)
LEMMA SingleStep ==
    ASSUME IInv,
           SingleGiveUp \/ SingleSend \/ SingleAnswer \/ SingleTimeOut
    PROVE  IInv'
<1>1. CASE SingleGiveUp
  <2>1. /\ state' \in States
        /\ savedState' \in States \ {"LATE_RESPONSE"}
        /\ Resumed' = "DISCOVERY"
        /\ Resumed = state
    BY <1>1, NewStateTarget
    DEF IInv, TypeOK, MachineTypeOK, States, Resumed, SingleGiveUp
  <2>2. SearchInv'
    BY <1>1, <2>1, SearchKept
    DEF SingleGiveUp, IInv, SearchInv, NotRunningElsewhere, TypeOK,
        MachineTypeOK, Halving, BranchInHand
  <2>3. LineTypeOK'
    BY <1>1, QuietLineType DEF IInv, SingleGiveUp
  <2>4. MachineTypeOK'
    BY <1>1, <2>1, Counters
    DEF IInv, TypeOK, MachineTypeOK, control, counters, SingleGiveUp
  <2> QED
    BY <2>2, <2>3, <2>4 DEF IInv, TypeOK
<1>2. CASE SingleSend
  <2>1. SearchInv'
    BY <1>2, SearchUntouched DEF SingleSend, IInv, TypeOK, MachineTypeOK
  <2>2. LineTypeOK'
    <3>1. DiscMute(branch.lower) \in Requests
      BY <1>2
      DEF IInv, TypeOK, MachineTypeOK, Requests, AnyUid, Branch, DiscMute,
          SingleSend
    <3>2. faults \in 0 .. MaxFaults
      BY DEF IInv, TypeOK, LineTypeOK
    <3> QED
      BY <1>2, <3>1, <3>2, TransmitType, TimeOutBudget DEF IInv, SingleSend
  <2>3. MachineTypeOK'
    BY <1>2, Counters
    DEF IInv, TypeOK, MachineTypeOK, control, counters, SingleSend
  <2> QED
    BY <2>1, <2>2, <2>3 DEF IInv, TypeOK
<1>3. CASE SingleAnswer
  <2>1. CASE Received # MuteAck(branch.lower)
    <3>1. UNCHANGED <<state, savedState, tod, single, stack, branch, discovery>>
      BY <1>3, <2>1 DEF SingleAnswer
    <3>2. SearchInv'
      BY <3>1, SearchUntouched
    <3>3. LineTypeOK'
      BY <1>3, QuietLineType DEF IInv, SingleAnswer
    <3>4. MachineTypeOK'
      BY <1>3, <3>1 DEF IInv, TypeOK, MachineTypeOK, control, SingleAnswer
    <3> QED
      BY <3>2, <3>3, <3>4 DEF IInv, TypeOK
  <2>2. CASE Received = MuteAck(branch.lower)
    <3>1. /\ state' \in States
          /\ savedState' \in States \ {"LATE_RESPONSE"}
          /\ Resumed' = "DISCOVERY"
          /\ Resumed = state
      BY <1>3, <2>2, NewStateTarget
      DEF IInv, TypeOK, MachineTypeOK, States, Resumed, SingleAnswer
    <3>2. SearchInv'
      BY <1>3, <3>1, SearchKept
      DEF SingleAnswer, IInv, SearchInv, NotRunningElsewhere, TypeOK,
          MachineTypeOK, Halving, BranchInHand
    <3>3. LineTypeOK'
      BY <1>3, QuietLineType DEF IInv, SingleAnswer
    <3>4. tod' \in [Ports -> Seq(Uid)]
      <4>1. tod[portIndex] \in Seq(Uid) /\ branch.lower \in Uid
        BY DEF IInv, TypeOK, MachineTypeOK, Branch
      <4>2. AddUid(tod[portIndex], branch.lower) \in Seq(Uid)
        BY <4>1, TodType
      <4> QED
        BY <1>3, <2>2, <4>2 DEF IInv, TypeOK, MachineTypeOK, SingleAnswer
    <3>5. MachineTypeOK'
      BY <1>3, <2>2, <3>1, <3>4, Counters
      DEF IInv, TypeOK, MachineTypeOK, control, SingleAnswer
    <3> QED
      BY <3>2, <3>3, <3>5 DEF IInv, TypeOK
  <2> QED
    BY <2>1, <2>2
<1>4. CASE SingleTimeOut
  <2>1. SearchInv'
    BY <1>4, SearchUntouched DEF SingleTimeOut, IInv, TypeOK, MachineTypeOK
  <2>2. LineTypeOK'
    <3>1. DiscMute(branch.lower) \in Requests
      BY <1>4
      DEF IInv, TypeOK, MachineTypeOK, Requests, AnyUid, Branch, DiscMute,
          SingleTimeOut
    <3>2. faults \in 0 .. MaxFaults
      BY DEF IInv, TypeOK, LineTypeOK
    <3> QED
      BY <1>4, <3>1, <3>2, TransmitType, TimeOutBudget DEF IInv, SingleTimeOut
  <2>3. MachineTypeOK'
    <3>1. single.counter - 1 \in Nat
      BY <1>4 DEF IInv, TypeOK, MachineTypeOK, SingleTimeOut
    <3>2. [single EXCEPT !.counter = @ - 1] \in [counter : Nat, running : BOOLEAN]
      BY <1>4, <3>1 DEF IInv, TypeOK, MachineTypeOK, SingleTimeOut
    <3> QED
      BY <1>4, <3>1, <3>2, Counters
      DEF IInv, TypeOK, MachineTypeOK, control, counters, SingleTimeOut
  <2> QED
    BY <2>1, <2>2, <2>3 DEF IInv, TypeOK
<1> QED
  BY <1>1, <1>2, <1>3, <1>4

(* State DUB. *)
LEMMA DubStep ==
    ASSUME IInv,
           DubSilence \/ DubFound \/ DubSplit
    PROVE  IInv'
<1>1. CASE DubSilence
  <2>1. /\ state' \in States
        /\ savedState' \in States \ {"LATE_RESPONSE"}
        /\ Resumed' = "DISCOVERY"
        /\ Resumed = state
    BY <1>1, NewStateTarget
    DEF IInv, TypeOK, MachineTypeOK, States, Resumed, DubSilence
  <2>2. SearchInv'
    BY <1>1, <2>1, SearchKept
    DEF DubSilence, IInv, SearchInv, NotRunningElsewhere, TypeOK,
        MachineTypeOK, Halving, BranchInHand, counters
  <2>3. LineTypeOK'
    BY <1>1, QuietLineType DEF IInv, DubSilence
  <2>4. MachineTypeOK'
    BY <1>1, <2>1, Counters
    DEF IInv, TypeOK, MachineTypeOK, control, counters, DubSilence
  <2> QED
    BY <2>2, <2>3, <2>4 DEF IInv, TypeOK
<1>2. CASE DubFound
  <2>1. /\ state' \in States
        /\ savedState' \in States \ {"LATE_RESPONSE"}
        /\ Resumed' = "QUICKFIND"
        /\ Resumed = state
    BY <1>2, NewStateTarget
    DEF IInv, TypeOK, MachineTypeOK, States, Resumed, DubFound
  <2>2. SearchInv'
    BY <1>2, <2>1, SearchKept
    DEF DubFound, IInv, SearchInv, NotRunningElsewhere, TypeOK, MachineTypeOK,
        Halving, BranchInHand, counters
  <2>3. LineTypeOK'
    BY <1>2, QuietLineType DEF IInv, DubFound
  <2>4. MachineTypeOK'
    <3>1. response.uid \in Uid
      BY <1>2
      DEF IInv, TypeOK, MachineTypeOK, IsValidDiscoveryResponse, Replies,
          NoReply, Collision, DubFound
    <3> QED
      BY <1>2, <2>1, <3>1, Counters
      DEF IInv, TypeOK, MachineTypeOK, control, counters, DubFound
  <2> QED
    BY <2>2, <2>3, <2>4 DEF IInv, TypeOK
<1>3. CASE DubSplit
  <2>1. /\ state' \in States
        /\ savedState' \in States \ {"LATE_RESPONSE"}
        /\ Resumed' = "DISCOVERY"
        /\ Resumed = state
    BY <1>3, NewStateTarget
    DEF IInv, TypeOK, MachineTypeOK, States, Resumed, DubSplit
  <2>2. SearchInv' /\ stack' \in Seq(Branch)
    <3>1. Halving /\ discovery'.running = FALSE
      BY <1>3, <2>1
      DEF DubSplit, counters, Halving, IInv, SearchInv, NotRunningElsewhere,
          TypeOK, MachineTypeOK
    <3> QED
      BY <1>3, <2>1, <3>1, SearchSplit DEF DubSplit
  <2>3. LineTypeOK'
    BY <1>3, QuietLineType DEF IInv, DubSplit
  <2>4. MachineTypeOK'
    BY <1>3, <2>1, <2>2, Counters
    DEF IInv, TypeOK, MachineTypeOK, control, counters, DubSplit
  <2> QED
    BY <2>2, <2>3, <2>4 DEF IInv, TypeOK
<1> QED
  BY <1>1, <1>2, <1>3

(* State QUICKFIND. *)
LEMMA QuickStep ==
    ASSUME IInv,
           \/ QuickGiveUp \/ QuickSend \/ QuickAnswer \/ QuickInvalid
           \/ QuickTimeOut
    PROVE  IInv'
<1>1. CASE QuickGiveUp
  <2>1. /\ state' \in States
        /\ savedState' \in States \ {"LATE_RESPONSE"}
        /\ Resumed' = "QUICKFIND_DISCOVERY"
        /\ Resumed = state
    BY <1>1, NewStateTarget
    DEF IInv, TypeOK, MachineTypeOK, States, Resumed, QuickGiveUp
  <2>2. SearchInv'
    BY <1>1, <2>1, SearchKept
    DEF QuickGiveUp, IInv, SearchInv, NotRunningElsewhere, TypeOK,
        MachineTypeOK, Halving, BranchInHand
  <2>3. LineTypeOK'
    BY <1>1, QuietLineType DEF IInv, QuickGiveUp
  <2>4. MachineTypeOK'
    BY <1>1, <2>1, Counters
    DEF IInv, TypeOK, MachineTypeOK, control, counters, QuickGiveUp
  <2> QED
    BY <2>2, <2>3, <2>4 DEF IInv, TypeOK
<1>2. CASE QuickSend
  <2>1. SearchInv'
    BY <1>2, SearchUntouched DEF QuickSend, IInv, TypeOK, MachineTypeOK
  <2>2. LineTypeOK'
    <3>1. DiscMute(quikFind.uid) \in Requests
      BY <1>2
      DEF IInv, TypeOK, MachineTypeOK, Requests, AnyUid, Branch, DiscMute,
          QuickSend
    <3>2. faults \in 0 .. MaxFaults
      BY DEF IInv, TypeOK, LineTypeOK
    <3> QED
      BY <1>2, <3>1, <3>2, TransmitType, TimeOutBudget DEF IInv, QuickSend
  <2>3. MachineTypeOK'
    BY <1>2, Counters
    DEF IInv, TypeOK, MachineTypeOK, control, counters, QuickSend
  <2> QED
    BY <2>1, <2>2, <2>3 DEF IInv, TypeOK
<1>3. CASE QuickAnswer
  <2>1. /\ state' \in States
        /\ savedState' \in States \ {"LATE_RESPONSE"}
        /\ Resumed' = "QUICKFIND_DISCOVERY"
        /\ Resumed = state
    BY <1>3, NewStateTarget
    DEF IInv, TypeOK, MachineTypeOK, States, Resumed, QuickAnswer
  <2>2. SearchInv'
    BY <1>3, <2>1, SearchKept
    DEF QuickAnswer, IInv, SearchInv, NotRunningElsewhere, TypeOK,
        MachineTypeOK, Halving, BranchInHand
  <2>3. LineTypeOK'
    BY <1>3, QuietLineType DEF IInv, QuickAnswer
  <2>4. MachineTypeOK'
    <3>1. tod[portIndex] \in Seq(Uid)
      BY <1>3 DEF IInv, TypeOK, MachineTypeOK, QuickAnswer
    <3>2. tod' \in [Ports -> Seq(Uid)]
      BY <1>3, <3>1, TodType DEF IInv, TypeOK, MachineTypeOK, QuickAnswer
    <3> QED
      BY <1>3, <2>1, <3>1, <3>2, Counters
      DEF IInv, TypeOK, MachineTypeOK, control, counters, QuickAnswer
  <2> QED
    BY <2>2, <2>3, <2>4 DEF IInv, TypeOK
<1>4. CASE QuickInvalid
  <2>1. SearchInv'
    BY <1>4, SearchUntouched
    DEF QuickInvalid, IInv, TypeOK, MachineTypeOK, counters
  <2>2. LineTypeOK'
    BY <1>4, QuietLineType DEF IInv, QuickInvalid
  <2>3. MachineTypeOK'
    BY <1>4, Counters
    DEF IInv, TypeOK, MachineTypeOK, control, counters, QuickInvalid
  <2> QED
    BY <2>1, <2>2, <2>3 DEF IInv, TypeOK
<1>5. CASE QuickTimeOut
  <2>1. SearchInv'
    BY <1>5, SearchUntouched DEF QuickTimeOut, IInv, TypeOK, MachineTypeOK
  <2>2. LineTypeOK'
    BY <1>5, QuietLineType DEF IInv, QuickTimeOut
  <2>3. MachineTypeOK'
    <3>1. quikFind.counter - 1 \in Nat
      BY <1>5 DEF IInv, TypeOK, MachineTypeOK, QuickTimeOut
    <3> QED
      BY <1>5, <3>1, Counters
      DEF IInv, TypeOK, MachineTypeOK, control, counters, QuickTimeOut
  <2> QED
    BY <2>1, <2>2, <2>3 DEF IInv, TypeOK
<1> QED
  BY <1>1, <1>2, <1>3, <1>4, <1>5

(* State QUICKFIND_DISCOVERY. *)
LEMMA QuickDiscoveryStep ==
    ASSUME IInv,
           \/ QuickDiscoveryGiveUp \/ QuickDiscoverySend
           \/ QuickDiscoveryFound \/ QuickDiscoveryCollision
           \/ QuickDiscoveryTimeOut
    PROVE  IInv'
<1>1. CASE QuickDiscoveryGiveUp
  <2>1. /\ state' \in States
        /\ savedState' \in States \ {"LATE_RESPONSE"}
        /\ Resumed' = "DISCOVERY"
        /\ Resumed = state
    BY <1>1, NewStateTarget
    DEF IInv, TypeOK, MachineTypeOK, States, Resumed, QuickDiscoveryGiveUp
  <2>2. SearchInv'
    BY <1>1, <2>1, SearchKept
    DEF QuickDiscoveryGiveUp, IInv, SearchInv, NotRunningElsewhere, TypeOK,
        MachineTypeOK, Halving, BranchInHand
  <2>3. LineTypeOK'
    BY <1>1, QuietLineType DEF IInv, QuickDiscoveryGiveUp
  <2>4. MachineTypeOK'
    BY <1>1, <2>1, Counters
    DEF IInv, TypeOK, MachineTypeOK, control, counters, QuickDiscoveryGiveUp
  <2> QED
    BY <2>2, <2>3, <2>4 DEF IInv, TypeOK
<1>2. CASE QuickDiscoverySend
  <2>1. SearchInv'
    BY <1>2, SearchUntouched
    DEF QuickDiscoverySend, IInv, TypeOK, MachineTypeOK
  <2>2. LineTypeOK'
    <3>1. DiscUniqueBranch(branch.lower, branch.upper) \in Requests
      BY <1>2
      DEF IInv, TypeOK, MachineTypeOK, Requests, AnyUid, Branch,
          DiscUniqueBranch, QuickDiscoverySend
    <3>2. faults \in 0 .. MaxFaults
      BY DEF IInv, TypeOK, LineTypeOK
    <3> QED
      BY <1>2, <3>1, <3>2, TransmitType, TimeOutBudget
      DEF IInv, QuickDiscoverySend
  <2>3. MachineTypeOK'
    BY <1>2, Counters
    DEF IInv, TypeOK, MachineTypeOK, control, counters, QuickDiscoverySend
  <2> QED
    BY <2>1, <2>2, <2>3 DEF IInv, TypeOK
<1>3. CASE QuickDiscoveryFound
  <2>1. /\ state' \in States
        /\ savedState' \in States \ {"LATE_RESPONSE"}
        /\ Resumed' = "QUICKFIND"
        /\ Resumed = state
    BY <1>3, NewStateTarget
    DEF IInv, TypeOK, MachineTypeOK, States, Resumed, QuickDiscoveryFound
  <2>2. SearchInv'
    BY <1>3, <2>1, SearchKept
    DEF QuickDiscoveryFound, IInv, SearchInv, NotRunningElsewhere, TypeOK,
        MachineTypeOK, Halving, BranchInHand
  <2>3. LineTypeOK'
    BY <1>3, QuietLineType DEF IInv, QuickDiscoveryFound
  <2>4. MachineTypeOK'
    <3>1. Received \in Replies
      BY <1>3
      DEF IInv, TypeOK, MachineTypeOK, LineTypeOK, Received,
          QuickDiscoveryFound
    <3>2. Received.uid \in Uid
      BY <1>3, <3>1
      DEF IInv, TypeOK, MachineTypeOK, IsValidDiscoveryResponse, Replies,
          NoReply, Collision, QuickDiscoveryFound
    <3> QED
      BY <1>3, <2>1, <3>1, <3>2, Counters
      DEF IInv, TypeOK, MachineTypeOK, control, counters, QuickDiscoveryFound
  <2> QED
    BY <2>2, <2>3, <2>4 DEF IInv, TypeOK
<1>4. CASE QuickDiscoveryCollision
  <2>1. /\ state' \in States
        /\ savedState' \in States \ {"LATE_RESPONSE"}
        /\ Resumed' = "DUB"
        /\ Resumed = state
    BY <1>4, NewStateTarget
    DEF IInv, TypeOK, MachineTypeOK, States, Resumed, QuickDiscoveryCollision
  <2>2. SearchInv'
    BY <1>4, <2>1, SearchKept
    DEF QuickDiscoveryCollision, IInv, SearchInv, NotRunningElsewhere, TypeOK,
        MachineTypeOK, Halving, BranchInHand
  <2>3. LineTypeOK'
    BY <1>4, QuietLineType DEF IInv, QuickDiscoveryCollision
  <2>4. MachineTypeOK'
    <3>1. Received \in Replies
      BY <1>4
      DEF IInv, TypeOK, MachineTypeOK, LineTypeOK, Received,
          QuickDiscoveryCollision
    <3> QED
      BY <1>4, <2>1, <3>1, Counters
      DEF IInv, TypeOK, MachineTypeOK, control, counters,
          QuickDiscoveryCollision
  <2> QED
    BY <2>2, <2>3, <2>4 DEF IInv, TypeOK
<1>5. CASE QuickDiscoveryTimeOut
  <2>1. SearchInv'
    BY <1>5, SearchUntouched
    DEF QuickDiscoveryTimeOut, IInv, TypeOK, MachineTypeOK
  <2>2. LineTypeOK'
    BY <1>5, QuietLineType DEF IInv, QuickDiscoveryTimeOut
  <2>3. MachineTypeOK'
    <3>1. quikFindDiscovery.counter - 1 \in Nat
      BY <1>5 DEF IInv, TypeOK, MachineTypeOK, QuickDiscoveryTimeOut
    <3>2. Command(quikFindDiscovery.counter - 1) \in [counter : Nat, running : BOOLEAN]
      BY <1>5, <3>1, Counters
      DEF IInv, TypeOK, MachineTypeOK, QuickDiscoveryTimeOut
    <3> QED
      BY <1>5, <3>1, <3>2, Counters
      DEF IInv, TypeOK, MachineTypeOK, control, counters,
          QuickDiscoveryTimeOut
  <2> QED
    BY <2>1, <2>2, <2>3 DEF IInv, TypeOK
<1> QED
  BY <1>1, <1>2, <1>3, <1>4, <1>5

(* State FINISHED. *)
LEMMA FinishedStep ==
    ASSUME IInv,
           Finished
    PROVE  IInv'
<1>1. CASE Finished
  <2>1. /\ state' \in States
        /\ savedState' \in States \ {"LATE_RESPONSE"}
        /\ Resumed' = "IDLE"
        /\ Resumed = state
    BY <1>1, NewStateTarget
    DEF IInv, TypeOK, MachineTypeOK, States, Resumed, Finished
  <2>2. SearchInv'
    BY <1>1, <2>1, SearchKept
    DEF Finished, IInv, SearchInv, NotRunningElsewhere, TypeOK, MachineTypeOK,
        Halving, BranchInHand
  <2>3. LineTypeOK'
    BY <1>1, QuietLineType DEF IInv, Finished
  <2>4. MachineTypeOK'
    BY <1>1, <2>1, Counters
    DEF IInv, TypeOK, MachineTypeOK, control, counters, Finished
  <2> QED
    BY <2>2, <2>3, <2>4 DEF IInv, TypeOK
<1> QED
  BY <1>1

LEMMA ProcessStep ==
    ASSUME IInv, Process
    PROVE  IInv'
BY LateResponseStep, UnMuteStep, MuteStep, DiscoveryStep, SingleStep, DubStep,
   QuickStep, QuickDiscoveryStep, FinishedStep
DEF Process

(* Start from IDLE, for Full and for Incremental. *)
LEMMA StartStep ==
    ASSUME IInv, NEW p \in Ports, NEW incremental \in BOOLEAN,
           NEW todEntries \in Nat, Start(p, incremental, todEntries),
           tod' \in [Ports -> Seq(Uid)]
    PROVE  IInv'
<1>1. /\ state' \in States
      /\ savedState' \in States \ {"LATE_RESPONSE"}
      /\ Resumed' = "UNMUTE"
  BY NewStateTarget DEF IInv, TypeOK, MachineTypeOK, States, Start
<1>2. SearchInv'
  BY <1>1, SearchStarted, Counters DEF Start
<1>3. LineTypeOK'
  BY QuietLineType DEF IInv, Start
<1>4. stack' \in Seq(Branch)
  <2>1. [lower |-> FirstUid, upper |-> LastUid] \in Branch
    BY Powers DEF Branch, Uid, FirstUid, LastUid
  <2> QED
    BY <2>1 DEF Start
<1>5. /\ mute' \in [counter : Nat, running : BOOLEAN, todEntries : Nat, uid : AnyUid]
      /\ quikFind' \in [counter : Nat, running : BOOLEAN, uid : Uid]
  BY Counters DEF Start, IInv, TypeOK, MachineTypeOK
<1>6. MachineTypeOK'
  BY <1>1, <1>4, <1>5, Counters DEF IInv, TypeOK, MachineTypeOK, Start
<1> QED
  BY <1>2, <1>3, <1>6 DEF IInv, TypeOK

LEMMA CallsStep ==
    ASSUME IInv, Calls
    PROVE  IInv'
<1>1. ASSUME NEW p \in Ports, Full(p) PROVE IInv'
  <2>1. tod' \in [Ports -> Seq(Uid)] /\ mute.todEntries \in Nat
    BY <1>1 DEF Full, EmptyTod, IInv, TypeOK, MachineTypeOK
  <2>2. CASE Start(p, FALSE, mute.todEntries)
    BY <2>1, <2>2, StartStep
  <2>3. CASE ~Start(p, FALSE, mute.todEntries)
    <3>1. UNCHANGED <<state, savedState, control, counters, stack, branch,
                      response, lineVars>>
      BY <1>1, <2>3 DEF Full
    <3>2. SearchInv'
      BY <3>1, SearchUntouched DEF counters
    <3>3. LineTypeOK'
      BY <3>1, QuietLineType DEF IInv
    <3>4. MachineTypeOK'
      BY <2>1, <3>1 DEF control, counters, IInv, TypeOK, MachineTypeOK
    <3> QED
      BY <3>2, <3>3, <3>4 DEF IInv, TypeOK
  <2> QED
    BY <2>2, <2>3
<1>2. ASSUME NEW p \in Ports, Incremental(p) PROVE IInv'
  <2>1. tod' \in [Ports -> Seq(Uid)] /\ Len(tod[p]) \in Nat
    BY <1>2 DEF Incremental, IInv, TypeOK, MachineTypeOK
  <2>2. CASE Start(p, TRUE, Len(tod[p]))
    BY <2>1, <2>2, StartStep
  <2>3. CASE ~Start(p, TRUE, Len(tod[p]))
    <3>1. /\ UNCHANGED <<state, savedState, control, unMute, discovery, single,
                         quikFind, quikFindDiscovery, stack, branch, response,
                         lineVars, tod>>
          /\ mute' = [mute EXCEPT !.todEntries = Len(tod[p])]
      BY <1>2, <2>3 DEF Incremental
    <3>2. SearchInv'
      BY <3>1, SearchUntouched
    <3>3. LineTypeOK'
      BY <3>1, QuietLineType DEF IInv
    <3>4. MachineTypeOK'
      BY <2>1, <3>1 DEF control, IInv, TypeOK, MachineTypeOK
    <3> QED
      BY <3>2, <3>3, <3>4 DEF IInv, TypeOK
  <2> QED
    BY <2>2, <2>3
<1>3. CASE Stop
  <2>1. /\ state' \in States
        /\ savedState' \in States \ {"LATE_RESPONSE"}
        /\ Resumed' = "IDLE"
    BY <1>3, NewStateTarget DEF IInv, TypeOK, MachineTypeOK, States, Stop
  <2>2. SearchInv'
    BY <1>3, <2>1, SearchKept
    DEF Stop, NotRunningElsewhere, Halving, BranchInHand
  <2>3. LineTypeOK'
    BY <1>3, QuietLineType DEF IInv, Stop
  <2>4. MachineTypeOK'
    BY <1>3, <2>1 DEF IInv, TypeOK, MachineTypeOK, counters, Stop
  <2> QED
    BY <2>2, <2>3, <2>4 DEF IInv, TypeOK
<1>4. CASE IsFinished
  <2>1. SearchInv'
    BY <1>4, SearchUntouched DEF IsFinished, counters
  <2>2. LineTypeOK'
    BY <1>4, QuietLineType DEF IInv, IsFinished
  <2>3. MachineTypeOK'
    BY <1>4 DEF IInv, TypeOK, MachineTypeOK, counters, IsFinished
  <2> QED
    BY <2>1, <2>2, <2>3 DEF IInv, TypeOK
<1> QED
  BY <1>1, <1>2, <1>3, <1>4 DEF Calls

LEMMA EnvironmentStep ==
    ASSUME IInv, Environment
    PROVE  IInv'
<1> SUFFICES ASSUME NEW p \in Ports, NEW d \in Devices[p],
                    Unplug(p, d) \/ Plug(p, d)
             PROVE  IInv'
  BY DEF Environment
<1>1. SearchInv'
  BY SearchUntouched DEF Unplug, Plug, counters
<1>2. d \in Uid
  BY DiscoveryAssumption
<1>3. replugs' \in 0 .. MaxReplugs
  BY DiscoveryAssumption DEF Unplug, Plug, IInv, TypeOK, LineTypeOK
<1>4. LineTypeOK'
  BY <1>2, <1>3 DEF Unplug, Plug, IInv, TypeOK, LineTypeOK
<1>5. MachineTypeOK'
  BY DEF IInv, TypeOK, MachineTypeOK, control, counters, Unplug, Plug
<1> QED
  BY <1>1, <1>4, <1>5 DEF IInv, TypeOK

-----------------------------------------------------------------------------
(* The theorems.                                                           *)

LEMMA InitIInv == Init => IInv
<1> SUFFICES ASSUME Init PROVE IInv
  OBVIOUS
<1>1. /\ FirstUid \in Uid /\ LastUid \in Uid /\ 0 \in Ports
  BY Powers, DiscoveryAssumption DEF Uid, FirstUid, LastUid, Ports
<1>2. MachineTypeOK
  <2>1. mute \in [counter : Nat, running : BOOLEAN, todEntries : Nat, uid : AnyUid]
    BY Counters DEF Init, AnyUid
  <2>2. quikFind \in [counter : Nat, running : BOOLEAN, uid : Uid]
    BY <1>1, Counters DEF Init
  <2>3. tod \in [Ports -> Seq(Uid)] /\ branch \in Branch /\ stack \in Seq(Branch)
    BY <1>1 DEF Init, EmptyTod, Branch
  <2> QED
    BY <1>1, <2>1, <2>2, <2>3, Counters, NoReplyType
    DEF Init, MachineTypeOK, States
<1>3. LineTypeOK
  BY DiscoveryAssumption, NoReplyType DEF Init, LineTypeOK
<1>4. ~Halving /\ ~BranchInHand /\ discovery.running = FALSE /\ stack = << >>
  BY Counters DEF Init, Halving, BranchInHand, Resumed
<1>5. SearchInv
  BY <1>4, Powers
  DEF SearchInv, BranchesTile, NotRunningElsewhere, SizeBound
<1> QED
  BY <1>2, <1>3, <1>5 DEF IInv, TypeOK

LEMMA NextIInv == IInv /\ [Next]_vars => IInv'
<1> SUFFICES ASSUME IInv, [Next]_vars PROVE IInv'
  OBVIOUS
<1>1. CASE UNCHANGED vars
  <2>1. SearchInv'
    BY <1>1, SearchUntouched DEF vars, counters
  <2>2. LineTypeOK'
    BY <1>1, QuietLineType DEF vars, IInv
  <2>3. MachineTypeOK'
    BY <1>1 DEF vars, control, counters, IInv, TypeOK, MachineTypeOK
  <2> QED
    BY <2>1, <2>2, <2>3 DEF IInv, TypeOK
<1> QED
  BY <1>1, ProcessStep, CallsStep, EnvironmentStep DEF Next

LEMMA Invariance == Spec => []IInv
BY InitIInv, NextIInv, PTL DEF Spec

(* Whatever is called when, and whatever happens on the line, every        *)
(* variable keeps its type: DUB never pushes a bound outside the range of  *)
(* UIDs, and MUTE never reads the table at a negative index.               *)
THEOREM TypeCorrect == Spec => []TypeOK
BY Invariance, PTL DEF IInv

(* The binary search skips no UID and searches none twice. *)
THEOREM NoGap == Spec => []BranchesTile
BY Invariance, PTL DEF IInv, SearchInv

(* The stack of 200 places can not overflow with UIDs of 48 bits. *)
THEOREM NoOverflow == Spec => []StackBound
<1>1. IInv => StackBound
  BY DEF IInv, SearchInv, SizeBound, StackBound
<1> QED
  BY <1>1, Invariance, PTL
=============================================================================
