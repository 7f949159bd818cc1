---------------------------- MODULE RdmResponder ----------------------------
(***************************************************************************)
(* What the responders on one RDM line do with the three discovery         *)
(* requests: the discovery part of RDMHandler::HandleData of               *)
(* lib-rdm/src/rdmhandler.cpp, for a set of responders at once.  "devices" *)
(* is the set of UIDs powered on the line, "muted" those of them whose     *)
(* m_IsMuted is set.  Requests and replies are records; a reply is what a  *)
(* receiver that listens to the whole line gets to see.                    *)
(***************************************************************************)
EXTENDS RdmUid, FiniteSets

DiscUniqueBranch(lower, upper) ==
    [pid |-> "DISC_UNIQUE_BRANCH", lower |-> lower, upper |-> upper]

DiscMute(uid) == [pid |-> "DISC_MUTE", uid |-> uid]

DiscUnMute == [pid |-> "DISC_UN_MUTE", uid |-> UID_ALL]

(* Silence; one undisturbed discovery response; the sum of several of them *)
(* (or noise), which does not decode; the acknowledgement of a DISC_MUTE;  *)
(* a response of another command class than discovery.                     *)
NoReply == [kind |-> "NONE", uid |-> UID_ALL]
DubReply(uid) == [kind |-> "DUB", uid |-> uid]
Collision == [kind |-> "COLLISION", uid |-> UID_ALL]
MuteAck(uid) == [kind |-> "MUTE_ACK", uid |-> uid]
OtherReply(uid) == [kind |-> "OTHER", uid |-> uid]

(* The responders that answer a DISC_UNIQUE_BRANCH. *)
Answering(request, devices, muted) ==
    { d \in devices \ muted : request.lower <= d /\ d <= request.upper }

(* m_IsMuted of every responder after the request; a broadcast reaches all. *)
MutedAfter(request, devices, muted) ==
    CASE request.pid = "DISC_UNIQUE_BRANCH" -> muted
      [] request.pid = "DISC_UN_MUTE" -> {}
      [] request.pid = "DISC_MUTE" ->
            IF request.uid = UID_ALL THEN devices
            ELSE muted \cup ({request.uid} \cap devices)

(* What the line carries back.  No responder answers a broadcast mute. *)
ReplyTo(request, devices, muted) ==
    CASE request.pid = "DISC_UNIQUE_BRANCH" ->
            LET answering == Answering(request, devices, muted)
            IN  IF answering = {} THEN NoReply
                ELSE IF Cardinality(answering) = 1
                     THEN DubReply(CHOOSE d \in answering : TRUE)
                     ELSE Collision
      [] request.pid = "DISC_UN_MUTE" -> NoReply
      [] request.pid = "DISC_MUTE" ->
            IF request.uid \in devices THEN MuteAck(request.uid) ELSE NoReply
=============================================================================
