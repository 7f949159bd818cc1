------------------------------- MODULE MCTcp ---------------------------------
(***************************************************************************)
(* Instances of TcpPeers for TLC.  Sequence numbers wrap within the first  *)
(* connection.                                                             *)
(***************************************************************************)
EXTENDS TcpPeers

CONSTANT p1

MCIsn == [n \in Connections |-> (17 + 12 * n) % MODULUS]

Stray(ctl, seq, ack) ==
    [peer |-> p1, ctl |-> ctl, seq |-> seq, ack |-> ack, conn |-> 0, unit |-> 0]

(* In the window of the first connection, each of them. *)
MCStrays ==
    { Stray({"SYN"}, Plus(MCIsn[1], 1), 0),
      Stray({"ACK"}, Plus(MCIsn[1], 1), 16) }
=============================================================================
