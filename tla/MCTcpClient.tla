----------------------------- MODULE MCTcpClient -----------------------------
(***************************************************************************)
(* Small instances of TcpClient: the poll and one service call, which may  *)
(* be cancelled and repeated.                                              *)
(***************************************************************************)
EXTENDS TcpClient

MCMsgIds == 1..8

=============================================================================
