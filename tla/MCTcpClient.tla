---------------------------- MODULE MCTcpClient ----------------------------
(* A response of two units.                                                *)
EXTENDS TcpClient
=============================================================================
