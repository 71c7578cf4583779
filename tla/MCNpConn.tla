------------------------------- MODULE MCNpConn -------------------------------
(* An instance of NpConn for TLC.                                           *)
EXTENDS NpConn
=============================================================================
