------------------------------- MODULE MCLogDir -------------------------------
(* An instance of LogDir for TLC.                                           *)
EXTENDS LogDir

CONSTANTS a, b, c

ThreeNames == {a, b, c}
=============================================================================
