------------------------------ MODULE MCStartUp ------------------------------
(* Instances of StartUp for TLC.                                            *)
EXTENDS StartUp

TwoBodies == {"drone", "wand"}
=============================================================================
