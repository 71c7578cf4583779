------------------------------ MODULE MCTflog ------------------------------
(***************************************************************************)
(* Tflog for TLC:                                                          *)
(*   MCTflog.cfg          safety, refinement and liveness, two messages in *)
(*                        a read of "mav"                                  *)
(*   MCTflogJoin.cfg      what the comment on the grace period says        *)
(*   MCTflogHardError.cfg what the comments on hard read errors say        *)
(***************************************************************************)
EXTENDS Tflog

\* bound: messages of a behaviour, and of one read
TwoMsgs  == [mav |-> 2, tracker |-> 1]
TwoChunk == [mav |-> 2, qgc |-> 1, tracker |-> 1]

\* bound: one message each
OneMsg   == [s \in Streams |-> 1]
OneChunk == [c \in Conns |-> 1]
=============================================================================
