------------------------------- MODULE MCMlConn -------------------------------
(* An instance of MlConn for TLC: mlc_mav, which two threads send to.       *)
EXTENDS MlConn, TLC

CONSTANTS main, qgc

MavSenders   == {main, qgc}
MavReporters == {main}
=============================================================================
