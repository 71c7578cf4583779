------------------------------ MODULE MCMavReceive ------------------------------
(***************************************************************************)
(* An instance of MavReceive for TLC: three bytes, the middle one being    *)
(* the start byte, and checksums of two such bytes.                        *)
(***************************************************************************)
EXTENDS MavReceive

Nine      == 0..8
Accumulate == [ck \in Nine |-> [c \in 0..2 |-> (2 * ck + c + 1) % 9]]
Extra     == [c \in 0..2 |-> (c + 1) % 3]
Low       == [ck \in Nine |-> ck % 3]
High      == [ck \in Nine |-> ck \div 3]

Handlers  == {"forward", "log", "print", "other"}
Logged    == {0, 2}

\* len, seq, sysid, compid, msgid, payload
Traffic == { <<2, 0, 0, 0, 0, 0, 2>>,  \* a heartbeat
             <<2, 2, 0, 0, 0, 2, 0>>,  \* another one
             <<0, 0, 0, 0, 0>>,        \* one that is too short
             <<0, 2, 0, 0, 2>>,        \* STATUSTEXT
             <<1, 0, 0, 0, 1, 1>> }    \* not logged, full of start bytes
=============================================================================
