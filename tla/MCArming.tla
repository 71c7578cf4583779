------------------------------- MODULE MCArming -------------------------------
(* Instances of Arming for TLC.                                             *)
EXTENDS Arming

\* Sticks that do not quite come back to where they belong.
AtRest == [k \in Sticks |-> CASE k = "throttle" -> 32000
                              [] k = "roll"     -> -2000
                              [] OTHER          -> 1500]

ThrottleOpens == [k \in Sticks |-> IF k = "throttle" THEN {SHRT_MIN} ELSE {}]
=============================================================================
