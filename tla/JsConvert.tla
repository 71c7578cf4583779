------------------------------- MODULE JsConvert -------------------------------
(***************************************************************************)
(* From the raw values of the joystick axes to a MANUAL_CONTROL message:   *)
(* js_std_calib and js_chn_convert (joystick.c), and                       *)
(* create_mavlink_msg_manual_control (main.c).  Thousandths stand for the  *)
(* doubles of the code and are rational numbers, cut towards zero as the   *)
(* conversion to int16_t does; the doubles come out one nearer to zero at  *)
(* six raw values of roll and pitch.                                       *)
(***************************************************************************)
EXTENDS Integers

SHRT_MIN == -32768
SHRT_MAX == 32767
Int16    == SHRT_MIN..SHRT_MAX

Sticks == {"roll", "pitch", "yaw", "throttle"}

\* js_std_calib
calib ==
    [c \in Sticks |->
        [scale |-> IF c = "yaw" THEN 2000 ELSE IF c = "throttle" THEN 1000 ELSE 300,
         rev   |-> c = "throttle",
         min   |-> SHRT_MIN,
         max   |-> SHRT_MAX,
         dz    |-> IF c = "yaw" THEN 3000 ELSE IF c = "throttle" THEN 1300 ELSE 2000,
         trim  |-> IF c = "throttle" THEN SHRT_MAX ELSE 0]]

\* The quotient of a whole and a positive number, cut towards zero.
Quotient(a, b) == IF a >= 0 THEN a \div b ELSE -((-a) \div b)

Within(lo, x, hi) == IF x < lo THEN lo ELSE IF x > hi THEN hi ELSE x

\* Fault: the channel is not reversed.
js_chn_convert_forward(chn, raw) ==
    LET input == Within(chn.min, raw, chn.max)
        above == input - chn.trim - chn.dz
        below == input - chn.trim + chn.dz
        part  == IF above > 0
                   THEN Quotient(above * chn.scale, chn.max - chn.trim - chn.dz)
                 ELSE IF below < 0
                   THEN Quotient(below * chn.scale, chn.trim - chn.min - chn.dz)
                 ELSE 0
    IN  Within(-chn.scale, part, chn.scale)

\* js_chn_convert: what lies outside the dead zone around trim, as a part of
\* the way there is on that side, scaled.
js_chn_convert(chn, raw) ==
    LET input  == Within(chn.min, raw, chn.max)
        above  == input - chn.trim - chn.dz
        below  == input - chn.trim + chn.dz
        sign   == IF chn.rev THEN -1 ELSE 1
        part   == IF above > 0
                    THEN Quotient(sign * above * chn.scale, chn.max - chn.trim - chn.dz)
                  ELSE IF below < 0
                    THEN Quotient(sign * below * chn.scale, chn.trim - chn.min - chn.dz)
                  ELSE 0
    IN  Within(-chn.scale, part, chn.scale)

\* create_mavlink_msg_manual_control.  Its fields buttons and target are not
\* set by the code.
create_manual_control(jsd) ==
    LET throttle == js_chn_convert(calib["throttle"], jsd["throttle"])
    IN  [x |-> js_chn_convert(calib["roll"], jsd["roll"]),
         y |-> js_chn_convert(calib["pitch"], jsd["pitch"]),
         z |-> js_chn_convert(calib["yaw"], jsd["yaw"]),
         r |-> IF throttle < 0 THEN 0 ELSE throttle]
=============================================================================
