-------------------------------- MODULE Arming --------------------------------
(***************************************************************************)
(* Steering and arming by joystick: js_update (joystick.c), the 1 ms and   *)
(* 10 ms parts of read_and_handle_js_data (main.c), the modes that         *)
(* mavlink_utils.c sends, the target state that the receiver thread of     *)
(* mlc_mav keeps from the heartbeats, and the vehicle at the other end.    *)
(*                                                                         *)
(* A mode is the armed flag, the other flags of base_mode and custom_mode. *)
(* The last two are of the flight mode the vehicle was in: flight modes    *)
(* are numbered as the vehicle goes through them.  main() reads is_armed,  *)
(* base_mode and custom_mode of the target one by one while the receiver   *)
(* writes them one by one, without a lock.                                 *)
(***************************************************************************)
EXTENDS Sequences, JsConvert

CONSTANTS Rest,      \* raw values of the sticks when nobody touches them
          Positions, \* raw values the user moves each stick to
          MaxUser,   \* bound: joystick events the user causes
          MaxFlight, \* bound: changes of the flight mode
          MaxSent    \* bound: commands, and heartbeats, on their way

Buttons == {"left", "right"}
Axes    == Sticks \cup Buttons

ASSUME JoystickAssumption ==
    /\ Rest \in [Sticks -> Int16]
    /\ Positions \in [Sticks -> SUBSET Int16]
    /\ MaxUser \in Nat
    /\ MaxFlight \in Nat
    /\ MaxSent \in Nat

Up   == -32767 \* raw value of a button axis that is not pressed
Down == 32767  \* ... of one that is
dz   == 1000   \* dead zone of parse_buttons

Unset  == -1 \* what target holds before the first heartbeat
Fixed  == -2 \* the flags that mlu_set_initial_target_mode sends
Unread == -3 \* an argument main() has still to read

\* The two halves of a flight mode.
Halves  == {"flags", "custom"}
Flights == 0..MaxFlight
Mode    == [armed : BOOLEAN, flight : Flights]
NoArgs  == [h \in Halves |-> Unread]

VARIABLES
    device,   \* the axes as the user holds them
    events,   \* joystick events not yet read
    user,     \* events the user has caused
    asked,    \* history: the user has pressed a button
    jsd,      \* js_data_t: the raw values
    bstates,  \* js_data_t: what changed with the last axis event
    old,      \* parse_buttons: old_lb and old_rb
    mpc,      \* where read_and_handle_js_data is
    toggleArmingFlag,
    fresh,    \* history: a PRESSED of the right button is not yet acted on
    manual,   \* the last MANUAL_CONTROL sent
    args,     \* the mode that mlu_set_target_mode is called with
    readable, \* history: flight modes target may show while args are read
    target,   \* mlc_mav.target without is_armed
    isArmed,  \* target.is_armed
    last,     \* history: flight mode of the last heartbeat written to target
    rpc,      \* the receiver: "recv", or what of the target it writes next
    commands, \* SET_MODE messages on their way: the armed flag
    beats,    \* heartbeats on their way
    vehicle   \* the vehicle: is it armed, and the number of its flight mode

joystick == <<device, events, user, asked>>
buttons  == <<jsd, bstates, old>>
toggling == <<toggleArmingFlag, fresh>>
mode     == <<args, readable>>
receiver == <<target, isArmed, last, rpc>>
link     == <<commands, beats, vehicle>>
main     == <<mpc, toggling, manual, mode>>
vars     == <<joystick, buttons, main, receiver, link>>

Event(axis, value) == [axis |-> axis, value |-> value]

\* The driver reports every axis once when the device is opened, in the order
\* of axis_index_t.
StartupEvents == << Event("yaw", Rest["yaw"]),
                    Event("throttle", Rest["throttle"]),
                    Event("roll", Rest["roll"]),
                    Event("left", Up),
                    Event("right", Up),
                    Event("pitch", Rest["pitch"]) >>

Nothing == [x |-> 0, y |-> 0, z |-> 0, r |-> 0]

Init == /\ device = [k \in Axes |-> IF k \in Buttons THEN Up ELSE Rest[k]]
        /\ events = StartupEvents
        /\ user = 0
        /\ asked = FALSE
        /\ jsd = [k \in Axes |-> 0]
        /\ bstates = [k \in Buttons |-> "none"]
        /\ old = [k \in Buttons |-> SHRT_MIN]
        /\ mpc = "read"
        /\ toggleArmingFlag = FALSE
        /\ fresh = FALSE
        /\ manual = Nothing
        /\ args = NoArgs
        /\ readable = {}
        /\ target = [armed |-> FALSE, flags |-> Unset, custom |-> Unset]
        /\ isArmed = FALSE
        /\ last = Unset
        /\ rpc = "recv"
        /\ commands = <<>>
        /\ beats = <<>>
        /\ vehicle \in [armed : BOOLEAN, flight : {0}]

-----------------------------------------------------------------------------
(* The user and the joystick driver.                                       *)

Move(axis, value) ==
    /\ user < MaxUser
    /\ user' = user + 1
    /\ device' = [device EXCEPT ![axis] = value]
    /\ events' = Append(events, Event(axis, value))
    /\ asked' = (asked \/ (axis \in Buttons /\ value = Down))
    /\ UNCHANGED <<buttons, main, receiver, link>>

MoveButton == \E k \in Buttons : Move(k, IF device[k] = Up THEN Down ELSE Up)

MoveStick == \E k \in Sticks : \E value \in Positions[k] \ {device[k]} : Move(k, value)

-----------------------------------------------------------------------------
(* js_update, every 1 ms.                                                  *)

Change(diff) == IF diff > dz THEN "pressed"
                ELSE IF diff < -dz THEN "released"
                ELSE "unchanged"

Pressed(raw) == [k \in Buttons |-> raw[k]]

\* Fault: the differences are kept in place of the values.
parse_buttons_diffKept(raw) ==
    /\ bstates' = [k \in Buttons |-> Change(raw[k] - old[k])]
    /\ old' = [k \in Buttons |-> raw[k] - old[k]]

\* Fault: nothing is known of the buttons before the first event, so that is
\* what every event is compared with.
parse_buttons_notKept(raw) ==
    /\ bstates' = [k \in Buttons |-> Change(raw[k] - old[k])]
    /\ UNCHANGED old

parse_buttons(raw) ==
    /\ bstates' = [k \in Buttons |-> Change(raw[k] - old[k])]
    /\ old' = Pressed(raw)

\* Fault: the buttons are looked at before the event is taken over.
ReadEvent_early(e) ==
    /\ events' = Tail(events)
    /\ jsd' = [jsd EXCEPT ![e.axis] = e.value]
    /\ parse_buttons(jsd)
    /\ fresh' = (bstates'["right"] = "pressed")

ReadEvent(e) ==
    /\ events' = Tail(events)
    /\ jsd' = [jsd EXCEPT ![e.axis] = e.value]
    /\ parse_buttons(jsd')
    /\ fresh' = (bstates'["right"] = "pressed")

\* Fault: when there is no event, nothing has changed.
Update_forgets ==
    /\ mpc = "read"
    /\ mpc' \in {"read", "left"}
    /\ toggleArmingFlag' = FALSE
    /\ IF events = <<>>
         THEN /\ bstates' = [k \in Buttons |-> "unchanged"]
              /\ UNCHANGED <<events, jsd, old, fresh>>
         ELSE ReadEvent(Head(events))
    /\ UNCHANGED <<device, user, asked, manual, mode, receiver, link>>

\* The call begins: the flag is a local variable.  One event at most is read.
\* When 10 ms have passed the call goes on to act.
Update ==
    /\ mpc = "read"
    /\ mpc' \in {"read", "left"}
    /\ toggleArmingFlag' = FALSE
    /\ IF events = <<>> THEN UNCHANGED <<events, buttons, fresh>>
                        ELSE ReadEvent(Head(events))
    /\ UNCHANGED <<device, user, asked, manual, mode, receiver, link>>

-----------------------------------------------------------------------------
(* Every 10 ms the buttons are acted on and the sticks are sent.           *)

\* From here on main() reads arguments for mlu_set_target_mode.  The receiver
\* has written the last heartbeat, and may have begun with the next.
StartReading(flags) ==
    /\ args' = [NoArgs EXCEPT !["flags"] = flags]
    /\ readable' = {last} \cup (IF rpc = "custom_mode" THEN {Head(beats).flight} ELSE {})

\* Button 1: mlu_set_initial_target_mode, which disarms.
HandleLeft ==
    /\ mpc = "left"
    /\ IF bstates["left"] = "pressed"
         THEN mpc' = "initial" /\ StartReading(Fixed)
         ELSE mpc' = "right" /\ UNCHANGED mode
    /\ UNCHANGED <<joystick, buttons, toggling, manual, receiver, link>>

\* Button 2: mlu_toggle_target_arming looks at is_armed ...
HandleRight ==
    /\ mpc = "right"
    /\ IF bstates["right"] = "pressed" /\ ~toggleArmingFlag
         THEN /\ toggleArmingFlag' = TRUE
              /\ fresh' = FALSE
              /\ IF isArmed THEN mpc' = "disarm" /\ StartReading(Unread)
                            ELSE mpc' = "check" /\ UNCHANGED mode
         ELSE /\ mpc' = "manual"
              /\ toggleArmingFlag' =
                    (toggleArmingFlag /\ bstates["right"] # "released")
              /\ UNCHANGED <<fresh, mode>>
    /\ UNCHANGED <<joystick, buttons, manual, receiver, link>>

\* ... and mlu_arm_target looks at it again.
Check ==
    /\ mpc = "check"
    /\ IF isArmed THEN mpc' = "manual" /\ UNCHANGED mode
                  ELSE mpc' = "arm" /\ StartReading(Unread)
    /\ UNCHANGED <<joystick, buttons, toggling, manual, receiver, link>>

\* The arguments of mlu_set_target_mode are evaluated in any order.
ReadArgument ==
    /\ mpc \in {"initial", "arm", "disarm"}
    /\ \E h \in Halves : /\ args[h] = Unread
                         /\ args' = [args EXCEPT ![h] = target[h]]
    /\ UNCHANGED <<joystick, buttons, mpc, toggling, manual, readable, receiver, link>>

\* mlu_set_target_mode: the message is sent, unless the stream does not take it.
SetTargetMode ==
    /\ mpc \in {"initial", "arm", "disarm"}
    /\ \A h \in Halves : args[h] # Unread
    /\ \/ Len(commands) < MaxSent /\ commands' = Append(commands, mpc = "arm")
       \/ UNCHANGED commands
    /\ mpc' = IF mpc = "initial" THEN "right" ELSE "manual"
    /\ args' = NoArgs
    /\ readable' = {}
    /\ UNCHANGED <<joystick, buttons, toggling, manual, receiver, beats, vehicle>>

\* The message of the sticks ends the 10 ms part.
SendManual ==
    /\ mpc = "manual"
    /\ mpc' = "read"
    /\ manual' = create_manual_control(jsd)
    /\ UNCHANGED <<joystick, buttons, toggling, mode, receiver, link>>

-----------------------------------------------------------------------------
(* The vehicle, and ml_conn_update_target_state on a heartbeat.            *)

VehicleObeys ==
    /\ commands # <<>>
    /\ vehicle' = [vehicle EXCEPT !.armed = Head(commands)]
    /\ commands' = Tail(commands)
    /\ UNCHANGED <<joystick, buttons, main, receiver, beats>>

\* The vehicle changes its flight mode: its pilot, its ground station or the
\* rest of a command wants it to.
ChangeFlight ==
    /\ vehicle.flight < MaxFlight
    /\ vehicle' = [vehicle EXCEPT !.flight = @ + 1]
    /\ UNCHANGED <<joystick, buttons, main, receiver, commands, beats>>

Heartbeat ==
    /\ Len(beats) < MaxSent
    /\ beats' = Append(beats, vehicle)
    /\ UNCHANGED <<joystick, buttons, main, receiver, commands, vehicle>>

WriteBaseMode ==
    /\ rpc = "recv"
    /\ beats # <<>>
    /\ target' = [target EXCEPT !.armed = Head(beats).armed, !.flags = Head(beats).flight]
    /\ readable' = IF readable = {} THEN {} ELSE readable \cup {Head(beats).flight}
    /\ rpc' = "custom_mode"
    /\ UNCHANGED <<joystick, buttons, mpc, toggling, manual, args, isArmed, last, link>>

\* Fault: the custom mode is kept while the target stays unarmed.
WriteCustomMode_lazy ==
    /\ rpc = "custom_mode"
    /\ target' = IF target.armed \/ isArmed
                   THEN [target EXCEPT !.custom = Head(beats).flight]
                   ELSE target
    /\ last' = Head(beats).flight
    /\ rpc' = "is_armed"
    /\ UNCHANGED <<joystick, buttons, main, isArmed, link>>

WriteCustomMode ==
    /\ rpc = "custom_mode"
    /\ target' = [target EXCEPT !.custom = Head(beats).flight]
    /\ last' = Head(beats).flight
    /\ rpc' = "is_armed"
    /\ UNCHANGED <<joystick, buttons, main, isArmed, link>>

\* Fault: the flag is set by a heartbeat and never cleared.
WriteIsArmed_sticky ==
    /\ rpc = "is_armed"
    /\ isArmed' = (isArmed \/ target.armed)
    /\ rpc' = "recv"
    /\ beats' = Tail(beats)
    /\ UNCHANGED <<joystick, buttons, main, target, last, commands, vehicle>>

WriteIsArmed ==
    /\ rpc = "is_armed"
    /\ isArmed' = target.armed
    /\ rpc' = "recv"
    /\ beats' = Tail(beats)
    /\ UNCHANGED <<joystick, buttons, main, target, last, commands, vehicle>>

-----------------------------------------------------------------------------

User == MoveStick \/ MoveButton

Main == \/ Update
        \/ HandleLeft \/ HandleRight \/ Check
        \/ ReadArgument \/ SetTargetMode
        \/ SendManual

Receiver == WriteBaseMode \/ WriteCustomMode \/ WriteIsArmed

Next == \/ User
        \/ Main
        \/ VehicleObeys \/ ChangeFlight \/ Heartbeat
        \/ Receiver

\* The 10 ms part begins and goes on: its first step is a call of the 1 ms
\* part that finds the 10 ms over.
TenMs == (Update /\ mpc' = "left") \/ (mpc # "read" /\ Main)

\* 10 ms pass again and again, messages arrive and the vehicle sends
\* heartbeats.  The user need not do anything.
Fairness == /\ WF_vars(TenMs)
            /\ WF_vars(VehicleObeys)
            /\ WF_vars(Heartbeat)
            /\ WF_vars(Receiver)

Spec == Init /\ [][Next]_vars

FairSpec == Spec /\ Fairness

-----------------------------------------------------------------------------
(* Properties.                                                             *)

\* Every variable has its type.
TypeOK ==
    /\ device \in [Axes -> Int16]
    /\ events \in Seq([axis : Axes, value : Int16])
    /\ user \in 0..MaxUser
    /\ asked \in BOOLEAN
    /\ jsd \in [Axes -> Int16]
    /\ bstates \in [Buttons -> {"none", "pressed", "released", "unchanged"}]
    /\ old \in [Buttons -> Int16]
    /\ mpc \in {"read", "left", "initial", "right", "check", "arm", "disarm", "manual"}
    /\ toggleArmingFlag \in BOOLEAN
    /\ fresh \in BOOLEAN
    /\ manual \in [x : Int16, y : Int16, z : Int16, r : Int16]
    /\ args \in [Halves -> Flights \cup {Unset, Fixed, Unread}]
    /\ readable \subseteq Flights \cup {Unset}
    /\ target \in [armed : BOOLEAN, flags : Flights \cup {Unset}, custom : Flights \cup {Unset}]
    /\ isArmed \in BOOLEAN
    /\ last \in Flights \cup {Unset}
    /\ rpc \in {"recv", "custom_mode", "is_armed"}
    /\ commands \in Seq(BOOLEAN)
    /\ beats \in Seq(Mode)
    /\ vehicle \in Mode

\* What the user has done reaches jsd, in the order it was done: once every
\* event is read jsd shows the axes as they are held, and a button that is
\* up is not taken for a pressed one.
NoStuckPress ==
    events = <<>> =>
       /\ jsd = device
       /\ \A k \in Buttons : device[k] = Up => bstates[k] # "pressed"

\* Buttons nobody has pressed send no command, with one exception: parse_buttons
\* starts from SHRT_MIN and jsd from 0, so that the first event of all, whatever
\* its axis, reads as a press of both until the next event is read.
OnlyPressesCommand ==
    [][Len(commands') > Len(commands)
          => asked \/ Len(events) - user >= Len(StartupEvents) - 1]_vars

\* Both halves of a mode that is sent are recent, although they are written and
\* read one by one: each was reported by the last heartbeat written before
\* main() began to read, or by one that was written meanwhile.  So the mode is
\* one that was reported if none came in between; otherwise the halves may be
\* of two heartbeats (mavlink_conn.c:271, mavlink_utils.c:48).
HalvesAreRecent ==
    [][Len(commands') > Len(commands) =>
          /\ args["custom"] \in readable
          /\ args["flags"] \in readable \/ (mpc = "initial" /\ args["flags"] = Fixed)]_vars

\* A user who lets go of the buttons for good ends the toggling: the vehicle
\* keeps one state, and the target state is that of the vehicle.
Settles ==
    <>[](\A k \in Buttons : device[k] = Up)
       => \E flag \in BOOLEAN : <>[](vehicle.armed = flag /\ isArmed = flag)

\* A press of the right button that no other event follows is acted on, however
\* many events stand before it and however often the 1 ms part runs before the
\* 10 ms are over.  One that an event of any axis follows may be lost.
LastPressActs ==
    LET press == Event("right", Down)
    IN  events # <<>> /\ events[Len(events)] = press
           ~> \/ events # <<>> /\ events[Len(events)] # press
              \/ events = <<>> /\ mpc \in {"check", "disarm"}

\* A MANUAL_CONTROL that is sent when every event has been read shows the
\* sticks as they are held: nothing when they are left alone, although the
\* throttle has its trim at one end, and full throttle at the other end.
ControlFollows ==
    [][mpc = "manual" /\ mpc' = "read" /\ events = <<>> =>
          /\ (\A k \in Sticks : device[k] = Rest[k]) => manual' = Nothing
          /\ device["throttle"] = SHRT_MIN => manual'.r = 1000]_vars

\* "toggle arming" (main.c): one report of a pressed button is one toggle.
OnePressOneToggle == [][toggleArmingFlag' /\ ~toggleArmingFlag => fresh]_vars
=============================================================================
