----------------------------- MODULE ArmingProofs -----------------------------
(***************************************************************************)
(* What the joystick commands, for any number of events, commands,         *)
(* heartbeats and flight modes and any positions of the sticks: no press   *)
(* is stuck, no command is sent that nobody asked for after the first      *)
(* event, and both halves of the mode in a command are recent; and the     *)
(* sticks arrive as they are held.                                         *)
(***************************************************************************)
EXTENDS Arming, TLAPS

\* The last event of an axis shows where it is held; without one jsd does.
Newest(k) ==
    \/ \E i \in DOMAIN events :
          /\ events[i].axis = k
          /\ events[i].value = device[k]
          /\ \A j \in DOMAIN events : j > i => events[j].axis # k
    \/ /\ \A i \in DOMAIN events : events[i].axis # k
       /\ jsd[k] = device[k]

EventsShow == \A k \in Axes : Newest(k)

\* A button that reads as pressed is not up.
PressedIsDown == \A k \in Buttons : bstates[k] = "pressed" => jsd[k] > Up

\* Until the user presses a button, all that parse_buttons sees of them is
\* that they are up, and only its first call compares with SHRT_MIN.
Quiet ==
    ~asked =>
       /\ \A i \in DOMAIN events : events[i].axis \in Buttons => events[i].value = Up
       /\ \A k \in Buttons : jsd[k] \in {0, Up}
       /\ \A k \in Buttons : old[k] = jsd[k] \/ Len(events) - user >= 6
       /\ \A k \in Buttons : bstates[k] = "pressed" => Len(events) - user >= 5
       /\ mpc \in {"initial", "check", "arm", "disarm"} => Len(events) - user >= 5

\* main() reads, or has read, the arguments of a command.
Reading == mpc \in {"initial", "arm", "disarm"}

\* The target shows the last heartbeat, but for the half that the receiver has
\* written of the next.
HalvesShow ==
    /\ rpc # "recv" => beats # <<>>
    /\ target.custom = last
    /\ target.flags = IF rpc = "custom_mode" THEN Head(beats).flight ELSE last

\* What main() reads, and what it has read, stood in target meanwhile.
ArgsAreRecent ==
    IF Reading
      THEN /\ \A h \in Halves : target[h] \in readable
           /\ args["custom"] \in readable \cup {Unread}
           /\ \/ args["flags"] \in readable \cup {Unread}
              \/ mpc = "initial" /\ args["flags"] = Fixed
      ELSE readable = {}

ArmingInv ==
    /\ TypeOK
    /\ EventsShow
    /\ PressedIsDown
    /\ Quiet
    /\ HalvesShow
    /\ ArgsAreRecent

-----------------------------------------------------------------------------

\* The limits of 16 bits are integers.
LEMMA Limits ==
  /\ SHRT_MIN \in Int /\ SHRT_MAX \in Int
  /\ SHRT_MIN <= -2000 /\ 2000 <= SHRT_MAX
BY DEF SHRT_MIN, SHRT_MAX

\* What the buttons report has 16 bits.
LEMMA ButtonValues ==
  Up \in Int16 /\ Down \in Int16 /\ 0 \in Int16 /\ SHRT_MIN \in Int16
<1>1. /\ SHRT_MIN <= Up /\ Up <= SHRT_MAX /\ Up \in Int
      /\ SHRT_MIN <= Down /\ Down <= SHRT_MAX /\ Down \in Int
  BY DEF SHRT_MIN, SHRT_MAX, Up, Down
<1> QED
  BY <1>1, Limits DEF Int16

\* What 16 bits hold.
LEMMA ShortIsInt ==
  ASSUME NEW v \in Int16
  PROVE  v \in Int /\ SHRT_MIN <= v /\ v <= SHRT_MAX
BY Limits DEF Int16

\* A channel keeps within its scale, which keeps within 16 bits.
LEMMA ConvertRange ==
  ASSUME NEW chn, NEW raw \in Int,
         chn.scale \in Nat, chn.scale <= 2000, chn.dz \in Nat,
         chn.min \in Int, chn.max \in Int, chn.trim \in Int, chn.min <= chn.max
  PROVE  js_chn_convert(chn, raw) \in Int16
<1> DEFINE input == Within(chn.min, raw, chn.max)
           above == input - chn.trim - chn.dz
           below == input - chn.trim + chn.dz
           sign  == IF chn.rev THEN -1 ELSE 1
           part  == IF above > 0
                      THEN Quotient(sign * above * chn.scale, chn.max - chn.trim - chn.dz)
                    ELSE IF below < 0
                      THEN Quotient(sign * below * chn.scale, chn.trim - chn.min - chn.dz)
                    ELSE 0
<1>1. input \in Int /\ chn.min <= input /\ input <= chn.max
  BY DEF Within
<1>2. \A a, b \in Int : b > 0 => Quotient(a, b) \in Int
  BY DEF Quotient
<1>3. above \in Int /\ below \in Int /\ sign \in Int
  BY <1>1
<1>4. sign * above * chn.scale \in Int /\ sign * below * chn.scale \in Int
  <2> HIDE DEF above, below, sign
  <2> QED
    BY <1>3
<1>5. above > 0 => chn.max - chn.trim - chn.dz > 0
  BY <1>1
<1>6. below < 0 => chn.trim - chn.min - chn.dz > 0
  BY <1>1
<1>7. part \in Int
  <2> HIDE DEF above, below, sign
  <2> QED
    BY <1>2, <1>4, <1>5, <1>6
<1>8. Within(-chn.scale, part, chn.scale) \in Int16
  <2> HIDE DEF part
  <2>1. /\ Within(-chn.scale, part, chn.scale) \in Int
        /\ SHRT_MIN <= Within(-chn.scale, part, chn.scale)
        /\ Within(-chn.scale, part, chn.scale) <= SHRT_MAX
    BY <1>7, Limits DEF Within
  <2> QED
    BY <2>1, Limits DEF Int16
<1> QED
  BY <1>8 DEF js_chn_convert

\* The calibration of the code is one of that kind.
LEMMA CalibRange ==
  ASSUME NEW c \in Sticks, NEW v \in Int
  PROVE  js_chn_convert(calib[c], v) \in Int16
<1>1. /\ calib[c].scale \in Nat /\ calib[c].scale <= 2000 /\ calib[c].dz \in Nat
      /\ calib[c].min \in Int /\ calib[c].max \in Int /\ calib[c].trim \in Int
      /\ calib[c].min <= calib[c].max
  BY DEF calib, Sticks, SHRT_MIN, SHRT_MAX
<1> QED
  BY <1>1, ConvertRange

\* MANUAL_CONTROL has fields of 16 bits, which hold what is sent.
LEMMA ManualRange ==
  ASSUME NEW raw, \A k \in Sticks : raw[k] \in Int
  PROVE  create_manual_control(raw) \in [x : Int16, y : Int16, z : Int16, r : Int16]
<1>1. \A k \in Sticks : js_chn_convert(calib[k], raw[k]) \in Int16
  BY CalibRange
<1>2. /\ js_chn_convert(calib["roll"], raw["roll"]) \in Int16
      /\ js_chn_convert(calib["pitch"], raw["pitch"]) \in Int16
      /\ js_chn_convert(calib["yaw"], raw["yaw"]) \in Int16
      /\ js_chn_convert(calib["throttle"], raw["throttle"]) \in Int16
  BY <1>1 DEF Sticks
<1>3. 0 \in Int16
  BY ButtonValues
<1> QED
  BY <1>2, <1>3, Zenon DEF create_manual_control

-----------------------------------------------------------------------------
(* The initial states and the types.                                       *)

\* Every axis has its one event at the start.
LEMMA InitInv == Init => ArmingInv
<1> SUFFICES ASSUME Init
             PROVE  ArmingInv
  OBVIOUS
<1>1. /\ Rest \in [Sticks -> Int16]
      /\ MaxUser \in Nat
  BY JoystickAssumption
<1>2. /\ Len(events) = 6 /\ DOMAIN events = 1..6
      /\ events[1] = Event("yaw", Rest["yaw"])
      /\ events[2] = Event("throttle", Rest["throttle"])
      /\ events[3] = Event("roll", Rest["roll"])
      /\ events[4] = Event("left", Up)
      /\ events[5] = Event("right", Up)
      /\ events[6] = Event("pitch", Rest["pitch"])
  BY DEF Init, StartupEvents
<1>3. TypeOK
  <2>1. events \in Seq([axis : Axes, value : Int16])
    <3>1. \A k \in Sticks : Event(k, Rest[k]) \in [axis : Axes, value : Int16]
      BY <1>1 DEF Event, Axes
    <3>2. \A k \in Buttons : Event(k, Up) \in [axis : Axes, value : Int16]
      BY ButtonValues DEF Event, Axes
    <3>3. /\ Event("yaw", Rest["yaw"]) \in [axis : Axes, value : Int16]
          /\ Event("throttle", Rest["throttle"]) \in [axis : Axes, value : Int16]
          /\ Event("roll", Rest["roll"]) \in [axis : Axes, value : Int16]
          /\ Event("left", Up) \in [axis : Axes, value : Int16]
          /\ Event("right", Up) \in [axis : Axes, value : Int16]
          /\ Event("pitch", Rest["pitch"]) \in [axis : Axes, value : Int16]
      BY <3>1, <3>2 DEF Sticks, Buttons
    <3> HIDE DEF Event
    <3> QED
      BY <3>3 DEF Init, StartupEvents
  <2>2. device \in [Axes -> Int16]
    BY <1>1, ButtonValues DEF Init, Axes
  <2>3. jsd \in [Axes -> Int16] /\ old \in [Buttons -> Int16]
    BY ButtonValues DEF Init
  <2>4. manual \in [x : Int16, y : Int16, z : Int16, r : Int16]
    BY ButtonValues DEF Init, Nothing
  <2>5. /\ target \in [armed : BOOLEAN, flags : Flights \cup {Unset}, custom : Flights \cup {Unset}]
        /\ vehicle \in Mode
    BY JoystickAssumption DEF Init, Mode, Flights
  <2>6. /\ user \in 0..MaxUser
        /\ bstates \in [Buttons -> {"none", "pressed", "released", "unchanged"}]
        /\ commands \in Seq(BOOLEAN) /\ beats \in Seq(Mode)
        /\ args \in [Halves -> Flights \cup {Unset, Fixed, Unread}]
        /\ readable \subseteq Flights \cup {Unset}
        /\ last \in Flights \cup {Unset}
    BY <1>1 DEF Init, NoArgs
  <2>7. /\ asked \in BOOLEAN /\ toggleArmingFlag \in BOOLEAN /\ fresh \in BOOLEAN
        /\ isArmed \in BOOLEAN
        /\ mpc = "read" /\ rpc = "recv"
    BY DEF Init
  <2> QED
    BY <2>1, <2>2, <2>3, <2>4, <2>5, <2>6, <2>7 DEF TypeOK
<1>4. EventsShow
  <2>1. \A k \in Sticks : device[k] = Rest[k]
    BY DEF Init, Axes, Sticks, Buttons
  <2>2. device["left"] = Up /\ device["right"] = Up
    BY DEF Init, Axes, Buttons
  <2> QED
    BY <1>2, <2>1, <2>2 DEF EventsShow, Newest, Event, Axes, Sticks, Buttons
<1>5. PressedIsDown
  BY DEF Init, PressedIsDown
<1>6. Quiet
  BY <1>2, <1>1 DEF Init, Quiet, Event, Axes, Sticks, Buttons
<1>7. HalvesShow /\ ArgsAreRecent
  BY DEF Init, HalvesShow, ArgsAreRecent, Reading
<1> QED
  BY <1>3, <1>4, <1>5, <1>6, <1>7 DEF ArmingInv

-----------------------------------------------------------------------------
(* The steps.                                                              *)

\* The user's event comes last and shows where the axis is held.
LEMMA MoveStep ==
  ASSUME ArmingInv, NEW axis \in Axes, NEW value \in Int16, Move(axis, value),
         axis \in Buttons => value \in {Up, Down}
  PROVE  ArmingInv'
<1> DEFINE e == Event(axis, value)
<1>1. /\ events' = Append(events, e) /\ e.axis = axis /\ e.value = value
      /\ device' = [device EXCEPT ![axis] = value]
      /\ user' = user + 1 /\ user < MaxUser
      /\ asked' = (asked \/ (axis \in Buttons /\ value = Down))
      /\ UNCHANGED <<jsd, bstates, old, mpc, toggleArmingFlag, fresh, manual, args,
                     readable, target, isArmed, last, rpc, commands, beats, vehicle>>
  BY DEF Move, Event, buttons, main, toggling, mode, receiver, link
<1>2. /\ events \in Seq([axis : Axes, value : Int16]) /\ device \in [Axes -> Int16]
      /\ user \in 0..MaxUser /\ asked \in BOOLEAN /\ MaxUser \in Nat
  BY JoystickAssumption DEF ArmingInv, TypeOK
<1>3. e \in [axis : Axes, value : Int16]
  BY DEF Event
<1> HIDE DEF e
<1>4. /\ Len(events') = Len(events) + 1 /\ Len(events) \in Nat
      /\ DOMAIN events' = 1..(Len(events) + 1) /\ DOMAIN events = 1..Len(events)
      /\ events'[Len(events) + 1] = e
      /\ \A i \in DOMAIN events : events'[i] = events[i]
  BY <1>1, <1>2, <1>3
<1>5. /\ events' \in Seq([axis : Axes, value : Int16])
      /\ device' \in [Axes -> Int16]
      /\ user' \in 0..MaxUser
      /\ asked' \in BOOLEAN
  BY <1>1, <1>2, <1>3
<1>6. TypeOK'
  BY <1>1, <1>5 DEF ArmingInv, TypeOK
<1>7. EventsShow'
  <2> SUFFICES ASSUME NEW k \in Axes
               PROVE  Newest(k)'
    BY DEF EventsShow
  <2>1. CASE k = axis
    BY <1>1, <1>2, <1>4, <2>1 DEF Newest
  <2>2. CASE k # axis
    BY <1>1, <1>2, <1>4, <2>2 DEF ArmingInv, EventsShow, Newest
  <2> QED
    BY <2>1, <2>2
<1>8. PressedIsDown'
  BY <1>1 DEF ArmingInv, PressedIsDown
<1>9. Quiet'
  <2> SUFFICES ASSUME ~asked'
               PROVE  Quiet'
    BY DEF Quiet
  <2>1. ~asked /\ Len(events') - user' = Len(events) - user
    <3>1. asked' = (asked \/ (axis \in Buttons /\ value = Down))
      BY <1>1
    <3>2. ~asked
      BY <3>1, Zenon
    <3> QED
      BY <1>1, <1>2, <1>4, <3>2
  <2>2. \A i \in DOMAIN events' : events'[i].axis \in Buttons => events'[i].value = Up
    <3>1. axis \in Buttons => value = Up
      BY <1>1
    <3> QED
      BY <1>1, <1>4, <2>1, <3>1 DEF ArmingInv, Quiet
  <2> QED
    BY <1>1, <2>1, <2>2 DEF ArmingInv, Quiet
<1>10. HalvesShow' /\ ArgsAreRecent'
  BY <1>1 DEF ArmingInv, HalvesShow, ArgsAreRecent, Reading
<1> QED
  BY <1>6, <1>7, <1>8, <1>9, <1>10 DEF ArmingInv

\* The first of a sequence that is not empty.
LEMMA SequenceHead ==
  ASSUME NEW S, NEW s \in Seq(S), s # <<>>
  PROVE  /\ s[1] \in S
         /\ 1 \in DOMAIN s /\ DOMAIN s = 1..Len(s)
         /\ Len(s) \in Nat /\ Len(s) > 0
         /\ Head(s) = s[1]
OBVIOUS

\* What reading the oldest event leaves behind: the rest of the events, the
\* axis it was about, and the buttons compared with what they were.
LEMMA ReadStep ==
  ASSUME ArmingInv, events # <<>>, ReadEvent(Head(events))
  PROVE  LET e == events[1]
         IN  /\ e.axis \in Axes /\ e.value \in Int16
             /\ 1 \in DOMAIN events /\ DOMAIN events = 1..Len(events)
             /\ Len(events) \in Nat /\ Len(events) > 0
             /\ events' \in Seq([axis : Axes, value : Int16])
             /\ Len(events') = Len(events) - 1
             /\ DOMAIN events' = 1..(Len(events) - 1)
             /\ \A i \in DOMAIN events' : events'[i] = events[i + 1]
             /\ jsd' = [jsd EXCEPT ![e.axis] = e.value]
             /\ jsd' \in [Axes -> Int16]
             /\ bstates' = [k \in Buttons |-> Change(jsd'[k] - old[k])]
             /\ old' = [k \in Buttons |-> jsd'[k]]
             /\ fresh' = (bstates'["right"] = "pressed")
<1>1. /\ events \in Seq([axis : Axes, value : Int16])
      /\ jsd \in [Axes -> Int16]
  BY DEF ArmingInv, TypeOK
<1>2. /\ events[1] \in [axis : Axes, value : Int16]
      /\ 1 \in DOMAIN events /\ DOMAIN events = 1..Len(events)
      /\ Len(events) \in Nat /\ Len(events) > 0
      /\ Head(events) = events[1]
  BY <1>1, SequenceHead
<1>3. events[1].axis \in Axes /\ events[1].value \in Int16
  BY <1>2
<1>4. events' = Tail(events)
  BY DEF ReadEvent
<1>5. /\ events' \in Seq([axis : Axes, value : Int16])
      /\ Len(events') = Len(events) - 1
      /\ DOMAIN events' = 1..(Len(events) - 1)
      /\ \A i \in DOMAIN events' : events'[i] = events[i + 1]
  BY <1>1, <1>2, <1>4
<1>6. jsd' = [jsd EXCEPT ![events[1].axis] = events[1].value]
  BY <1>2 DEF ReadEvent
<1>7. jsd' \in [Axes -> Int16]
  BY <1>1, <1>3, <1>6
<1>8. /\ bstates' = [k \in Buttons |-> Change(jsd'[k] - old[k])]
      /\ old' = [k \in Buttons |-> jsd'[k]]
      /\ fresh' = (bstates'["right"] = "pressed")
  BY DEF ReadEvent, parse_buttons, Pressed
<1> QED
  BY <1>2, <1>3, <1>5, <1>6, <1>7, <1>8

\* A call of the 1 ms part.
LEMMA UpdateStep ==
  ASSUME ArmingInv, Update
  PROVE  ArmingInv'
<1>1. /\ mpc' \in {"read", "left"} /\ toggleArmingFlag' = FALSE
      /\ mpc = "read"
      /\ UNCHANGED <<device, user, asked, manual, args, readable, target, isArmed,
                     last, rpc, commands, beats, vehicle>>
  BY DEF Update, mode, receiver, link
<1>2. CASE events = <<>>
  <2>1. UNCHANGED <<events, jsd, bstates, old, fresh>>
    BY <1>2 DEF Update, buttons
  <2>2. TypeOK'
    BY <1>1, <2>1 DEF ArmingInv, TypeOK
  <2>3. EventsShow'
    BY <1>1, <2>1 DEF ArmingInv, EventsShow, Newest
  <2>4. PressedIsDown'
    BY <2>1 DEF ArmingInv, PressedIsDown
  <2>5. Quiet'
    BY <1>1, <2>1 DEF ArmingInv, Quiet
  <2>6. HalvesShow' /\ ArgsAreRecent'
    BY <1>1 DEF ArmingInv, HalvesShow, ArgsAreRecent, Reading
  <2> QED
    BY <2>2, <2>3, <2>4, <2>5, <2>6 DEF ArmingInv
<1>3. CASE events # <<>>
  <2> DEFINE e == events[1]
  <2>0. ReadEvent(Head(events))
    BY <1>3 DEF Update
  <2>1. /\ e.axis \in Axes /\ e.value \in Int16
        /\ 1 \in DOMAIN events /\ DOMAIN events = 1..Len(events)
        /\ Len(events) \in Nat /\ Len(events) > 0
        /\ events' \in Seq([axis : Axes, value : Int16])
        /\ Len(events') = Len(events) - 1
        /\ DOMAIN events' = 1..(Len(events) - 1)
        /\ \A i \in DOMAIN events' : events'[i] = events[i + 1]
    BY <1>3, <2>0, ReadStep
  <2>2. /\ jsd' = [jsd EXCEPT ![e.axis] = e.value]
        /\ jsd' \in [Axes -> Int16]
        /\ bstates' = [k \in Buttons |-> Change(jsd'[k] - old[k])]
        /\ old' = [k \in Buttons |-> jsd'[k]]
        /\ fresh' = (bstates'["right"] = "pressed")
    BY <1>3, <2>0, ReadStep
  <2>3. /\ jsd \in [Axes -> Int16] /\ old \in [Buttons -> Int16]
        /\ device \in [Axes -> Int16] /\ user \in Nat /\ Buttons \subseteq Axes
    BY JoystickAssumption DEF ArmingInv, TypeOK, Axes
  <2>4. TypeOK'
    <3>1. bstates' \in [Buttons -> {"none", "pressed", "released", "unchanged"}]
      BY <2>2 DEF Change
    <3>2. old' \in [Buttons -> Int16]
      BY <2>2, <2>3
    <3>3. fresh' \in BOOLEAN
      BY <2>2
    <3> QED
      BY <1>1, <2>1, <2>2, <3>1, <3>2, <3>3 DEF ArmingInv, TypeOK
  <2>5. EventsShow'
    <3> SUFFICES ASSUME NEW k \in Axes
                 PROVE  Newest(k)'
      BY DEF EventsShow
    <3>1. CASE \E i \in DOMAIN events :
                  /\ events[i].axis = k
                  /\ events[i].value = device[k]
                  /\ \A j \in DOMAIN events : j > i => events[j].axis # k
      <4>1. PICK i \in DOMAIN events :
                  /\ events[i].axis = k
                  /\ events[i].value = device[k]
                  /\ \A j \in DOMAIN events : j > i => events[j].axis # k
        BY <3>1
      <4>2. CASE i = 1
        <5>1. \A j \in DOMAIN events' : events'[j].axis # k
          BY <2>1, <4>1, <4>2
        <5>2. jsd'[k] = device'[k]
          BY <1>1, <2>2, <2>3, <4>1, <4>2
        <5> QED
          BY <5>1, <5>2 DEF Newest
      <4>3. CASE i # 1
        <5>1. /\ i - 1 \in DOMAIN events'
              /\ events'[i - 1] = events[i]
          BY <2>1, <4>3
        <5>2. \A j \in DOMAIN events' : j > i - 1 => events'[j].axis # k
          BY <2>1, <4>1
        <5> QED
          BY <1>1, <4>1, <5>1, <5>2 DEF Newest
      <4> QED
        BY <4>2, <4>3
    <3>2. CASE /\ \A i \in DOMAIN events : events[i].axis # k
               /\ jsd[k] = device[k]
      <4>1. \A j \in DOMAIN events' : events'[j].axis # k
        BY <2>1, <3>2
      <4>2. jsd'[k] = device'[k]
        BY <1>1, <2>1, <2>2, <2>3, <3>2
      <4> QED
        BY <4>1, <4>2 DEF Newest
    <3> QED
      BY <3>1, <3>2 DEF ArmingInv, EventsShow, Newest
  <2>6. PressedIsDown'
    <3> SUFFICES ASSUME NEW k \in Buttons, bstates'[k] = "pressed"
                 PROVE  jsd'[k] > Up
      BY DEF PressedIsDown
    <3>1. jsd'[k] \in Int /\ old[k] \in Int /\ SHRT_MIN <= old[k]
      BY <2>2, <2>3, ShortIsInt
    <3>2. Change(jsd'[k] - old[k]) = "pressed"
      BY <2>2
    <3> QED
      BY <3>1, <3>2 DEF Change, dz, Up, SHRT_MIN
  <2>7. Quiet'
    <3> SUFFICES ASSUME ~asked'
                 PROVE  Quiet'
      BY DEF Quiet
    <3>1. /\ \A i \in DOMAIN events : events[i].axis \in Buttons => events[i].value = Up
          /\ \A k \in Buttons : jsd[k] \in {0, Up}
          /\ \A k \in Buttons : old[k] = jsd[k] \/ Len(events) - user >= 6
      BY <1>1 DEF ArmingInv, Quiet
    <3>2. \A i \in DOMAIN events' : events'[i].axis \in Buttons => events'[i].value = Up
      BY <2>1, <3>1
    <3>3. \A k \in Buttons : jsd'[k] \in {0, Up} /\ (jsd'[k] = jsd[k] \/ jsd'[k] = Up)
      BY <2>1, <2>2, <2>3, <3>1
    <3>4. \A k \in Buttons : old'[k] = jsd'[k]
      BY <2>2
    <3>5. ASSUME NEW k \in Buttons, bstates'[k] = "pressed"
          PROVE  Len(events') - user' >= 5
      <4>1. Change(jsd'[k] - old[k]) = "pressed"
        BY <2>2, <3>5
      <4>2. old[k] # jsd[k]
        <5> SUFFICES ASSUME old[k] = jsd[k]
                     PROVE  FALSE
          OBVIOUS
        <5>1. jsd'[k] - old[k] \in {0, Up}
          BY <3>1, <3>3 DEF Up
        <5> QED
          BY <4>1, <5>1 DEF Change, dz, Up
      <4> QED
        BY <1>1, <2>1, <2>3, <3>1, <4>2
    <3> QED
      BY <1>1, <3>2, <3>3, <3>4, <3>5 DEF Quiet
  <2>8. HalvesShow' /\ ArgsAreRecent'
    BY <1>1 DEF ArmingInv, HalvesShow, ArgsAreRecent, Reading
  <2> QED
    BY <2>4, <2>5, <2>6, <2>7, <2>8 DEF ArmingInv
<1> QED
  BY <1>2, <1>3

\* When main() begins to read, readable holds what stands in the target.
LEMMA StartStep ==
  ASSUME TypeOK, HalvesShow, NEW flags \in {Fixed, Unread}, StartReading(flags)
  PROVE  /\ args' \in [Halves -> Flights \cup {Unset, Fixed, Unread}]
         /\ readable' \subseteq Flights \cup {Unset}
         /\ \A h \in Halves : target[h] \in readable'
         /\ args'["custom"] = Unread /\ args'["flags"] = flags
<1>1. target \in [armed : BOOLEAN, flags : Flights \cup {Unset}, custom : Flights \cup {Unset}]
  BY DEF TypeOK
<1>2. readable' = {target.flags, target.custom}
  BY DEF StartReading, HalvesShow
<1>3. args' = [NoArgs EXCEPT !["flags"] = flags]
  BY DEF StartReading
<1>4. \A h \in Halves : target[h] \in readable'
  BY <1>2 DEF Halves
<1> QED
  BY <1>1, <1>2, <1>3, <1>4 DEF NoArgs, Halves

\* The steps of the 10 ms part: only a button that reads as pressed leads to a
\* command, and what its arguments are read from is readable.
LEMMA ActStep ==
  ASSUME ArmingInv,
         \/ HandleLeft \/ HandleRight \/ Check
         \/ ReadArgument \/ SetTargetMode \/ SendManual
  PROVE  ArmingInv'
<1>1. TypeOK /\ EventsShow /\ PressedIsDown /\ Quiet /\ HalvesShow /\ ArgsAreRecent
  BY DEF ArmingInv
<1>2. UNCHANGED <<device, events, user, asked, jsd, bstates, old, target, isArmed,
                  last, rpc, beats, vehicle>>
  BY DEF HandleLeft, HandleRight, Check, ReadArgument, SetTargetMode, SendManual,
         joystick, buttons, receiver, link
<1>3. EventsShow' /\ PressedIsDown' /\ HalvesShow'
  BY <1>1, <1>2 DEF EventsShow, Newest, PressedIsDown, HalvesShow
<1>4. CASE HandleLeft
  <2>1. UNCHANGED <<toggleArmingFlag, fresh, manual, commands>>
    BY <1>4 DEF HandleLeft, toggling, link
  <2>2. CASE bstates["left"] = "pressed"
    <3>1. mpc' = "initial" /\ StartReading(Fixed)
      BY <1>4, <2>2 DEF HandleLeft
    <3>2. /\ args' \in [Halves -> Flights \cup {Unset, Fixed, Unread}]
          /\ readable' \subseteq Flights \cup {Unset}
          /\ \A h \in Halves : target[h] \in readable'
          /\ args'["custom"] = Unread /\ args'["flags"] = Fixed
      BY <1>1, <3>1, StartStep
    <3>3. TypeOK'
      BY <1>1, <1>2, <2>1, <3>1, <3>2 DEF TypeOK
    <3>4. Quiet'
      BY <1>1, <1>2, <2>2 DEF Quiet, Buttons
    <3>5. ArgsAreRecent'
      BY <1>2, <3>1, <3>2 DEF ArgsAreRecent, Reading
    <3> QED
      BY <1>3, <3>3, <3>4, <3>5 DEF ArmingInv
  <2>3. CASE bstates["left"] # "pressed"
    <3>1. mpc = "left" /\ mpc' = "right" /\ UNCHANGED <<args, readable>>
      BY <1>4, <2>3 DEF HandleLeft, mode
    <3> QED
      BY <1>1, <1>2, <1>3, <2>1, <3>1 DEF ArmingInv, TypeOK, Quiet, ArgsAreRecent, Reading
  <2> QED
    BY <2>2, <2>3
<1>5. CASE HandleRight
  <2>1. mpc = "right" /\ UNCHANGED <<manual, commands>>
    BY <1>5 DEF HandleRight, link
  <2>2. CASE bstates["right"] = "pressed" /\ ~toggleArmingFlag
    <3>1. toggleArmingFlag' = TRUE /\ fresh' = FALSE /\ mpc' \in {"check", "disarm"}
      BY <1>5, <2>2 DEF HandleRight
    <3>2. Quiet'
      BY <1>1, <1>2, <2>2 DEF Quiet, Buttons
    <3>3. CASE isArmed
      <4>1. mpc' = "disarm" /\ StartReading(Unread)
        BY <1>5, <2>2, <3>3 DEF HandleRight
      <4>2. /\ args' \in [Halves -> Flights \cup {Unset, Fixed, Unread}]
            /\ readable' \subseteq Flights \cup {Unset}
            /\ \A h \in Halves : target[h] \in readable'
            /\ args'["custom"] = Unread /\ args'["flags"] = Unread
        BY <1>1, <4>1, StartStep
      <4>3. TypeOK'
        BY <1>1, <1>2, <2>1, <3>1, <4>1, <4>2 DEF TypeOK
      <4>4. ArgsAreRecent'
        BY <1>2, <4>1, <4>2 DEF ArgsAreRecent, Reading
      <4> QED
        BY <1>3, <3>2, <4>3, <4>4 DEF ArmingInv
    <3>4. CASE ~isArmed
      <4>1. mpc' = "check" /\ UNCHANGED <<args, readable>>
        BY <1>5, <2>2, <3>4 DEF HandleRight, mode
      <4>2. TypeOK'
        BY <1>1, <1>2, <2>1, <3>1, <4>1 DEF TypeOK
      <4>3. ArgsAreRecent'
        BY <1>1, <2>1, <4>1 DEF ArgsAreRecent, Reading
      <4> QED
        BY <1>3, <3>2, <4>2, <4>3 DEF ArmingInv
    <3> QED
      BY <3>3, <3>4
  <2>3. CASE ~(bstates["right"] = "pressed" /\ ~toggleArmingFlag)
    <3>1. /\ toggleArmingFlag' \in BOOLEAN /\ mpc' = "manual"
          /\ UNCHANGED <<fresh, args, readable>>
      BY <1>5, <2>3 DEF HandleRight, mode
    <3> QED
      BY <1>1, <1>2, <1>3, <2>1, <3>1 DEF ArmingInv, TypeOK, Quiet, ArgsAreRecent, Reading
  <2> QED
    BY <2>2, <2>3
<1>6. CASE Check
  <2>1. mpc = "check" /\ UNCHANGED <<toggleArmingFlag, fresh, manual, commands>>
    BY <1>6 DEF Check, toggling, link
  <2>2. CASE isArmed
    <3>1. mpc' = "manual" /\ UNCHANGED <<args, readable>>
      BY <1>6, <2>2 DEF Check, mode
    <3> QED
      BY <1>1, <1>2, <1>3, <2>1, <3>1 DEF ArmingInv, TypeOK, Quiet, ArgsAreRecent, Reading
  <2>3. CASE ~isArmed
    <3>1. mpc' = "arm" /\ StartReading(Unread)
      BY <1>6, <2>3 DEF Check
    <3>2. /\ args' \in [Halves -> Flights \cup {Unset, Fixed, Unread}]
          /\ readable' \subseteq Flights \cup {Unset}
          /\ \A h \in Halves : target[h] \in readable'
          /\ args'["custom"] = Unread /\ args'["flags"] = Unread
      BY <1>1, <3>1, StartStep
    <3>3. TypeOK'
      BY <1>1, <1>2, <2>1, <3>1, <3>2 DEF TypeOK
    <3>4. Quiet'
      BY <1>1, <1>2, <2>1, <3>1 DEF Quiet
    <3>5. ArgsAreRecent'
      BY <1>2, <3>1, <3>2 DEF ArgsAreRecent, Reading
    <3> QED
      BY <1>3, <3>3, <3>4, <3>5 DEF ArmingInv
  <2> QED
    BY <2>2, <2>3
<1>7. CASE ReadArgument
  <2>1. /\ Reading
        /\ UNCHANGED <<mpc, toggleArmingFlag, fresh, manual, readable, commands>>
    BY <1>7 DEF ReadArgument, Reading, toggling, link
  <2>2. PICK h \in Halves : args' = [args EXCEPT ![h] = target[h]]
    BY <1>7 DEF ReadArgument
  <2>3. /\ args \in [Halves -> Flights \cup {Unset, Fixed, Unread}]
        /\ target[h] \in readable /\ readable \subseteq Flights \cup {Unset}
    BY <1>1, <2>1 DEF TypeOK, ArgsAreRecent
  <2>4. TypeOK'
    BY <1>1, <1>2, <2>1, <2>2, <2>3 DEF TypeOK
  <2>5. ArgsAreRecent'
    BY <1>1, <1>2, <2>1, <2>2, <2>3 DEF ArgsAreRecent, Reading, Halves
  <2>6. Quiet'
    BY <1>1, <1>2, <2>1 DEF Quiet
  <2> QED
    BY <1>3, <2>4, <2>5, <2>6 DEF ArmingInv
<1>8. CASE SetTargetMode
  <2>1. /\ Reading /\ mpc' \in {"right", "manual"} /\ args' = NoArgs /\ readable' = {}
        /\ UNCHANGED <<toggleArmingFlag, fresh, manual>>
    BY <1>8 DEF SetTargetMode, Reading, toggling
  <2>2. commands' \in Seq(BOOLEAN)
    <3> DEFINE arm == mpc = "arm"
    <3>1. commands' = commands \/ commands' = Append(commands, arm)
      BY <1>8 DEF SetTargetMode
    <3>2. commands \in Seq(BOOLEAN)
      BY <1>1 DEF TypeOK
    <3>3. arm \in BOOLEAN
      OBVIOUS
    <3> HIDE DEF arm
    <3> QED
      BY <3>1, <3>2, <3>3
  <2>3. args' \in [Halves -> Flights \cup {Unset, Fixed, Unread}]
    BY <2>1 DEF NoArgs
  <2>4. TypeOK'
    BY <1>1, <1>2, <2>1, <2>2, <2>3 DEF TypeOK
  <2>5. Quiet' /\ ArgsAreRecent'
    BY <1>1, <1>2, <2>1 DEF Quiet, ArgsAreRecent, Reading
  <2> QED
    BY <1>3, <2>4, <2>5 DEF ArmingInv
<1>9. CASE SendManual
  <2>1. /\ mpc = "manual" /\ mpc' = "read"
        /\ UNCHANGED <<toggleArmingFlag, fresh, args, readable, commands>>
        /\ manual' = create_manual_control(jsd)
    BY <1>9 DEF SendManual, toggling, mode, link
  <2>2. manual' \in [x : Int16, y : Int16, z : Int16, r : Int16]
    <3>1. \A k \in Sticks : jsd[k] \in Int
      BY <1>1, ShortIsInt DEF TypeOK, Axes
    <3> QED
      BY <2>1, <3>1, ManualRange
  <2> QED
    BY <1>1, <1>2, <1>3, <2>1, <2>2 DEF ArmingInv, TypeOK, Quiet, ArgsAreRecent, Reading
<1> QED
  BY <1>4, <1>5, <1>6, <1>7, <1>8, <1>9

\* The vehicle and the receiver pass modes on.  A half that is written while
\* arguments are read is readable from then on.
LEMMA LinkStep ==
  ASSUME ArmingInv,
         \/ VehicleObeys \/ ChangeFlight \/ Heartbeat
         \/ WriteBaseMode \/ WriteCustomMode \/ WriteIsArmed
  PROVE  ArmingInv'
<1>1. TypeOK /\ EventsShow /\ PressedIsDown /\ Quiet /\ HalvesShow /\ ArgsAreRecent
  BY DEF ArmingInv
<1>2. UNCHANGED <<device, events, user, asked, jsd, bstates, old, mpc,
                  toggleArmingFlag, fresh, manual, args>>
  BY DEF VehicleObeys, ChangeFlight, Heartbeat, WriteBaseMode, WriteCustomMode,
         WriteIsArmed, joystick, buttons, main, toggling, mode
<1>3. EventsShow' /\ PressedIsDown' /\ Quiet'
  BY <1>1, <1>2 DEF EventsShow, Newest, PressedIsDown, Quiet
<1>4. /\ commands \in Seq(BOOLEAN) /\ beats \in Seq(Mode) /\ vehicle \in Mode
      /\ target \in [armed : BOOLEAN, flags : Flights \cup {Unset}, custom : Flights \cup {Unset}]
      /\ readable \subseteq Flights \cup {Unset}
  BY <1>1 DEF TypeOK
<1>5. beats # <<>> => Head(beats) \in Mode
  BY <1>4, SequenceHead
<1>6. CASE VehicleObeys
  <2>1. /\ commands # <<>> /\ commands' = Tail(commands)
        /\ vehicle' = [vehicle EXCEPT !.armed = Head(commands)]
        /\ UNCHANGED <<readable, target, isArmed, last, rpc, beats>>
    BY <1>6 DEF VehicleObeys, main, mode, receiver
  <2>2. Head(commands) \in BOOLEAN /\ commands' \in Seq(BOOLEAN)
    BY <1>4, <2>1, SequenceHead
  <2>3. vehicle' \in Mode
    BY <1>4, <2>1, <2>2 DEF Mode
  <2>4. TypeOK'
    BY <1>1, <1>2, <2>1, <2>2, <2>3 DEF TypeOK
  <2>5. HalvesShow' /\ ArgsAreRecent'
    BY <1>1, <1>2, <2>1 DEF HalvesShow, ArgsAreRecent, Reading
  <2> QED
    BY <1>3, <2>4, <2>5 DEF ArmingInv
<1>7. CASE ChangeFlight
  <2>1. /\ vehicle.flight < MaxFlight
        /\ vehicle' = [vehicle EXCEPT !.flight = vehicle.flight + 1]
        /\ UNCHANGED <<readable, target, isArmed, last, rpc, commands, beats>>
    BY <1>7 DEF ChangeFlight, main, mode, receiver
  <2>2. vehicle' \in Mode
    <3>1. vehicle.flight \in Flights /\ MaxFlight \in Nat
      BY <1>4, JoystickAssumption DEF Mode
    <3>2. vehicle.flight + 1 \in Flights
      BY <2>1, <3>1 DEF Flights
    <3> QED
      BY <1>4, <2>1, <3>2 DEF Mode
  <2>3. TypeOK'
    BY <1>1, <1>2, <2>1, <2>2 DEF TypeOK
  <2>4. HalvesShow' /\ ArgsAreRecent'
    BY <1>1, <1>2, <2>1 DEF HalvesShow, ArgsAreRecent, Reading
  <2> QED
    BY <1>3, <2>3, <2>4 DEF ArmingInv
<1>8. CASE Heartbeat
  <2>1. /\ beats' = Append(beats, vehicle)
        /\ UNCHANGED <<readable, target, isArmed, last, rpc, commands, vehicle>>
    BY <1>8 DEF Heartbeat, main, mode, receiver
  <2>2. /\ beats' \in Seq(Mode) /\ beats' # <<>>
        /\ beats # <<>> => Head(beats') = Head(beats)
    BY <1>4, <2>1
  <2>3. TypeOK'
    BY <1>1, <1>2, <2>1, <2>2 DEF TypeOK
  <2>4. HalvesShow'
    BY <1>1, <2>1, <2>2 DEF HalvesShow
  <2>5. ArgsAreRecent'
    BY <1>1, <1>2, <2>1 DEF ArgsAreRecent, Reading
  <2> QED
    BY <1>3, <2>3, <2>4, <2>5 DEF ArmingInv
<1>9. CASE WriteBaseMode
  <2>1. /\ beats # <<>> /\ rpc = "recv" /\ rpc' = "custom_mode"
        /\ target' = [target EXCEPT !.armed = Head(beats).armed, !.flags = Head(beats).flight]
        /\ readable' = IF readable = {} THEN {} ELSE readable \cup {Head(beats).flight}
        /\ UNCHANGED <<isArmed, last, commands, beats, vehicle>>
    BY <1>9 DEF WriteBaseMode, link
  <2>2. Head(beats).armed \in BOOLEAN /\ Head(beats).flight \in Flights
    BY <1>5, <2>1 DEF Mode
  <2>3. /\ target' \in [armed : BOOLEAN, flags : Flights \cup {Unset}, custom : Flights \cup {Unset}]
        /\ target'.flags = Head(beats).flight /\ target'.custom = target.custom
        /\ readable' \subseteq Flights \cup {Unset}
    BY <1>4, <2>1, <2>2
  <2>4. TypeOK'
    BY <1>1, <1>2, <2>1, <2>3 DEF TypeOK
  <2>5. HalvesShow'
    BY <1>1, <2>1, <2>3 DEF HalvesShow
  <2>6. CASE Reading
    <3>1. /\ readable' = readable \cup {Head(beats).flight}
          /\ target.custom \in readable
      BY <1>1, <2>1, <2>6 DEF ArgsAreRecent, Halves
    <3>2. \A h \in Halves : target'[h] \in readable'
      BY <2>3, <3>1 DEF Halves
    <3>3. ArgsAreRecent'
      BY <1>1, <1>2, <2>6, <3>1, <3>2 DEF ArgsAreRecent, Reading
    <3> QED
      BY <1>3, <2>4, <2>5, <3>3 DEF ArmingInv
  <2>7. CASE ~Reading
    <3>1. ArgsAreRecent'
      BY <1>1, <1>2, <2>1, <2>7 DEF ArgsAreRecent, Reading
    <3> QED
      BY <1>3, <2>4, <2>5, <3>1 DEF ArmingInv
  <2> QED
    BY <2>6, <2>7
<1>10. CASE WriteCustomMode
  <2>1. /\ rpc = "custom_mode" /\ rpc' = "is_armed"
        /\ target' = [target EXCEPT !.custom = Head(beats).flight]
        /\ last' = Head(beats).flight
        /\ UNCHANGED <<readable, isArmed, commands, beats, vehicle>>
    BY <1>10 DEF WriteCustomMode, main, mode, link
  <2>2. beats # <<>> /\ target.flags = Head(beats).flight
    BY <1>1, <2>1 DEF HalvesShow
  <2>3. Head(beats).flight \in Flights
    BY <1>5, <2>2 DEF Mode
  <2>4. /\ target' \in [armed : BOOLEAN, flags : Flights \cup {Unset}, custom : Flights \cup {Unset}]
        /\ target'.flags = target.flags /\ target'.custom = Head(beats).flight
    BY <1>4, <2>1, <2>3
  <2>5. TypeOK'
    BY <1>1, <1>2, <2>1, <2>3, <2>4 DEF TypeOK
  <2>6. HalvesShow'
    BY <2>1, <2>2, <2>4 DEF HalvesShow
  <2>7. ArgsAreRecent'
    BY <1>1, <1>2, <2>1, <2>2, <2>4 DEF ArgsAreRecent, Reading, Halves
  <2> QED
    BY <1>3, <2>5, <2>6, <2>7 DEF ArmingInv
<1>11. CASE WriteIsArmed
  <2>1. /\ rpc = "is_armed" /\ rpc' = "recv" /\ isArmed' = target.armed
        /\ beats' = Tail(beats)
        /\ UNCHANGED <<readable, target, last, commands, vehicle>>
    BY <1>11 DEF WriteIsArmed, main, mode
  <2>2. beats' \in Seq(Mode) /\ isArmed' \in BOOLEAN
    BY <1>1, <1>4, <2>1 DEF HalvesShow
  <2>3. TypeOK'
    BY <1>1, <1>2, <2>1, <2>2 DEF TypeOK
  <2>4. HalvesShow' /\ ArgsAreRecent'
    BY <1>1, <1>2, <2>1 DEF HalvesShow, ArgsAreRecent, Reading
  <2> QED
    BY <1>3, <2>3, <2>4 DEF ArmingInv
<1> QED
  BY <1>6, <1>7, <1>8, <1>9, <1>10, <1>11

\* Every step keeps the invariant.
LEMMA StepInv == ArmingInv /\ [Next]_vars => ArmingInv'
<1> SUFFICES ASSUME ArmingInv, [Next]_vars
             PROVE  ArmingInv'
  OBVIOUS
<1>1. CASE MoveStick
  <2>1. PICK k \in Sticks : \E value \in Positions[k] \ {device[k]} : Move(k, value)
    BY <1>1 DEF MoveStick
  <2>2. PICK value \in Positions[k] : Move(k, value)
    BY <2>1
  <2>3. value \in Int16 /\ k \in Axes /\ k \notin Buttons
    BY <2>1, <2>2, JoystickAssumption DEF Axes, Sticks, Buttons
  <2> QED
    BY <2>2, <2>3, MoveStep
<1>2. CASE MoveButton
  <2>1. PICK k \in Buttons : Move(k, IF device[k] = Up THEN Down ELSE Up)
    BY <1>2 DEF MoveButton
  <2>2. PICK value \in {Up, Down} : Move(k, value)
    BY <2>1
  <2>3. value \in Int16 /\ k \in Axes
    BY <2>2, ButtonValues DEF Axes
  <2> QED
    BY <2>2, <2>3, MoveStep
<1>3. CASE UNCHANGED vars
  <2>1. UNCHANGED <<device, events, user, asked, jsd, bstates, old, mpc,
                    toggleArmingFlag, fresh, manual, args, readable, target,
                    isArmed, last, rpc, commands, beats, vehicle>>
    BY <1>3 DEF vars, joystick, buttons, main, toggling, mode, receiver, link
  <2>2. TypeOK' /\ Quiet'
    BY <2>1 DEF ArmingInv, TypeOK, Quiet
  <2>3. EventsShow' /\ PressedIsDown'
    BY <2>1 DEF ArmingInv, EventsShow, Newest, PressedIsDown
  <2>4. HalvesShow' /\ ArgsAreRecent'
    BY <2>1 DEF ArmingInv, HalvesShow, ArgsAreRecent, Reading
  <2> QED
    BY <2>2, <2>3, <2>4 DEF ArmingInv
<1> QED
  BY <1>1, <1>2, <1>3, UpdateStep, ActStep, LinkStep DEF Next, User, Main, Receiver

-----------------------------------------------------------------------------
(* The theorems.                                                           *)

\* The joystick's events, the buttons and the modes on their way keep the
\* inductive invariant: joystick.c, main.c, mavlink_utils.c and mavlink_conn.c.
THEOREM ArmingInvariance == Spec => []ArmingInv
<1>1. Init => ArmingInv
  BY InitInv
<1>2. ArmingInv /\ [Next]_vars => ArmingInv'
  BY StepInv
<1> QED
  BY <1>1, <1>2, PTL DEF Spec

\* Every variable keeps its type; MANUAL_CONTROL stays within 16 bits.
THEOREM ArmingTypeCorrect == Spec => []TypeOK
<1>1. ArmingInv => TypeOK
  BY DEF ArmingInv
<1> QED
  BY <1>1, ArmingInvariance, PTL

\* Once all events are read, jsd shows the axes as they are held and no button
\* that is up reads as pressed (js_update, parse_buttons).
THEOREM NoPressSticks == Spec => []NoStuckPress
<1>1. ArmingInv => NoStuckPress
  <2> SUFFICES ASSUME ArmingInv, events = <<>>
               PROVE  /\ jsd = device
                      /\ \A k \in Buttons : device[k] = Up => bstates[k] # "pressed"
    BY DEF NoStuckPress
  <2>1. jsd \in [Axes -> Int16] /\ device \in [Axes -> Int16]
    BY DEF ArmingInv, TypeOK
  <2>2. \A k \in Axes : jsd[k] = device[k]
    BY DEF ArmingInv, EventsShow, Newest
  <2>3. jsd = device
    BY <2>1, <2>2
  <2>4. \A k \in Buttons : device[k] = Up => bstates[k] # "pressed"
    BY <2>3 DEF ArmingInv, PressedIsDown, Up
  <2> QED
    BY <2>3, <2>4
<1> QED
  BY <1>1, ArmingInvariance, PTL

\* One step sends commands.
LEMMA WhoCommands ==
  ASSUME ArmingInv, Next, Len(commands') > Len(commands)
  PROVE  SetTargetMode
<1>1. commands \in Seq(BOOLEAN) /\ Len(commands) \in Nat
  BY DEF ArmingInv, TypeOK
<1>2. commands' # commands
  BY <1>1
<1>3. ~VehicleObeys
  BY <1>1 DEF VehicleObeys
<1>4. ~MoveStick /\ ~MoveButton
  BY <1>2 DEF MoveStick, MoveButton, Move, link
<1>5. /\ ~Update /\ ~HandleLeft /\ ~HandleRight /\ ~Check
      /\ ~ReadArgument /\ ~SendManual
  BY <1>2 DEF Update, HandleLeft, HandleRight, Check, ReadArgument, SendManual, link
<1>6. /\ ~ChangeFlight /\ ~Heartbeat
      /\ ~WriteBaseMode /\ ~WriteCustomMode /\ ~WriteIsArmed
  BY <1>2 DEF ChangeFlight, Heartbeat, WriteBaseMode, WriteCustomMode, WriteIsArmed, link
<1> QED
  BY <1>3, <1>4, <1>5, <1>6 DEF Next, User, Main, Receiver

\* Both halves of a mode that is sent stood in the target while its arguments
\* were read, however the receiver's writes fall between the reads
\* (ml_conn_update_target_state, mlu_arm_target, mlu_disarm_target).
THEOREM RecentHalvesSent == Spec => HalvesAreRecent
<1>1. ASSUME ArmingInv, [Next]_vars
      PROVE  [Len(commands') > Len(commands) =>
                /\ args["custom"] \in readable
                /\ args["flags"] \in readable \/ (mpc = "initial" /\ args["flags"] = Fixed)]_vars
  <2>1. CASE Next
    <3> SUFFICES ASSUME Len(commands') > Len(commands)
                 PROVE  /\ args["custom"] \in readable
                        /\ args["flags"] \in readable \/ (mpc = "initial" /\ args["flags"] = Fixed)
      OBVIOUS
    <3>1. SetTargetMode
      BY <1>1, <2>1, WhoCommands
    <3>2. Reading /\ args["custom"] # Unread /\ args["flags"] # Unread
      BY <3>1 DEF SetTargetMode, Reading, Halves
    <3> QED
      BY <1>1, <3>2 DEF ArmingInv, ArgsAreRecent
  <2> QED
    BY <1>1, <2>1
<1> QED
  BY <1>1, ArmingInvariance, PTL DEF Spec, HalvesAreRecent

\* Apart from the first event of all, buttons that nobody has pressed send no
\* command (parse_buttons, read_and_handle_js_data).
THEOREM OnlyPressesSend == Spec => OnlyPressesCommand
<1>1. ASSUME ArmingInv, [Next]_vars
      PROVE  [Len(commands') > Len(commands)
                 => asked \/ Len(events) - user >= Len(StartupEvents) - 1]_vars
  <2>1. Len(StartupEvents) = 6
    BY DEF StartupEvents
  <2>2. CASE Next
    <3> SUFFICES ASSUME Len(commands') > Len(commands), ~asked
                 PROVE  Len(events) - user >= 5
      BY <2>1
    <3>1. mpc \in {"initial", "arm", "disarm"}
      BY <1>1, <2>2, WhoCommands DEF SetTargetMode
    <3> QED
      BY <1>1, <3>1 DEF ArmingInv, Quiet
  <2> QED
    BY <1>1, <2>2
<1> QED
  BY <1>1, ArmingInvariance, PTL DEF Spec, OnlyPressesCommand

-----------------------------------------------------------------------------
(* What is sent of the sticks.                                             *)

\* Nobody's hand moves a stick farther than the dead zone around its trim.
RestsInDeadZone ==
    \A k \in Sticks : /\ calib[k].trim - calib[k].dz <= Rest[k]
                      /\ Rest[k] <= calib[k].trim + calib[k].dz

\* Inside the dead zone a channel is 0, wherever its trim is.
LEMMA DeadZone ==
  ASSUME NEW chn, NEW raw \in Int, chn.scale \in Nat, chn.dz \in Nat,
         chn.min \in Int, chn.max \in Int, chn.trim \in Int,
         chn.min <= raw, raw <= chn.max,
         chn.trim - chn.dz <= raw, raw <= chn.trim + chn.dz
  PROVE  js_chn_convert(chn, raw) = 0
<1>1. Within(chn.min, raw, chn.max) = raw
  BY DEF Within
<1>2. ~(raw - chn.trim - chn.dz > 0) /\ ~(raw - chn.trim + chn.dz < 0)
  OBVIOUS
<1>3. js_chn_convert(chn, raw) = Within(-chn.scale, 0, chn.scale)
  BY <1>1, <1>2, Zenon DEF js_chn_convert
<1>4. Within(-chn.scale, 0, chn.scale) = 0
  BY DEF Within
<1> QED
  BY <1>3, <1>4

\* The channels of the code in numbers.
LEMMA Calibration ==
  /\ \A k \in Sticks : /\ calib[k].scale \in Nat /\ calib[k].dz \in Nat
                       /\ calib[k].trim \in Int
                       /\ calib[k].min = SHRT_MIN /\ calib[k].max = SHRT_MAX
  /\ calib["throttle"].scale = 1000 /\ calib["throttle"].rev
  /\ calib["throttle"].dz = 1300 /\ calib["throttle"].trim = SHRT_MAX
<1>1. ASSUME NEW k \in Sticks
      PROVE  /\ calib[k].scale \in Nat /\ calib[k].dz \in Nat /\ calib[k].trim \in Int
             /\ calib[k].min = SHRT_MIN /\ calib[k].max = SHRT_MAX
  <2>1. CASE k = "throttle"
    BY <2>1, Limits DEF calib
  <2>2. CASE k = "yaw"
    BY <2>2, Limits DEF calib
  <2>3. CASE k # "throttle" /\ k # "yaw"
    BY <2>3, Limits DEF calib
  <2> QED
    BY <2>1, <2>2, <2>3
<1>2. "throttle" \in Sticks
  BY DEF Sticks
<1>3. calib["throttle"].scale = 1000 /\ calib["throttle"].rev
  <2>1. calib["throttle"].scale = 1000
    BY <1>2 DEF calib
  <2>2. calib["throttle"].rev = ("throttle" = "throttle")
    BY <1>2, Zenon DEF calib
  <2> QED
    BY <2>1, <2>2
<1>4. calib["throttle"].dz = 1300 /\ calib["throttle"].trim = SHRT_MAX
  BY <1>2 DEF calib
<1> QED
  BY <1>1, <1>3, <1>4

\* The throttle at the end that is not its trim is full throttle: the channel
\* is reversed, and all the way from the dead zone counts.
LEMMA FullThrottle == js_chn_convert(calib["throttle"], SHRT_MIN) = 1000
<1> DEFINE chn == calib["throttle"]
<1>1. /\ chn.scale = 1000 /\ chn.rev /\ chn.dz = 1300 /\ chn.trim = 32767
      /\ chn.min = -32768 /\ chn.max = 32767
  BY Calibration DEF SHRT_MIN, SHRT_MAX, Sticks
<1> HIDE DEF chn
<1>2. Within(chn.min, -32768, chn.max) = -32768
  BY <1>1 DEF Within
<1>3. /\ ~(-32768 - chn.trim - chn.dz > 0)
      /\ -32768 - chn.trim + chn.dz = -64235
      /\ chn.trim - chn.min - chn.dz = 64235
      /\ (-1) * (-64235) * chn.scale = 64235000
  BY <1>1
<1>4. Quotient(64235000, 64235) = 1000
  BY DEF Quotient
<1>5. -64235 < 0
  OBVIOUS
<1>6. js_chn_convert(chn, -32768) = Within(-chn.scale, 1000, chn.scale)
  BY <1>1, <1>2, <1>3, <1>4, <1>5 DEF js_chn_convert
<1>7. Within(-chn.scale, 1000, chn.scale) = 1000
  BY <1>1 DEF Within
<1> QED
  BY <1>6, <1>7 DEF chn, SHRT_MIN

\* What create_manual_control makes of sticks at rest and of full throttle.
LEMMA RestIsNothing ==
  ASSUME NEW raw, \A k \in Sticks : raw[k] = Rest[k], RestsInDeadZone
  PROVE  create_manual_control(raw) = Nothing
<1>1. ASSUME NEW k \in Sticks
      PROVE  js_chn_convert(calib[k], raw[k]) = 0
  <2>1. raw[k] = Rest[k] /\ Rest[k] \in Int16
    BY JoystickAssumption
  <2>2. raw[k] \in Int /\ SHRT_MIN <= raw[k] /\ raw[k] <= SHRT_MAX
    BY <2>1, ShortIsInt
  <2>3. /\ calib[k].trim - calib[k].dz <= raw[k]
        /\ raw[k] <= calib[k].trim + calib[k].dz
    BY <2>1 DEF RestsInDeadZone
  <2>4. /\ calib[k].scale \in Nat /\ calib[k].dz \in Nat /\ calib[k].trim \in Int
        /\ calib[k].min = SHRT_MIN /\ calib[k].max = SHRT_MAX
    BY Calibration
  <2> QED
    BY <2>2, <2>3, <2>4, Limits, DeadZone
<1>2. {"roll", "pitch", "yaw", "throttle"} = Sticks
  BY DEF Sticks
<1>3. /\ js_chn_convert(calib["roll"], raw["roll"]) = 0
      /\ js_chn_convert(calib["pitch"], raw["pitch"]) = 0
      /\ js_chn_convert(calib["yaw"], raw["yaw"]) = 0
      /\ js_chn_convert(calib["throttle"], raw["throttle"]) = 0
  BY <1>1, <1>2
<1> QED
  BY <1>3, Zenon DEF create_manual_control, Nothing

\* Full throttle arrives as 1000.
LEMMA FullThrottleSent ==
  ASSUME NEW raw, raw["throttle"] = SHRT_MIN
  PROVE  create_manual_control(raw).r = 1000
<1>1. js_chn_convert(calib["throttle"], raw["throttle"]) = 1000
  BY FullThrottle
<1>2. \A v : v = 1000 => (IF v < 0 THEN 0 ELSE v) = 1000
  OBVIOUS
<1> QED
  BY <1>1, <1>2 DEF create_manual_control

\* When every event has been read, MANUAL_CONTROL shows the sticks as they are
\* held: nothing at rest, full throttle at its far end.  What the joystick
\* reports at rest lies in the dead zones of js_std_calib (js_chn_convert,
\* create_mavlink_msg_manual_control).
THEOREM ControlShowsSticks ==
  ASSUME RestsInDeadZone
  PROVE  Spec => ControlFollows
<1>1. ASSUME ArmingInv, [Next]_vars
      PROVE  [mpc = "manual" /\ mpc' = "read" /\ events = <<>> =>
                /\ (\A k \in Sticks : device[k] = Rest[k]) => manual' = Nothing
                /\ device["throttle"] = SHRT_MIN => manual'.r = 1000]_vars
  <2> SUFFICES ASSUME Next, mpc = "manual", mpc' = "read", events = <<>>
               PROVE  /\ (\A k \in Sticks : device[k] = Rest[k]) => manual' = Nothing
                      /\ device["throttle"] = SHRT_MIN => manual'.r = 1000
    BY <1>1
  <2>1. /\ ~User /\ ~VehicleObeys /\ ~ChangeFlight /\ ~Heartbeat /\ ~Receiver
    BY DEF User, MoveStick, MoveButton, Move, VehicleObeys, ChangeFlight, Heartbeat,
           Receiver, WriteBaseMode, WriteCustomMode, WriteIsArmed, main
  <2>2. /\ ~Update /\ ~HandleLeft /\ ~HandleRight /\ ~Check
        /\ ~ReadArgument /\ ~SetTargetMode
    BY DEF Update, HandleLeft, HandleRight, Check, ReadArgument, SetTargetMode
  <2>3. manual' = create_manual_control(jsd)
    BY <2>1, <2>2 DEF Next, Main, SendManual
  <2>4. \A k \in Axes : jsd[k] = device[k]
    BY <1>1 DEF ArmingInv, EventsShow, Newest
  <2>5. \A k \in Sticks : jsd[k] = device[k]
    BY <2>4 DEF Axes
  <2>6. ASSUME \A k \in Sticks : device[k] = Rest[k]
        PROVE  manual' = Nothing
    <3>1. \A k \in Sticks : jsd[k] = Rest[k]
      BY <2>5, <2>6
    <3> QED
      BY <2>3, <3>1, RestIsNothing
  <2>7. ASSUME device["throttle"] = SHRT_MIN
        PROVE  manual'.r = 1000
    <3>1. jsd["throttle"] = SHRT_MIN
      BY <2>5, <2>7 DEF Sticks
    <3> QED
      BY <2>3, <3>1, FullThrottleSent
  <2> QED
    BY <2>6, <2>7
<1> QED
  BY <1>1, ArmingInvariance, PTL DEF Spec, ControlFollows
=============================================================================
