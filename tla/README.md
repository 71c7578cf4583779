# tflog: a formal model

`tflog` (src/tflog and src/tflog-libs) is a C program on a flight laptop. It
connects a PX4 vehicle (mavlink over TCP), QGroundControl (mavlink over UDP) and
a tracking system (NaturalPoint packets over UDP multicast), lets a joystick arm
and steer the vehicle, writes everything it receives to log files, and copies
the files of the session to the directory `log` when it ends.

The TLA+ modules here model that program. TLC checks them on small instances
and TLAPS proves the most important results for every value of the constants.
Every definition that models code is mapped to its lines in `PROJECT.json`.

## 1. Inventory

| Component | Code | State | Operations | Module |
|---|---|---|---|---|
| Process life cycle | `tflog/src/main.c`, `uio_manager.c`, receiver threads of `mavlink_conn.c`, `npoint_conn.c` | `running`, `recv_running` of 3 receivers, open descriptors, log streams | start-up, main loop, SIGINT, stop and join, clean-up, `exit` by a receiver | `Tflog`, `LogSession` |
| Mavlink connection, sending | `mavlink_conn.c`, `tcp_client.c`, `udp_server.c` | `send_mutex`, `status.rx/tx.bytes` | send, count what is received, rates | `MlConn` |
| Mavlink connection, receiving | `ml_conn_mavlink_parse_char.h`, `mavlink_conn.c` 228-284, `main.c` | `msg_buf`, `status_buf`, target state | one byte; handlers; heartbeat | `MavParser`, `MavReceive` |
| Handler lists | `utils.c` 437-560 | arrays of function pointers | add, remove, clear, invoke | `HandlerList`, `HandlerSet` |
| Joystick and arming | `joystick.c`, `main.c` 370-460 and 633-662, `mavlink_utils.c` | `jsd`, `bstates`, target state | read events, act every 10 ms, toggle, convert and send the sticks, heartbeat | `JsConvert`, `Arming` |
| Session copy | `utils.c` 150-440 | the two directories | make, clean, copy directory and file | `LogDir` |
| Tracking packets | `npoint_packet.c`, `npoint_conn.c` | pointers into the packet | skip, unpack, invoke handlers | `NpPacket`, `NpConn` |
| Tracking logs | `npoint_logger.c`, `main.c`, `utils.c` | `files_opened`, file list | open per body, write a line | `NpLogger` |
| Mavlink logs | `mavlink_logger.c` | eleven streams | open, write by message id, close | `MavReceive`, `StartUp`; one stream in `Tflog` |
| Descriptors and sockets | `tcp_client.c`, `udp_server.c`, `udp_multicast_recv.c`, `uio_manager.c` 186-210 | numbers in the configuration, the kernel's table | connect, bind, join, open, close by number | `StartUp` |
| Configuration file | `utils.c` 650-760 | a descriptor that stays open | read | that descriptor, in `StartUp` |
| Command line, print-outs, quaternions, generated mavlink headers, Matlab scripts | | none that another part changes | | not modelled |

How they interact. `main()` owns the process: it opens log files, devices and
sockets, starts one receiver thread per connection, polls the flag `running`, the
exit key and the joystick, then stops and joins the receivers one after the other
and calls `uiom_cleanup`. A receiver reads bytes, parses them and calls the handlers
of each message: those of the MAV forward to QGroundControl, log and update the
target state; those of QGroundControl forward to the MAV; those of the tracking
system open and write the files. Threads share `running`, `recv_running`, the
target state, the byte counters and the sockets; the one lock is the sending
mutex of a connection.

What is hard, and what makes each component correct:

- **Shutting down.** Four threads, a signal handler, three kinds of read error, a
  closing peer. Nothing may be closed that is still used, the copy must hold
  every message, and the program must end. (`CleanupAlone`, `NoUseAfterClose`,
  `CompleteCopy`, `StopEndsProgram`, `ShutdownCompletes`)
- **Descriptors.** They are closed by number, also those of connections that failed
  and whose numbers others have got since. (`FilesKeepDescriptors`,
  `ConnectionsAreOwn`, `AllClosed`)
- **One TCP stream, two writers.** Frames must not mix, although writes may be
  short. (`FramesContiguous`) Counters are read and written without a lock and
  wrap. (`ReceivedIsReported`)
- **Finding frames.** Frames are spread over reads, lengths are not checked, bytes
  are lost, start bytes stand inside frames, and one buffer is used for everything.
  (`InsideBuffer`, `ForwardedAsReceived`, `InStep`, `ChecksumHolds`,
  `HandlersActOnMessage`, `TargetIsLastHeartbeat`)
- **Handlers.** Each is called once per message, in order. (`RefinesHandlerSet`)
- **Arming.** Button axes are edges of ordered events, acted on at another rate,
  against a state that lags behind and is written and read field by field.
  (`NoStuckPress`, `LastPressActs`, `OnlyPressesCommand`, `HalvesAreRecent`, `Settles`)
- **Steering.** Dead zones, a trim at one end, a reversed axis. (`ControlFollows`)
- **Copying.** Every call may fail, and one failure is not looked at. (`CleanedUp`,
  `OkMeansCopied`, `TruncatedByFailure`, `PublishesSession`, `Ends`)
- **Packets.** Lists without delimiters, found by skipping. (`HandlersSeeFrame`,
  `OtherListsReadable`)
- **Files per body.** A body is identified by the index of a marker set, and the
  marker set "all", which has no body, may stand before it. (`RightFile`, which fails;
  `FileOfLine`, `NoLineLost`)

`PROJECT.json` lists every hazard with its line.

## 2. Modules

    LogSession  <-implemented by-  Tflog, its last two steps also by LogDir
    HandlerSet  <-implemented by-  HandlerList  <-used by-  MavReceive
    MavParser   <-used by-  MavReceive
    JsConvert   <-used by-  Arming
    NpPacket    <-used by-  NpConn
    NpLogger    <-used by-  StartUp
    MlConn stands alone

`MCx` gives the constants of `x` their values, `xProofs` holds its theorems
(`MavReceiveProofs` also those of `MavParser` and `HandlerList`, `StartUpProofs` those
of `NpLogger`); `Recursion` has the lemmas on induction they share.

### Tflog, LogSession
`mpc` is the place of the main thread, `rpc[c]` of receiver `c`; a step is what a
thread does between two accesses to something another thread sees.
`OpenJoystick`..`StartReceivers` are the start-up of `main()`, `CheckRunning`,
`PollKey` and `HandleJoystick` its loop, `StopReceivers` the three stop functions
with their joins, `CloseFds`..`CopyLogs` are `uiom_cleanup`. `TestRecvRunning`,
`RecvNothing`, `RecvData`, `RecvError` are the loop of a receiver and what its
read may return, `ForwardToQgc`, `ForwardToMav`, `LogMav`, `LogTracker` the
handlers, `CallExit` and `FinishExit` the `usleep` and `exit()` of a receiver
that failed. `Sigint` is the signal handler, `PeerCloses` the MAV.

Undefined behaviour is a choice: a NULL log stream kills the process when it is
written to, two threads in `exit()` end it either way, a SIGINT after the first
may kill it (`sa_flags` is never set), writing to a closed TCP peer may raise
SIGPIPE. `running` and `recv_running` are plain `int`s shared without
synchronisation; each access is taken as atomic.

`LogSession` is what a session promises: records are written, the session closes,
only then is `log` replaced, and by everything that was recorded. `Tflog` with the
mapping `Session` implements it.

### StartUp
The descriptors by number, which `Tflog` names by their use. `fd` is the kernel's
table: a new descriptor gets the lowest free number (`Lowest`, `InOrder`). `sd` are
the numbers the configuration keeps. `Socket` has been made, `NoSocket` is a failed
`socket()`, `DeadSocket` one whose connect, bind or join failed: closed again, with
its number left in `sd`. The order of `main()` is `After`. The composition with
`NpLogger` is by its actions: `Receive` is `ReceivePacket` with the descriptors of
the files it opens (`NpFilesOpened`), `HandleBody` is `WriteRigidBody`. `CloseConns`
and `CloseLogs` are the closing part of `uiom_cleanup`. Number 0 stands for the
three of the terminal. The configuration file, which is never closed, holds its
number to the end.

### MlConn
One connection. `Lock`, `SendHead`, `SendTail`, `Unlock`, `LoadTx`, `StoreTx` are
`ml_conn_send_raw_data`: the stream takes the first byte and then the rest, all
of it or not, so that another writer could come between; the tx counter is
updated after the unlock, as a read and a write. `Receive` adds to the rx counter;
`ReadRx`..`StoreTxReport` are the two rate functions. `wire`, `handed`, `received`
and `reported` are history: they influence no guard except the bounds, among them
that fewer than `Modulus` (2^32) bytes come in between two 5 s reports.

### MavParser, MavReceive
`MavParser` is the automaton of `ml_conn_mavlink_parse_char.h`, an action per state
(`SeekStx`, `TakeLen`, `TakeIds`, `TakePayload`, `TakeCk1`, `TakeCk2`), for any byte.
Its state is the connection's, so that the cut of bytes into reads does not matter:
a read is any number of bytes one after the other. `raw`, the bytes since the start
byte it believes in, is history. The checksum functions are constants. A wrong
checksum byte that is a start byte begins a frame (`Reject`). Lengths are not
checked: the message lengths are compiled out (`MAVLINK_CHECK_MESSAGE_LENGTH`).

`MavReceive` puts the receiver around it: `UseList` is any use of the handler list
before `StartReceiver` finds in it what `main()` registers; `ReceiveByte` feeds the
parser, a finished message goes through the list slot by slot (`CallHandler`, which
is a step of `HandlerList` with the effect of the handler, `Forward` or `Log`), then
`UpdateTargetState`. The handlers read the parser's own buffer. `SendFrame`,
`LoseBytes` and `ReceiveNoise` are the line. `Log` contains a NULL stream and the
text of STATUSTEXT, which the code ends one byte behind its array: both may crash
the process. `settled`, `quiet` and `beat` are history.

### HandlerList, HandlerSet
The list of `utils.c`, the invocation loop one slot at a time. `HandlerSet` is the
ordered set it stands for, with the last handler or all of them taken back. With
`AnyOrder = FALSE` (only the last handler is removed) the list implements it; tflog
clears its lists once and removes nothing.

### JsConvert, Arming
`Arming` is the chain from the joystick to the vehicle and back: the driver's queue
of events, which begins with one per axis; `js_update`, one event per ms (`Update`,
which begins each call and so resets the local flag); the 10 ms part, which is the
left button, the right button (`mlu_toggle_target_arming` and `mlu_arm_target` each
read `is_armed`), and the MANUAL_CONTROL message; SET_MODE messages on their way,
the vehicle, heartbeats on their way; and the receiver, which writes `base_mode`,
`custom_mode` and `is_armed` one by one. A mode is its armed flag, the other flags of
`base_mode` and `custom_mode`. The last two are of the flight mode the vehicle was in,
so that they carry its number (`Flights`), and two numbers in one command are two
heartbeats in one command. `StartReading` is where `mlu_set_target_mode` is called from,
`ReadArgument` reads one of its arguments, in any order, `SetTargetMode` sends. `last`
is the flight mode of the last heartbeat written, `readable` are those that have stood
in the target since the reading began; both are history, as are `asked` and `fresh`.

A command may be torn: `main()` reads `base_mode` of one heartbeat and `custom_mode` of
another. The code does that, and the model contains it. `HalvesAreRecent` says how far
it goes: each half is of the last heartbeat written before the reading began, or of one
written meanwhile, so that a mode is one that was reported whenever no heartbeat comes
in between (but for the flags of the left button, which are fixed), and what the
target held before its first heartbeat is not sent later.

A press is lost when another axis event follows it before the 10 ms are over
(`parse_buttons` is called for every axis event). `LastPressActs` is the other side:
a press that no event follows leads to `mlu_toggle_target_arming`, however often the
1 ms part runs until then and whatever was queued before it.

`JsConvert` is `js_chn_convert` with the calibration of `js_std_calib` in thousandths,
with rational numbers in place of doubles: of all raw values of the four axes, the
doubles come out different, by one and nearer to zero, at six of roll and pitch.
The message has x = roll, y = pitch, z = yaw, r = throttle, as the code fills it; z
reaches 2000.

### LogDir
The end of `uiom_cleanup` in detail, which `Tflog` takes as two steps. `readdir`
returns entries in any order; each `opendir`, `stat`, `readdir`, `unlink`, `mkdir`,
`fopen`, `fread`, `fwrite` may fail, and so may the `fclose` that writes the end of a
copy: its result is ignored (`utils.c` 437), `UTILS_OK` is returned and the loop goes on,
so that any number of copies may lack their end (`LosesEnd`; `cut` is the history of
it). A chunk is what the stream may still hold back. The mapping `Session` reads its
state as that of `LogSession`: until the clearing is over `log` is the previous one, and
the end is complete if no error was reported, nothing passed over and no end lost.

### NpPacket, NpConn
`NpPacket` is the pointer arithmetic of `npoint_packet.c`, on cells: a field, or a
name with its zero. `NpConn` sends it the packets of every frame with up to
`MaxSets` elements in each list and `MaxSkeletons` skeletons, where every cell names
itself, and collects what the handlers read.

### NpLogger
`npc_tracker_mocap_data_log_handler` and `npc_tracker_rigid_body_log_handler`
with the list of files. The list of names holds a name at the index of its marker
set: a gap at "all" and names written behind the end are modelled (`NameList`,
`Overflows`). "all" may stand anywhere among the marker sets, and anywhere else in
the next packet, as the check for it at `npoint_packet.c` 558 allows for. A body behind
it is then taken for the one before it, whether the packet opens the files or only
adds lines: `RightFile`, the claim of the header, fails, and `FileOfLine` says which
file is written. `lines` counts by file and body, `seen` is history.

## 3. Runs

| Run | Bounds | Shows |
|---|---|---|
| `tflog` | 2 messages of the MAV, which may come in one read, 1 of each other connection, any number of SIGINTs | Clean-up runs alone, nothing closed is used, an orderly copy is complete, `LogSession` is implemented, `IInv` holds; a stopped program ends; a shut-down completes unless a receiver fails or the process is killed. |
| `mlconn` | 2 senders, 2 frames each, counter modulo 5, 8 bytes received | Frames stay whole, no received byte is lost by the reports. |
| `mavreceive` | 3 byte values, checksums of 9 values, 5 messages, 4 handlers in 3 slots, 1 fault | No frame of a settled line is missed; nothing is handed out that did not arrive like that; handlers and target state take it from there; `HandlerSet` is implemented. |
| `arming` | 2 user events after the first 6, 1 change of the flight mode, 1 command and 1 heartbeat under way | Which presses command what, the last one acts, both halves of a mode are recent, vehicle and target state settle, the sticks arrive. |
| `startup` | 8 descriptors, 2 mavlink files, 2 bodies, 3 packets, "all" anywhere | Files and connections keep their descriptors, everything is closed, bodies before "all" are logged in their files, line by line. |
| `logdir` | 3 names, 2 chunks | OK means copied, but for ends that `fclose` lost; each truncated copy is one of a failure; all of it is `Clear` and `Publish` of `LogSession`; it ends. |
| `npconn` | 0-2 elements per list, 0-2 markers, 0-1 skeletons | Handlers are told exactly what the frame holds. |

Why these bounds are enough: two messages in one read is the least with a rest to
lose, and three receivers with SIGINTs at any time meet every order of errors, joins
and stops; what the others receive only has to be there or not. Two senders with two
frames follow each other and interleave; the modulus is smaller than what is
received, so that the counter wraps with two reads in flight. Three byte values are
the start byte and one on each side of it, so that payloads, lengths and checksums
contain start bytes; the largest length fills the buffer; the number of frames is
not bounded, so that a fault is followed by as many as it takes to settle; the
traffic has a heartbeat that is too short, a message without a file and one full of
start bytes. In `arming` the first events are six, one per axis, with sticks that
rest at the edge of their dead zones; two more let a press be followed by its
release, by the other button or by the throttle, and the throttle by a press. One
change of the flight mode is what tears a mode: its halves are of two heartbeats,
before and after it. Eight descriptors are fewer than all connections and files
need, so that the table fills up. Three packets let bodies leave, swap and come
back, and "all" change its place. Three names are one file before, one at and one
after the failure; two chunks make a truncated file differ from an empty and from a
whole one. Two elements of different sizes show every wrong skip, as cells name
themselves. In `Tflog`, messages are abstract and every bound only stops the input;
`Ended`, `Crashed` and `Finished` are the stuttering of a program that has ended, so
that any other deadlock is reported.

Five runs are counterexamples to what a comment of the code says:

| Run | The code says | TLC finds |
|---|---|---|
| `tflog_grace` | "give thread some time to join" (`main.c` 476) | `main()` joins in a fixed order and waits for the sleeping receiver itself; the others are not told to stop, and clean-up never runs. |
| `tflog_hard_error` | "stop programm..." (`main.c` 549) | The callback compares with the code of a failed send (-3), the read returns -4: the program goes on. |
| `mlconn_tx_race` | "makes send thread save" (`mavlink_conn.c` 49) | Two senders lose an update of the tx counter, which is outside the mutex. |
| `arming_repeated` | "toggle arming" (`main.c` 418) | The flag that should make one press one toggle is a local variable: a held button toggles every 10 ms. |
| `nplogger_order` | "writes rigid body data to the right logging file" (`npoint_logger.h` 53) | The first packet has "all" last and opens the file of the drone; the second begins with "all", and the wand's line goes to that file. |

Other deviations seen while modelling, which the models contain and no run isolates:
a handler list in which A is removed and B added again holds B twice (tflog removes
nothing); the first joystick event reads as a press of both buttons, because
`parse_buttons` starts from `SHRT_MIN` and `jsd` from 0, and a SET_MODE is sent if
10 ms pass before the second (`OnlyPressesCommand` names that exception); before the
first heartbeat a command carries mode 0, and later ones may be torn
(`HalvesAreRecent` says how far); the end of a copy that `fclose` cannot write is
lost without an error (`OkMeansCopied` excepts it); before the first throttle event
half throttle is sent; a short heartbeat is decoded with bytes that earlier messages
left behind; the number of a MAV that could not be reached becomes the tracking
system's and is closed under the MAV's name; a short write is counted as a whole
frame.

### Fairness
`Tflog`: weak fairness of each thread. Sockets are non-blocking, every loop
sleeps, only a join holds a thread up, and a join that is not enabled is not
required. Nothing is assumed of the user, the signal, or the peer.
`Arming`: weak fairness of `TenMs` (10 ms pass again and again, and the call that
finds them over goes on to its end), of the vehicle obeying, of heartbeats, and of
the receiver handling them. A SET_MODE message may be lost. The user need not do
anything, and the queue of events need not be read by calls that find 10 ms not yet
over: each call reads one. `Settles` is about a user who lets go, and says nothing
of one who holds a button. `LastPressActs` needs `TenMs` alone.
`LogDir`: weak fairness of the one thread.
The other modules state safety only.

## 4. Proofs

Eight modules, all checked to the last step: every safety property and every action
property that a passing run checks, for all values of the constants. Assumed are
only the ASSUMEs of the modules: bounds are natural numbers, the free mutex has no
owner, at most one thread asks for the rates, a checksum step is a function of the
sum so far and a byte, a message body begins with its length, the two handlers of
`main()` fit into their list of 32; no body is called "all", or like a marker set of
loose markers. One theorem says what else it needs: that of the sticks `RestsInDeadZone`.

`Recursion` is what makes sums, walks and flattened lists tractable. The library's
induction theorems take an operator, which the provers cannot instantiate; induction
here is over a *set* of numbers, from the least element that the well-foundedness of
`<` gives (`NumberInduction`). It yields that a function defined by recursion exists
(`RecursionExists`) and is the only one (`RecursionUnique`), which is what has to be
known of a LET function before any of its values can be used.

`TflogProofs` proves for any number of messages and signals that `IInv` is
inductive, and from it `TypeOK`, `CleanupAlone`, `NoUseAfterClose`, `CompleteCopy` and
the refinement of `LogSession`. `CleanupAlone` does not follow from itself: that a
receiver is quiet after its join rests on `Lifecycle` (a receiver lives from its
start to its join, and until it is told to stop `recv_running` says whether it was
started, which is why skipping the join is right). `SocketsOpen` and `CleanupOrder`
give `NoUseAfterClose`; `Handling` and `Accounted` (parsed = recorded + skipped +
left) give `CompleteCopy`, as a quiet receiver has nothing left. Each conjunct has
a lemma with a step per action; `StepSimulation` maps every step to a step of
`LogSession` or a stutter.

`MlConnProofs` proves `WireInv` for any number of senders, frame lengths and counter
width, and thereby `FramesContiguous`: the owner of the mutex alone is in `mlc->send`
(`OwnerSends`), so a sender inside a frame finds the stream as it left it
(`OpenFrame`). For `ReceivedIsReported` the counter and its last reported value differ,
modulo the width, by what was received and not yet reported; between the read of the
counter and the store of the report, the copy taken divides that difference into what
this report says and what the next will (`ReportUnderWay`, `ModSplit`). That fewer bytes
than the width are unreported makes the remainder the number itself.

`MavReceiveProofs` goes from the handler list and the bytes to the receiver.

- *Lists.* Of a list of any length only the last handler, or all of them, are removed:
  `ListInv`, as `Add` stops at the first empty slot, and has then seen every handler
  exactly because there are no gaps. `RefinesHandlerSet` needs that the used slots are
  the first `n` (`Filled`), so that the sequence the mapping filters out of the array
  is its beginning (`UsedAll`, `UsedTail`), and adding, taking back and calling are what
  they are on sequences (`AddStep`, `RemoveStep`, `InvokeStep`).
- *Bytes.* `ParserInv`: in each state `raw` begins with the start byte, each field of the
  header that was read, and then the payload so far (`Prefix`), which gives `InsideBuffer`
  and `ForwardedAsReceived` for any bytes.
- *Checksum.* `crc_calculate` of a sequence with one more byte is one step more
  (`CrcAppend`). `CrcInv` says that the parser's running sum is that of `raw` behind the
  start byte, also after a wrong checksum byte was itself taken for a start
  (`RejectCrc`); a frame is handed out only if both bytes agree, so `ChecksumHolds`.
- *Line.* `InStep` is not inductive: why should a parser that lost step ever be in step
  again? `LineInv` has the reason. As long as the line is not settled, the parser seeks,
  is in step, or has taken more bytes for one frame than have been quiet; as no frame is
  longer than `Settle` bytes (`FrameBound`), `Settle` quiet bytes leave only the first
  two. From then on it is between frames, or along with the frame being sent
  (`Along`), or has just handed it out (`Whole`), for which it needs the right checksum,
  that is `CrcInv`.
- *Receiver.* `ReceiverInv` adds where the receiver is in the list and what was done up
  to there (`Handled`): in the slots behind the first the message is forwarded, behind the
  second also logged, and the buffer is that of the message throughout.
  `ReceiverIsParser` and `ReceiverUsesLists` show that the composition implements both of
  its parts, so that what is proved of a part holds of the whole.

`ArmingProofs`. `NoStuckPress` needs that the newest queued event of an axis shows
how it is held (`EventsShow`) and that a button read as pressed was down
(`PressedIsDown`). `OnlyPressesCommand` rests on `Quiet`: until the user presses,
only the first call of `parse_buttons` compares with something other than what it
sees. `HalvesAreRecent` rests on what the target shows (`HalvesShow`: both halves
are of the last heartbeat, but for the one that is written first of the next) and on
what `main()` has read of it (`ArgsAreRecent`: as long as it reads, everything the
target shows is readable, and a write makes what it writes readable).
`ControlFollows` is about `js_chn_convert`: a raw value inside the dead zone comes
out as 0 wherever trim and limits are (`DeadZone`), and the reversed throttle, whose
trim is its end, reaches 1000 at the other end (`FullThrottle`); with every event
read, `jsd` is what is held (from `NoStuckPress`'s invariant).

`StartUpProofs` begins with the logger. Up to "all" the marker set at the index of a body
has its name, from there on that of the body before it (`Matches`); this is what
`LinesInTheirFile` says of the lines written. That the marker sets of a packet have
different names makes the list of files one of different names (`DistinctFiles`), so
that the first file of a name is the only one, and no other body counts for
`NoLineLost`: a body behind "all" is logged under another's name.

Of the program, the point is that no number is stale while a file may still be opened
(`NumbersKept`): the number of a MAV that could not be reached is the lowest free one
and goes to the tracking system's socket, as no socket for the ground control is made
without a MAV; and if the tracking system's socket fails too, no file is opened any
more. `Accounted` (what is taken has its number kept somewhere) gives `AllClosed`.
`ProgramRunsLogger` maps each step to a step of `NpLogger` or a stutter, and carries
its theorems over.

`LogDirProofs`. `Deleting` and `CopiedSoFar` say what has become of the entries the
loop has passed, `Partial` that a copy under way is a beginning of its source, `CutIsOver`
that a copy which lost its end is not copied again, so that it lost no more than one.
`CleanUpPublishes` maps each step to `Clear`, `Publish` or a stutter of `LogSession`; that
a complete copy is *exactly* what was recorded needs that what the session has no file
for is nobody's copy (`OnlySession`).

`NpConnProofs`. That handlers see the frame is a matter of positions: element `k` of a
list stands behind all the elements before it, each of its own length, and behind all
the lists before its own. A packet is a row of sequences (`Cat`), some of them flattened
lists, of which `Flattened` says where each element ends (`off`), by recursion.
`SkipSets`, `SkipBodies`, `SkipSkeletons`, `SkipLabeled` say that the skipping functions,
by recursion over the packet, arrive at just these ends, if one skip leads from one end
to the next, which the layout of one element gives (`SetLayout`, `BodyLayout`,
`SkeletonLayout`, `LabeledLayout`). Together: `Unpacking` finds each list, `SetRead`,
`BodyRead`, `OthersAndLabeledRead` read each element of it as written, for any frame.
With that, `NpInv` only counts: as many calls were made as the loop has turned.

Only model-checked: the liveness properties `StopEndsProgram`, `ShutdownCompletes`,
`Settles`, `LastPressActs` and `Ends`, as fairness and ENABLED are out of the prover's
reach. The counterexamples of the five `violation` runs are TLC's.

## 5. Plan

Done: life cycle, sending, receiving, handlers, joystick and arming, descriptors,
copying, packets and files. What is left:

1. `StartUp` as the implementation of start-up and clean-up of `Tflog`: a mapping from
   numbers to uses.
2. The receiver of QGroundControl in the same process as that of the MAV: both
   parsers, and the frames they send through `MlConn`.

## 6. Not modelled

- The generated headers of mavlink (about 65,000 of the 70,900 lines of this
  repository): packing and unpacking of the messages of several dialects, which have
  no state, and test suites the program does not build. The share of the
  implementation that the map covers cannot become large for that reason; of the
  hand-written C code it covers more than half.
- Counters of the parser (`parse_error`, `packet_rx_drop_count`, sequence numbers) that
  nothing reads; sequence numbers of sent messages, which the vehicle does not check.
- Parsing of the configuration file and the command line, before a thread exists.
- Print-outs, names of states and types, quaternions and angles: no state.
- The columns of a log line, and which of the fields of a message they show.
- A failing `pthread_create`, whose result `ml_conn_start_receiver` ignores.
- The steps inside the connect with its 3 s `select`; socket options. Their failures
  are outcomes of one step.
- The fields `buttons` and `target` of MANUAL_CONTROL, which the code never sets.
- The Matlab scripts, which run after the flight.
- Time is a choice: 1 ms and 10 ms are "not yet" or "due", the 100 ms of a failing
  receiver are either any length or longer than everything else (`GraceIsLong`).

## 7. Running

    tlc -config MCTflog.cfg MCTflog        # and so for the other runs
    tlapm TflogProofs.tla
