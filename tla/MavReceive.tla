------------------------------- MODULE MavReceive -------------------------------
(***************************************************************************)
(* What becomes of the bytes of a MAVLink connection: the receiver thread  *)
(* (ml_conn_parse_packet) gives them to the parser of MavParser and every  *)
(* message to the handlers of its HandlerList, which forward it to         *)
(* QGroundControl and log it (main.c), and keeps the state of the target.  *)
(* Before the receiver is started main() fills the list.                   *)
(*                                                                         *)
(* The vehicle sends whole frames.  Bytes can be lost (a datagram longer   *)
(* than the buffer is cut, a serial line behind the TCP server drops some) *)
(* and others can come in between.                                         *)
(***************************************************************************)
EXTENDS HandlerList, MavParser

CONSTANTS Bodies,     \* what the vehicle sends: frames without STX and checksum
          HEARTBEAT,  \* MAVLINK_MSG_ID_HEARTBEAT
          STATUSTEXT, \* MAVLINK_MSG_ID_STATUSTEXT
          LoggedIds,  \* messages ml_logger has a file for
          HbLen,      \* bytes of mavlink_heartbeat_t: custom, then base mode
          MaxFaults   \* bound: bytes lost at once, or put in, in a behaviour

\* main() registers two handlers in a list of 32.  What the vehicle sends has
\* its length in front.
ASSUME ReceiveAssumption ==
    /\ {"forward", "log"} \subseteq Funcs /\ Slots >= 2
    /\ Bodies \subseteq Seq(Byte)
    /\ \A body \in Bodies : Len(body) >= 5 /\ Len(body) = 5 + body[1]
    /\ {HEARTBEAT, STATUSTEXT} \subseteq LoggedIds /\ LoggedIds \subseteq Byte
    /\ HbLen \in 1..MaxByte
    /\ MaxFaults \in Nat

VARIABLES
    rpc,       \* the receiver: "unborn", reading, or busy with a message
    files,     \* the streams of ml_logger, NULL after a failed fopen
    forwarded, \* what was sent to QGroundControl of the present message
    logged,    \* what was logged of it, and whether its text is whole
    target,    \* the bytes of the heartbeat the target state was made of
    proc,      \* "up" or "crashed"
    cur,       \* the frame the vehicle is sending
    tx,        \* the bytes of it that are still to come
    faults,    \* bytes lost or put in so far
    settled,   \* history: this frame began when the line had been quiet
    quiet,     \* history: good bytes since the last fault, up to Settle
    beat       \* history: the last heartbeat as it arrived

outputs == <<files, forwarded, logged, target, proc, beat>>
line    == <<cur, tx, faults, settled, quiet>>
receiveVars == <<vars, parserVars, rpc, outputs, line>>

\* The longest frame that can be mistaken for one, without its start byte.
Settle == MaxByte + 7

\* The checksum of bytes, one after the other.
crc_calculate(bytes) ==
    LET sum[n \in 0..Len(bytes)] ==
           IF n = 0 THEN crc_init ELSE crc_accumulate[sum[n - 1]][bytes[n]]
    IN  sum[Len(bytes)]

\* That of a frame: the extra byte of its message comes last.
Checksum(body) == crc_accumulate[crc_calculate(body)][crc_extra[body[5]]]

\* mavlink_finalize_message_chan
Frame(body) == <<STX>> \o body \o <<low[Checksum(body)], high[Checksum(body)]>>

\* Nothing has been done yet of the present message.
NothingDone == /\ forwarded = <<>>
               /\ logged = [msg |-> <<>>, text |-> "whole"]

NextMessage == /\ forwarded' = <<>>
               /\ logged' = [msg |-> <<>>, text |-> "whole"]

ReceiveInit ==
    /\ Init
    /\ ParserInit
    /\ rpc = "unborn"
    /\ files \in [LoggedIds -> {"open", "null"}]
    /\ NothingDone
    /\ target = [k \in 0..(HbLen - 1) |-> 0]
    /\ proc = "up"
    /\ cur = <<>>
    /\ tx = <<>>
    /\ faults = 0
    /\ settled = TRUE
    /\ quiet = Settle
    /\ beat = <<>>

-----------------------------------------------------------------------------
(* Before ml_conn_start_receiver.                                          *)

\* What the library lets its users do with a list.
UseList ==
    /\ rpc = "unborn"
    /\ Next
    /\ UNCHANGED <<parserVars, rpc, outputs, line>>

\* The list main() has made: forward first, then log.
StartReceiver ==
    /\ rpc = "unborn"
    /\ at = 0
    /\ handler = [i \in Index |-> IF i = 1 THEN "forward" ELSE IF i = 2 THEN "log" ELSE NULL]
    /\ rpc' = "recv"
    /\ UNCHANGED <<vars, parserVars, outputs, line>>

-----------------------------------------------------------------------------
(* The line.                                                               *)

\* The vehicle begins a frame.
SendFrame ==
    /\ rpc = "recv"
    /\ tx = <<>>
    /\ \E body \in Bodies : cur' = Frame(body)
    /\ tx' = cur'
    /\ settled' = (settled \/ quiet = Settle)
    /\ UNCHANGED <<vars, parserVars, rpc, outputs, faults, quiet>>

Fault == /\ faults < MaxFaults
         /\ faults' = faults + 1
         /\ settled' = FALSE
         /\ quiet' = 0

\* Bytes of the frame are lost.
LoseBytes ==
    /\ rpc = "recv"
    /\ \E n \in 1..Len(tx) : tx' = SubSeq(tx, n + 1, Len(tx))
    /\ Fault
    /\ UNCHANGED <<vars, parserVars, rpc, outputs, cur>>

-----------------------------------------------------------------------------
(* The receiver thread.                                                    *)

\* A start byte among the bytes of a frame can be mistaken for one of the line.
CountQuiet == quiet' = IF \E k \in 2..Len(cur) : cur[k] = STX THEN 0
                       ELSE IF quiet = Settle THEN Settle ELSE quiet + 1

\* Fault: the parser goes on while the handlers are at work.
ReceiveByte_racing ==
    /\ rpc # "unborn"
    /\ tx # <<>>
    /\ \E c \in Byte : c = Head(tx) /\ parse_char(c)
    /\ tx' = Tail(tx)
    /\ CountQuiet
    /\ rpc' = IF msg_received' THEN "invoke" ELSE rpc
    /\ UNCHANGED <<vars, outputs, cur, faults, settled>>

\* The next byte of the frame.
ReceiveByte ==
    /\ rpc = "recv"
    /\ tx # <<>>
    /\ \E c \in Byte : c = Head(tx) /\ parse_char(c)
    /\ tx' = Tail(tx)
    /\ CountQuiet
    /\ rpc' = IF msg_received' THEN "invoke" ELSE "recv"
    /\ UNCHANGED <<vars, outputs, cur, faults, settled>>

\* A byte the vehicle has not sent.
ReceiveNoise ==
    /\ rpc = "recv"
    /\ \E c \in Byte : parse_char(c)
    /\ Fault
    /\ rpc' = IF msg_received' THEN "invoke" ELSE "recv"
    /\ UNCHANGED <<vars, outputs, cur, tx>>

InvokeHandlers ==
    /\ rpc = "invoke"
    /\ StartInvoke
    /\ rpc' = IF at' = 0 THEN "update" ELSE "handlers"
    /\ UNCHANGED <<parserVars, outputs, line>>

\* mlc_mav_msg_handler
Forward == /\ forwarded' = send_buffer
           /\ UNCHANGED <<files, logged, target, proc, beat>>

\* mlc_mav_log_msg_handler: the writer for the message, if there is one,
\* writes to its stream.  A NULL stream crashes.  The writer of STATUSTEXT
\* ends its text one byte behind the array, so that the text may be followed
\* by anything, or the stack is damaged.
Log ==
    LET id == header["msgid"]
    IN  /\ IF id \notin LoggedIds THEN UNCHANGED <<logged, proc>>
           ELSE \/ /\ files[id] = "open"
                   /\ \E t \in IF id = STATUSTEXT THEN {"whole", "garbled"} ELSE {"whole"} :
                         logged' = [msg |-> send_buffer, text |-> t]
                   /\ UNCHANGED proc
                \/ /\ files[id] = "null" \/ id = STATUSTEXT
                   /\ proc' = "crashed"
                   /\ UNCHANGED logged
        /\ UNCHANGED <<files, forwarded, target, beat>>

\* utils_invoke_handlers, slot by slot.
CallHandler ==
    /\ rpc = "handlers"
    /\ proc = "up"
    /\ InvokeSlot
    /\ \/ handler[at] = "forward" /\ Forward
       \/ handler[at] = "log" /\ Log
       \/ handler[at] \notin {"forward", "log"} /\ UNCHANGED outputs
    /\ rpc' = IF at' = 0 THEN "update" ELSE "handlers"
    /\ UNCHANGED <<parserVars, line>>

\* Fault: the message is not looked at.
UpdateTargetState_any ==
    /\ rpc = "update"
    /\ proc = "up"
    /\ rpc' = "recv"
    /\ NextMessage
    /\ target' = [k \in 0..(HbLen - 1) |-> payload[k]]
    /\ beat' = IF header["msgid"] = HEARTBEAT THEN raw ELSE beat
    /\ UNCHANGED <<vars, parserVars, files, proc, line>>

\* ml_conn_update_target_state.  The heartbeat is decoded at its full length
\* whatever the length of the frame was.
UpdateTargetState ==
    /\ rpc = "update"
    /\ proc = "up"
    /\ rpc' = "recv"
    /\ NextMessage
    /\ IF header["msgid"] = HEARTBEAT
         THEN /\ target' = [k \in 0..(HbLen - 1) |-> payload[k]]
              /\ beat' = raw
         ELSE UNCHANGED <<target, beat>>
    /\ UNCHANGED <<vars, parserVars, files, proc, line>>

Crashed == proc = "crashed" /\ UNCHANGED receiveVars

-----------------------------------------------------------------------------

ReceiveNext == \/ UseList \/ StartReceiver
               \/ SendFrame \/ LoseBytes
               \/ ReceiveByte \/ ReceiveNoise
               \/ InvokeHandlers \/ CallHandler \/ UpdateTargetState
               \/ Crashed

ReceiveSpec == ReceiveInit /\ [][ReceiveNext]_receiveVars

-----------------------------------------------------------------------------
(* Properties.                                                             *)

\* A frame that begins on a settled line is received in step, byte by byte,
\* and is handed out when its last byte has arrived, not before: no frame is
\* lost on a clean line, and after a fault the line settles as soon as the
\* longest frame that could have begun by mistake has passed.
InStep ==
    settled /\ Len(tx) < Len(cur) =>
       /\ raw = SubSeq(cur, 1, Len(cur) - Len(tx))
       /\ msg_received <=> tx = <<>>

\* Whatever arrives, a message that is handed out has a checksum that holds.
ChecksumHolds ==
    msg_received => raw = Frame(SubSeq(raw, 2, Len(raw) - 2))

\* When every handler has been called, what went to QGroundControl and what
\* was logged are the message as it arrived, the same for both, although
\* they read it out of a buffer that is used again for the next message.
HandlersActOnMessage ==
    rpc = "update" =>
       /\ forwarded = raw
       /\ raw[6] \in LoggedIds /\ proc = "up" => logged.msg = raw

\* The target state is that of the last heartbeat, provided that heartbeat
\* was as long as it should be, and of no other message.
TargetIsLastHeartbeat ==
    Len(beat) >= HbLen + 8 =>
       \A k \in DOMAIN target : target[k] = beat[7 + k]
=============================================================================
