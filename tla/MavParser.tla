------------------------------- MODULE MavParser -------------------------------
(***************************************************************************)
(* ml_conn_mavlink_parse_char: the automaton that finds MAVLink frames in  *)
(* the bytes of a connection, one byte per call.  Its state stays in the   *)
(* connection (msg_buf, status_buf), so that a frame may be spread over    *)
(* any number of reads.                                                    *)
(*                                                                         *)
(*    STX len seq sysid compid msgid payload[len] ck_a ck_b                *)
(*                                                                         *)
(* The checksum runs over all but STX and, at last, over a byte that       *)
(* belongs to the message id.  How it is computed is left open: the        *)
(* functions of checksum.h are constants.                                  *)
(***************************************************************************)
EXTENDS Integers, Sequences

CONSTANTS MaxByte,        \* the largest byte, 255 in the code
          STX,            \* MAVLINK_STX
          Checksums,      \* the values of a checksum, 16 bits in the code
          crc_init,       \* what it starts with
          crc_accumulate, \* crc_accumulate[ck][byte]
          crc_extra,      \* mavlink_message_crcs[msgid]
          low, high       \* the two bytes of a checksum

Byte == 0..MaxByte

ASSUME ParserAssumption ==
    /\ MaxByte \in Nat
    /\ STX \in Byte
    /\ {0, crc_init} \subseteq Checksums
    /\ crc_accumulate \in [Checksums -> [Byte -> Checksums]]
    /\ crc_extra \in [Byte -> Byte]
    /\ low \in [Checksums -> Byte]
    /\ high \in [Checksums -> Byte]

\* payload64 of mavlink_message_t: whole words of 8 bytes for the longest
\* payload and two checksum bytes.  The length of a frame is not checked:
\* MAVLINK_MAX_PAYLOAD_LEN is the largest byte.
PayloadSize == ((MaxByte + 2 + 7) \div 8) * 8

VARIABLES
    parse_state,  \* status_buf
    packet_idx,   \* status_buf
    header,       \* msg_buf: len, seq, sysid, compid and msgid
    payload,      \* msg_buf: the payload and, behind it, the checksum bytes
    checksum,     \* msg_buf
    msg_received, \* what the last call has returned
    raw           \* history: the bytes since the STX the automaton believes in

rxmsg      == <<header, payload, checksum>>
parserVars == <<parse_state, packet_idx, rxmsg, msg_received, raw>>

Fields == {"len", "seq", "sysid", "compid", "msgid"}

ParserInit ==
    /\ parse_state = "UNINIT"
    /\ packet_idx = 0
    /\ header = [h \in Fields |-> 0]
    /\ payload = [k \in 0..(PayloadSize - 1) |-> 0]
    /\ checksum = 0
    /\ msg_received = FALSE
    /\ raw = <<>>

-----------------------------------------------------------------------------

\* Fault: the checksum of the last frame is continued.
Start_keepsChecksum ==
    /\ parse_state' = "GOT_STX"
    /\ header' = [header EXCEPT !["len"] = 0]
    /\ raw' = <<STX>>
    /\ msg_received' = FALSE
    /\ UNCHANGED <<packet_idx, payload, checksum>>

\* A start byte: mavlink_start_checksum.
Start ==
    /\ parse_state' = "GOT_STX"
    /\ header' = [header EXCEPT !["len"] = 0]
    /\ checksum' = crc_init
    /\ raw' = <<STX>>
    /\ msg_received' = FALSE
    /\ UNCHANGED <<packet_idx, payload>>

\* UNINIT and IDLE: anything but a start byte is passed over.
SeekStx(c) ==
    /\ parse_state \in {"UNINIT", "IDLE"}
    /\ IF c = STX THEN Start
                  ELSE /\ raw' = <<>>
                       /\ msg_received' = FALSE
                       /\ UNCHANGED <<parse_state, packet_idx, rxmsg>>

\* A byte of the header goes to its field and into the checksum.
TakeHeader(from, field, c, to) ==
    /\ parse_state = from
    /\ parse_state' = to
    /\ header' = [header EXCEPT ![field] = c]
    /\ checksum' = crc_accumulate[checksum][c]
    /\ raw' = Append(raw, c)
    /\ msg_received' = FALSE
    /\ UNCHANGED payload

TakeLen(c) == TakeHeader("GOT_STX", "len", c, "GOT_LENGTH") /\ packet_idx' = 0

TakeIds(c) ==
    /\ \/ TakeHeader("GOT_LENGTH", "seq", c, "GOT_SEQ")
       \/ TakeHeader("GOT_SEQ", "sysid", c, "GOT_SYSID")
       \/ TakeHeader("GOT_SYSID", "compid", c, "GOT_COMPID")
       \/ TakeHeader("GOT_COMPID", "msgid", c,
                     IF header["len"] = 0 THEN "GOT_PAYLOAD" ELSE "GOT_MSGID")
    /\ UNCHANGED packet_idx

\* Fault: the end of the payload is noticed one byte too late.
TakePayload_late(c) ==
    /\ parse_state = "GOT_MSGID"
    /\ payload' = [payload EXCEPT ![packet_idx] = c]
    /\ checksum' = crc_accumulate[checksum][c]
    /\ packet_idx' = packet_idx + 1
    /\ parse_state' = IF packet_idx > header["len"] THEN "GOT_PAYLOAD"
                                                         ELSE "GOT_MSGID"
    /\ raw' = Append(raw, c)
    /\ msg_received' = FALSE
    /\ UNCHANGED header

TakePayload(c) ==
    /\ parse_state = "GOT_MSGID"
    /\ payload' = [payload EXCEPT ![packet_idx] = c]
    /\ checksum' = crc_accumulate[checksum][c]
    /\ packet_idx' = packet_idx + 1
    /\ parse_state' = IF packet_idx' = header["len"] THEN "GOT_PAYLOAD"
                                                          ELSE "GOT_MSGID"
    /\ raw' = Append(raw, c)
    /\ msg_received' = FALSE
    /\ UNCHANGED header

\* Fault: the frame is not given up, the next byte may still do.
Reject_waits(c, sum) ==
    IF c = STX THEN Start
    ELSE /\ checksum' = sum
         /\ msg_received' = FALSE
         /\ UNCHANGED <<parse_state, packet_idx, header, payload, raw>>

\* A checksum byte is wrong.  It may be the start of the next frame.
Reject(c, sum) ==
    IF c = STX THEN Start
    ELSE /\ parse_state' = "IDLE"
         /\ checksum' = sum
         /\ raw' = <<>>
         /\ msg_received' = FALSE
         /\ UNCHANGED <<packet_idx, header, payload>>

\* The checksum bytes are kept behind the payload.
TakeCk1(c) ==
    /\ parse_state = "GOT_PAYLOAD"
    /\ LET sum == crc_accumulate[checksum][crc_extra[header["msgid"]]]
       IN  IF c # low[sum]
             THEN Reject(c, sum)
             ELSE /\ parse_state' = "GOT_CRC1"
                  /\ payload' = [payload EXCEPT ![packet_idx] = c]
                  /\ checksum' = sum
                  /\ raw' = Append(raw, c)
                  /\ msg_received' = FALSE
                  /\ UNCHANGED <<packet_idx, header>>

\* Fault: the second checksum byte is stored over the first.
TakeCk2_overwrites(c) ==
    /\ parse_state = "GOT_CRC1"
    /\ IF c # high[checksum]
         THEN Reject(c, checksum)
         ELSE /\ parse_state' = "IDLE"
              /\ payload' = [payload EXCEPT ![packet_idx] = c]
              /\ raw' = Append(raw, c)
              /\ msg_received' = TRUE
              /\ UNCHANGED <<packet_idx, header, checksum>>

TakeCk2(c) ==
    /\ parse_state = "GOT_CRC1"
    /\ IF c # high[checksum]
         THEN Reject(c, checksum)
         ELSE /\ parse_state' = "IDLE"
              /\ payload' = [payload EXCEPT ![packet_idx + 1] = c]
              /\ raw' = Append(raw, c)
              /\ msg_received' = TRUE
              /\ UNCHANGED <<packet_idx, header, checksum>>

parse_char(c) == \/ SeekStx(c)
                 \/ TakeLen(c) \/ TakeIds(c) \/ TakePayload(c)
                 \/ TakeCk1(c) \/ TakeCk2(c)

ParserNext == \E c \in Byte : parse_char(c)

ParserSpec == ParserInit /\ [][ParserNext]_parserVars

-----------------------------------------------------------------------------

\* mavlink_msg_to_send_buffer: the message as it is forwarded.
send_buffer ==
    <<STX, header["len"], header["seq"], header["sysid"],
      header["compid"], header["msgid"]>>
    \o [k \in 1..(header["len"] + 2) |-> payload[k - 1]]

-----------------------------------------------------------------------------
(* Properties, for any bytes that arrive.                                  *)

\* Every variable has its type.
ParserTypeOK ==
    /\ parse_state \in {"UNINIT", "IDLE", "GOT_STX", "GOT_LENGTH", "GOT_SEQ",
                        "GOT_SYSID", "GOT_COMPID", "GOT_MSGID", "GOT_PAYLOAD",
                        "GOT_CRC1"}
    /\ packet_idx \in Byte
    /\ header \in [Fields -> Byte]
    /\ payload \in [0..(PayloadSize - 1) -> Byte]
    /\ checksum \in Checksums
    /\ msg_received \in BOOLEAN
    /\ raw \in Seq(Byte)

\* A length is any byte and is not checked: the payload and the two checksum
\* bytes behind it still stay inside the buffer.
InsideBuffer ==
    /\ parse_state = "GOT_MSGID" => packet_idx < header["len"]
    /\ parse_state \in {"GOT_PAYLOAD", "GOT_CRC1"} =>
          packet_idx = header["len"]
    /\ parse_state \in {"GOT_MSGID", "GOT_PAYLOAD", "GOT_CRC1"} =>
          packet_idx + 1 < PayloadSize

\* A message that is handed out is, byte for byte, what arrived since its
\* start byte: this is what is forwarded.
ForwardedAsReceived == msg_received => send_buffer = raw
=============================================================================
