-------------------------------- MODULE MlConn --------------------------------
(***************************************************************************)
(* One mavlink connection (mavlink_conn.c) as the threads that share it    *)
(* see it: the sending path with its mutex, the stream the frames go to,   *)
(* and the byte counters the 5 s status report is computed from.           *)
(*                                                                         *)
(* For mlc_mav the senders are the main thread (joystick commands) and the *)
(* receiver thread of mlc_qgc (forwarded messages), and the main thread    *)
(* prints the rates; for mlc_qgc the receiver thread of mlc_mav is the     *)
(* only sender and nobody asks for the rates.                              *)
(***************************************************************************)
EXTENDS Integers, Sequences

CONSTANTS Senders,   \* the threads that call ml_conn_send_mavlink_message
          Reporters, \* the threads that call ml_conn_get_rx/tx_byte_rate
          NoOne,     \* the owner of a free mutex
          IsStream,  \* TRUE: mlc->send writes to TCP; FALSE: to UDP
          Modulus,   \* 2^32: the counters are unsigned int
          Lens,      \* the lengths of the frames sent and the reads received
          MaxFrames, \* bound: frames each sender sends
          MaxRead    \* bound: bytes received

ASSUME ConstantsAssumption ==
    /\ NoOne \notin Senders
    /\ \A t, u \in Reporters : t = u
    /\ IsStream \in BOOLEAN
    /\ Modulus \in Nat \ {0}
    /\ Lens \subseteq Nat \ {0}
    /\ MaxFrames \in Nat
    /\ MaxRead \in Nat

Threads == Senders \cup Reporters

VARIABLES
    pc,       \* where each thread is
    mutex,    \* send_mutex: the thread that owns it, or NoOne
    len,      \* the length of the frame each thread is sending
    loaded,   \* the value of tx.bytes.tcount a thread has read for its +=
    tx,       \* status.tx.bytes: tcount and lcount
    rx,       \* status.rx.bytes: tcount and lcount
    b,        \* the reporter's copy of tcount
    wire,     \* what the TCP stream has carried, piece by piece
    frames,   \* frames each sender has begun to send
    handed,   \* bytes the senders have passed to mlc->send
    received, \* bytes mlc->recv has returned
    reported  \* rx bytes the rates have accounted for

counters == <<tx, rx>>
ghosts   == <<handed, received, reported>>
vars     == <<pc, mutex, len, loaded, tx, rx, b, wire, frames, handed, received,
              reported>>

SendPcs   == {"lock", "send", "sending", "unlock", "load", "store"}
ReportPcs == {"rx_read", "rx_store", "tx_read", "tx_store"}

Init == /\ pc = [t \in Threads |-> "idle"]
        /\ mutex = NoOne
        /\ len = [s \in Senders |-> 0]
        /\ loaded = [s \in Senders |-> 0]
        /\ tx = [tcount |-> 0, lcount |-> 0]
        /\ rx = [tcount |-> 0, lcount |-> 0]
        /\ b = 0
        /\ wire = <<>>
        /\ frames = [s \in Senders |-> 0]
        /\ handed = 0
        /\ received = 0
        /\ reported = 0

Goes(t, from, to) == pc[t] = from /\ pc' = [pc EXCEPT ![t] = to]

-----------------------------------------------------------------------------
(* ml_conn_send_mavlink_message and ml_conn_send_raw_data.                 *)

\* The message is serialised into a buffer of the caller's.
BeginSend(s) ==
    /\ Goes(s, "idle", "lock")
    /\ frames[s] < MaxFrames
    /\ frames' = [frames EXCEPT ![s] = @ + 1]
    /\ \E n \in Lens : len' = [len EXCEPT ![s] = n]
    /\ UNCHANGED <<mutex, loaded, counters, b, wire, ghosts>>

\* Fault: the mutex is not taken.
Lock_none(s) ==
    /\ Goes(s, "lock", "send")
    /\ UNCHANGED <<mutex, len, loaded, counters, b, wire, frames, ghosts>>

\* pthread_mutex_lock
Lock(s) ==
    /\ Goes(s, "lock", "send")
    /\ mutex = NoOne
    /\ mutex' = s
    /\ UNCHANGED <<len, loaded, counters, b, wire, frames, ghosts>>

Piece(s, part) == [from |-> s, frame |-> frames[s], part |-> part]

\* mlc->send: the kernel takes the first byte, or nothing at all (EAGAIN).
SendHead(s) ==
    /\ \/ Goes(s, "send", "sending") /\ wire' = Append(wire, Piece(s, "head"))
       \/ Goes(s, "send", "unlock") /\ UNCHANGED wire
    /\ handed' = handed + len[s]
    /\ UNCHANGED <<mutex, len, loaded, counters, b, frames, received, reported>>

\* ... and the others, or only some of them, which tcp_client_write takes for
\* success.  A datagram is sent as a whole.
SendTail(s) ==
    /\ Goes(s, "sending", "unlock")
    /\ \E n \in 0..(len[s] - 1) :
          /\ IsStream \/ n = len[s] - 1
          /\ wire' = Append(wire, Piece(s, IF n = len[s] - 1 THEN "tail" ELSE "cut"))
    /\ UNCHANGED <<mutex, len, loaded, counters, b, frames, handed, received,
                   reported>>

\* Fault: the mutex is given back before the frame is out.
Unlock_early(s) ==
    /\ pc[s] \in {"sending", "unlock"} /\ mutex = s
    /\ pc' = [pc EXCEPT ![s] = IF @ = "unlock" THEN "load" ELSE @]
    /\ mutex' = NoOne
    /\ UNCHANGED <<len, loaded, counters, b, wire, frames, ghosts>>

\* pthread_mutex_unlock
Unlock(s) ==
    /\ Goes(s, "unlock", "load")
    /\ mutex' = NoOne
    /\ UNCHANGED <<len, loaded, counters, b, wire, frames, ghosts>>

\* tx.bytes.tcount += len, after the unlock: a read and a write.
LoadTx(s) ==
    /\ Goes(s, "load", "store")
    /\ loaded' = [loaded EXCEPT ![s] = tx.tcount]
    /\ UNCHANGED <<mutex, len, counters, b, wire, frames, ghosts>>

StoreTx(s) ==
    /\ Goes(s, "store", "idle")
    /\ tx' = [tx EXCEPT !.tcount = (loaded[s] + len[s]) % Modulus]
    /\ UNCHANGED <<mutex, len, loaded, rx, b, wire, frames, ghosts>>

SendStep(s) == \/ BeginSend(s) \/ Lock(s) \/ SendHead(s) \/ SendTail(s)
               \/ Unlock(s) \/ LoadTx(s) \/ StoreTx(s)

-----------------------------------------------------------------------------
(* ml_conn_recv_raw_data: the receiver thread is the only one to write     *)
(* rx.bytes.tcount.  Between two reports it receives less than Modulus.    *)

Receive ==
    \E n \in Lens :
       /\ received + n <= MaxRead
       /\ received + n - reported < Modulus
       /\ rx' = [rx EXCEPT !.tcount = (@ + n) % Modulus]
       /\ received' = received + n
       /\ UNCHANGED <<pc, mutex, len, loaded, tx, b, wire, frames, handed, reported>>

-----------------------------------------------------------------------------
(* ml_conn_get_rx_byte_rate, then ml_conn_get_tx_byte_rate.                *)

ReadRx(t) ==
    /\ Goes(t, "idle", "rx_store")
    /\ t \in Reporters
    /\ b' = rx.tcount
    /\ UNCHANGED <<mutex, len, loaded, counters, wire, frames, ghosts>>

\* Fault: tcount is read a second time for the new lcount.
StoreRx_reread(t) ==
    /\ Goes(t, "rx_store", "tx_read")
    /\ rx' = [rx EXCEPT !.lcount = rx.tcount]
    /\ reported' = reported + ((b - rx.lcount) % Modulus)
    /\ UNCHANGED <<mutex, len, loaded, tx, b, wire, frames, handed, received>>

\* diff = b - lb in unsigned arithmetic, and lcount = b.
StoreRx(t) ==
    /\ Goes(t, "rx_store", "tx_read")
    /\ rx' = [rx EXCEPT !.lcount = b]
    /\ reported' = reported + ((b - rx.lcount) % Modulus)
    /\ UNCHANGED <<mutex, len, loaded, tx, b, wire, frames, handed, received>>

ReadTx(t) ==
    /\ Goes(t, "tx_read", "tx_store")
    /\ b' = tx.tcount
    /\ UNCHANGED <<mutex, len, loaded, counters, wire, frames, ghosts>>

StoreTxReport(t) ==
    /\ Goes(t, "tx_store", "idle")
    /\ tx' = [tx EXCEPT !.lcount = b]
    /\ UNCHANGED <<mutex, len, loaded, rx, b, wire, frames, ghosts>>

Report(t) == ReadRx(t) \/ StoreRx(t) \/ ReadTx(t) \/ StoreTxReport(t)

\* Every sender has sent its frames: the bounded behaviour is over.
Finished ==
    /\ \A t \in Threads : pc[t] = "idle"
    /\ \A s \in Senders : frames[s] = MaxFrames
    /\ UNCHANGED vars

Next == \/ \E s \in Senders : SendStep(s)
        \/ Receive
        \/ \E t \in Threads : Report(t)
        \/ Finished

Spec == Init /\ [][Next]_vars

-----------------------------------------------------------------------------
(* Properties.                                                             *)

Pieces == [from : Senders, frame : Nat, part : {"head", "tail", "cut"}]

Counter == [tcount : 0..(Modulus - 1), lcount : 0..(Modulus - 1)]

\* Every variable has its type.
TypeOK ==
    /\ pc \in [Threads -> {"idle"} \cup SendPcs \cup ReportPcs]
    /\ mutex \in Senders \cup {NoOne}
    /\ len \in [Senders -> Nat]
    /\ loaded \in [Senders -> 0..(Modulus - 1)]
    /\ tx \in Counter
    /\ rx \in Counter
    /\ b \in 0..(Modulus - 1)
    /\ wire \in Seq(Pieces)
    /\ frames \in [Senders -> Nat]
    /\ handed \in Nat
    /\ received \in Nat
    /\ reported \in Nat

\* Frames reach the MAV undivided: whatever the senders do at the same time,
\* the rest of a frame follows its first byte directly.
FramesContiguous ==
    \A i \in DOMAIN wire :
       wire[i].part # "head" =>
          i > 1 /\ wire[i - 1] = [wire[i] EXCEPT !.part = "head"]

\* Only the owner of the mutex is in mlc->send.
OwnerSends ==
    \A s \in Senders : pc[s] \in {"send", "sending", "unlock"} => mutex = s

\* A sender inside a frame finds the stream as it left it.
OpenFrame ==
    \A s \in Senders :
       pc[s] = "sending" => wire # <<>> /\ wire[Len(wire)] = Piece(s, "head")

\* What keeps frames undivided.
WireInv == TypeOK /\ OwnerSends /\ OpenFrame /\ FramesContiguous

\* No received byte is left out of the reports and none is reported twice,
\* although the counter is read and written without a lock and wraps: what
\* was reported and what the next report will see add up to what came in.
ReceivedIsReported ==
    reported + ((rx.tcount - rx.lcount) % Modulus) = received

NoSendUnderWay == \A s \in Senders : pc[s] \in {"idle", "lock"}

\* "tx/rx rate in bytes/s" (mavlink_conn.h), "makes send thread save"
\* (mavlink_conn.c): with no send under way the tx counter has counted every
\* byte that was sent.
TxCountIsExact ==
    NoSendUnderWay => tx.tcount = handed % Modulus
=============================================================================
