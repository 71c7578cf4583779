-------------------------------- MODULE Tflog --------------------------------
(***************************************************************************)
(* The life of one tflog process: the main thread (main.c), its three      *)
(* receiver threads (ml_conn_recv_thread for the connections "mav" and     *)
(* "qgc", np_conn_recv_thread for "tracker"), the flags they share, the    *)
(* sockets and log files they use and the clean-up at the end.             *)
(*                                                                         *)
(* A step of this module is what a thread does between two accesses to     *)
(* something another thread can see.  The bytes of a message, the sending  *)
(* mutex and the byte counters are in MlConn; here a read returns some     *)
(* number of complete messages.                                            *)
(***************************************************************************)
EXTENDS Integers

CONSTANTS MaxMsgs,    \* bound: messages a connection parses in a behaviour
          MaxChunk,   \* bound: complete messages in the bytes of one read
          GraceIsLong \* TRUE: the 100 ms a failing receiver sleeps before
                      \* exit() outlast everything the others still can do

Conns == {"mav", "qgc", "tracker"}

\* The connections that write a log: "mav" the eleven files of ml_logger,
\* "tracker" one file per rigid body of np_logger.
Streams == {"mav", "tracker"}

ASSUME BoundsAssumption == /\ MaxMsgs \in [Streams -> Nat]
                           /\ MaxChunk \in [Conns -> Nat]
                           /\ GraceIsLong \in BOOLEAN

\* What may turn out not to be available at start-up.
Devices == {"px4remote", "tracker", "joystick"}

VARIABLES
    running,      \* uio_manager.c: the program is to go on
    signalled,    \* a SIGINT has been delivered
    available,    \* config.px4remote_, tracker_ and joystick_available
    recvRunning,  \* recv_running of each connection
    mpc,          \* where the main thread is
    rpc,          \* where each receiver thread is
    left,         \* messages of the last read not yet handled
    peerClosed,   \* the MAV has closed its end of the TCP connection
    hardError,    \* a read of the connection has failed with a hard error
    fds,          \* the devices and sockets that are open
    logFiles,     \* the log files of each stream
    parsed,       \* messages parsed, per stream
    recorded,     \* messages written to the log files, per stream
    skipped,      \* tracker packets that found no log file to go to
    logDir,       \* what the directory "log" holds
    copied,       \* messages found in the copied files, per stream
    proc          \* "up", or how the process ended

flags   == <<running, signalled>>
files   == <<logFiles, parsed, recorded, skipped, logDir, copied>>
threads == <<mpc, rpc, left, recvRunning>>
world   == <<available, peerClosed, hardError, fds>>
vars    == <<flags, files, threads, world, proc>>

-----------------------------------------------------------------------------
(* The codes a failed read returns and the codes the callbacks look for    *)
(* (tcp_client.h, udp_server.h, udp_multicast_recv.h, main.c).             *)

TCP_CLIENT_READ_ERR == -4
UDP_SERVER_SEND_ERR == -3
UDP_SERVER_RECV_ERR == -4
UDP_MR_RECV_ERR     == -4

\* What tcp_client_read, udp_server_recv and udp_mr_recv return when a read
\* fails with anything but EAGAIN.
ReadErrorCode == [mav     |-> TCP_CLIENT_READ_ERR,
                  qgc     |-> UDP_SERVER_RECV_ERR,
                  tracker |-> UDP_MR_RECV_ERR]

\* The code on which mlc_mav_recv_func, mlc_qgc_recv_func and
\* npc_tracker_recv_func stop the program.
StopCode == [mav     |-> TCP_CLIENT_READ_ERR,
             qgc     |-> UDP_SERVER_SEND_ERR,
             tracker |-> UDP_MR_RECV_ERR]

\* The main thread, in program order.
MainPcs == {"open_js", "connect_mav", "bind_qgc", "join_group",
            "start_mav", "start_qgc", "start_tracker",
            "check", "key", "joystick",
            "stop_mav", "join_mav", "stop_qgc", "join_qgc",
            "stop_tracker", "join_tracker",
            "close_fds", "close_mav", "close_tracker", "clear_log",
            "copy_log", "exit"}

\* The part of it that uiom_cleanup and the final exit() make up.
CleanupPcs == {"close_fds", "close_mav", "close_tracker", "clear_log",
               "copy_log", "exit"}

JoinPc == [mav |-> "join_mav", qgc |-> "join_qgc", tracker |-> "join_tracker"]

RecvPcs == {"unborn", "check", "recv", "forward", "log", "grace", "exiting",
            "done"}

\* A receiver that has not been created or has returned.
Quiet(c) == rpc[c] \in {"unborn", "done"}

Init == /\ running = TRUE
        /\ signalled = FALSE
        /\ available = [d \in Devices |-> TRUE]
        /\ recvRunning = [c \in Conns |-> FALSE]
        /\ mpc = "open_js"
        /\ rpc = [c \in Conns |-> "unborn"]
        /\ left = [c \in Conns |-> 0]
        /\ peerClosed = FALSE
        /\ hardError = [c \in Conns |-> FALSE]
        /\ fds = {}
        \* ml_logger_init goes on when an fopen fails: the stream stays NULL
        /\ \E f \in {"open", "null"} :
              logFiles = [mav |-> f, tracker |-> "unopened"]
        /\ parsed = [s \in Streams |-> 0]
        /\ recorded = [s \in Streams |-> 0]
        /\ skipped = 0
        /\ logDir = "previous"
        /\ copied = [s \in Streams |-> 0]
        /\ proc = "up"

-----------------------------------------------------------------------------
(* Starting up: main() from js_open to the last start_receiver.            *)

MainAt(from) == proc = "up" /\ mpc = from

\* A device or socket of the start-up is opened, or it is not available.
Open(from, fd, flag, to) ==
    /\ MainAt(from)
    /\ mpc' = to
    /\ \/ /\ fds' = fds \cup {fd}
          /\ UNCHANGED available
       \/ /\ available' = [available EXCEPT ![flag] = FALSE]
          /\ UNCHANGED fds
    /\ UNCHANGED <<flags, files, rpc, left, recvRunning, peerClosed, hardError,
                   proc>>

OpenJoystick == Open("open_js", "js", "joystick", "connect_mav")
ConnectMav   == Open("connect_mav", "mav", "px4remote", "bind_qgc")
JoinGroup    == Open("join_group", "tracker", "tracker", "start_mav")

\* The UDP server for QGroundControl: only next to a MAV, and a failure to
\* bind it ends the program at once.
BindQgc ==
    /\ MainAt("bind_qgc")
    /\ mpc' = "join_group"
    /\ \/ ~available["px4remote"] /\ UNCHANGED <<fds, proc>>
       \/ available["px4remote"] /\ fds' = fds \cup {"qgc"} /\ UNCHANGED proc
       \/ available["px4remote"] /\ proc' = "failure" /\ UNCHANGED fds
    /\ UNCHANGED <<flags, files, rpc, left, recvRunning, available, peerClosed,
                   hardError>>

\* Fault: the receiver is started although its device is not available.
StartReceiver_always(c, wanted, from, to) ==
    /\ MainAt(from)
    /\ mpc' = to
    /\ recvRunning' = [recvRunning EXCEPT ![c] = TRUE]
    /\ rpc' = [rpc EXCEPT ![c] = "check"]
    /\ UNCHANGED <<flags, files, left, world, proc>>

\* ml_conn_start_receiver and np_conn_start_packet_receiver.
StartReceiver(c, wanted, from, to) ==
    /\ MainAt(from)
    /\ mpc' = to
    /\ IF wanted /\ ~recvRunning[c]
         THEN /\ recvRunning' = [recvRunning EXCEPT ![c] = TRUE]
              /\ rpc' = [rpc EXCEPT ![c] = "check"]
         ELSE UNCHANGED <<recvRunning, rpc>>
    /\ UNCHANGED <<flags, files, left, world, proc>>

StartReceivers ==
    \/ StartReceiver("mav", available["px4remote"], "start_mav", "start_qgc")
    \/ StartReceiver("qgc", available["px4remote"], "start_qgc", "start_tracker")
    \/ StartReceiver("tracker", available["tracker"], "start_tracker", "check")

-----------------------------------------------------------------------------
(* The main loop.                                                          *)

MainGoes(from, to) ==
    /\ MainAt(from)
    /\ mpc' = to
    /\ UNCHANGED <<flags, files, rpc, left, recvRunning, world, proc>>

\* while(uiom_is_prog_running())
CheckRunning == MainGoes("check", IF running THEN "key" ELSE "stop_mav")

\* uiom_is_exit_key_pressed: the user, or the unset byte of a closed stdin,
\* decides.
PollKey == \E to \in {"stop_mav", "joystick"} : MainGoes("key", to)

\* A write to the TCP connection: once the peer has closed it, SIGPIPE may
\* end the process.
WriteToMav == \/ UNCHANGED proc
              \/ peerClosed /\ proc' = "killed"

\* read_and_handle_js_data: a hard fault of the device leaves the loop,
\* otherwise commands may be written to the MAV.
HandleJoystick ==
    /\ MainAt("joystick")
    /\ \/ mpc' = "check" /\ UNCHANGED proc
       \/ /\ available["joystick"] /\ available["px4remote"]
          /\ \/ mpc' = "stop_mav" /\ UNCHANGED proc
             \/ mpc' = "check" /\ WriteToMav
    /\ UNCHANGED <<flags, files, rpc, left, recvRunning, world>>

-----------------------------------------------------------------------------
(* Shutting down.                                                          *)

\* Fault: recv_running is left alone, the receiver is only joined.
StopReceiver_flagKept(c, from, join, to) ==
    MainGoes(from, IF recvRunning[c] THEN join ELSE to)

\* Fault: the receiver is told to stop and not joined.
StopReceiver_unjoined(c, from, join, to) ==
    /\ MainAt(from)
    /\ mpc' = to
    /\ recvRunning' = [recvRunning EXCEPT ![c] = FALSE]
    /\ UNCHANGED <<flags, files, rpc, left, world, proc>>

\* Fault: a receiver that was never started is joined, too.
StopReceiver_unguarded(c, from, join, to) ==
    /\ MainAt(from)
    /\ mpc' = join
    /\ recvRunning' = [recvRunning EXCEPT ![c] = FALSE]
    /\ UNCHANGED <<flags, files, rpc, left, world, proc>>

\* ml_conn_stop_receiver and np_conn_stop_packet_receiver up to the join.
StopReceiver(c, from, join, to) ==
    /\ MainAt(from)
    /\ mpc' = IF recvRunning[c] THEN join ELSE to
    /\ recvRunning' = [recvRunning EXCEPT ![c] = FALSE]
    /\ UNCHANGED <<flags, files, rpc, left, world, proc>>

\* Fault: main() does not wait for the receiver to return.
JoinReceiver_unawaited(c, from, to) == MainGoes(from, to)

\* pthread_join returns once the receiver has returned.
JoinReceiver(c, from, to) == rpc[c] = "done" /\ MainGoes(from, to)

StopReceivers ==
    \/ StopReceiver("mav", "stop_mav", "join_mav", "stop_qgc")
    \/ JoinReceiver("mav", "join_mav", "stop_qgc")
    \/ StopReceiver("qgc", "stop_qgc", "join_qgc", "stop_tracker")
    \/ JoinReceiver("qgc", "join_qgc", "stop_tracker")
    \/ StopReceiver("tracker", "stop_tracker", "join_tracker", "close_fds")
    \/ JoinReceiver("tracker", "join_tracker", "close_fds")

\* uiom_cleanup: the sockets and the joystick.
CloseFds ==
    /\ MainAt("close_fds")
    /\ mpc' = "close_mav"
    /\ fds' = {}
    /\ UNCHANGED <<flags, files, rpc, left, recvRunning, available, peerClosed,
                   hardError, proc>>

\* ml_logger_close_files, then np_logger_close_files.
CloseLog(s, from, to) ==
    /\ MainAt(from)
    /\ mpc' = to
    /\ logFiles' = [logFiles EXCEPT ![s] = "closed"]
    /\ UNCHANGED <<flags, parsed, recorded, skipped, logDir, copied, rpc, left,
                   recvRunning, world, proc>>

CloseLogs == \/ CloseLog("mav", "close_mav", "close_tracker")
             \/ CloseLog("tracker", "close_tracker", "clear_log")

\* utils_make_dir and utils_delete_files_from_dir; what they return is
\* ignored, so that files of the previous session may stay.
ClearLogDir ==
    /\ MainAt("clear_log")
    /\ mpc' = "copy_log"
    /\ logDir' = "cleared"
    /\ UNCHANGED <<flags, logFiles, parsed, recorded, skipped, copied, rpc,
                   left, recvRunning, world, proc>>

\* utils_copy_files_of_dir stops at the first file it cannot copy, goes on
\* after one whose end was lost in its fclose, and what it returns is ignored.
CopyLogs ==
    /\ MainAt("copy_log")
    /\ mpc' = "exit"
    /\ \/ logDir' = "complete" /\ copied' = recorded
       \/ logDir' = "partial" /\ UNCHANGED copied
    /\ UNCHANGED <<flags, logFiles, parsed, recorded, skipped, rpc, left,
                   recvRunning, world, proc>>

\* The exit(EXIT_SUCCESS) at the end of main().
ExitMain ==
    /\ MainAt("exit")
    /\ proc' = "success"
    /\ UNCHANGED <<flags, files, threads, world>>

-----------------------------------------------------------------------------
(* The receiver threads.                                                   *)

RecvAt(c, from) == proc = "up" /\ rpc[c] = from

\* while(recv_running)
TestRecvRunning(c) ==
    /\ RecvAt(c, "check")
    /\ rpc' = [rpc EXCEPT ![c] = IF recvRunning[c] THEN "recv" ELSE "done"]
    /\ UNCHANGED <<flags, files, mpc, left, recvRunning, world, proc>>

\* No bytes (EAGAIN), or none any more (a closed TCP peer): sleep, try again.
RecvNothing(c) ==
    /\ RecvAt(c, "recv")
    /\ rpc' = [rpc EXCEPT ![c] = "check"]
    /\ UNCHANGED <<flags, files, mpc, left, recvRunning, world, proc>>

\* The first thing done for a message: "mav" and "qgc" forward it, "tracker"
\* has only log handlers.
FirstStep(c) == IF c = "tracker" THEN "log" ELSE "forward"

\* Bytes that complete n messages.  A tracker datagram is one packet.
RecvData(c) ==
    /\ RecvAt(c, "recv")
    /\ ~(c = "mav" /\ peerClosed)
    /\ \E n \in 1..MaxChunk[c] :
          /\ c = "tracker" => n = 1
          /\ left' = [left EXCEPT ![c] = n]
          /\ IF c \in Streams
               THEN /\ parsed[c] + n <= MaxMsgs[c]
                    /\ parsed' = [parsed EXCEPT ![c] = @ + n]
               ELSE UNCHANGED parsed
    /\ rpc' = [rpc EXCEPT ![c] = FirstStep(c)]
    /\ UNCHANGED <<flags, logFiles, recorded, skipped, logDir, copied, mpc,
                   recvRunning, world, proc>>

\* A hard read error: the callback stops the program if it recognises the
\* code, and takes it for "no bytes" otherwise.
RecvError(c) ==
    /\ RecvAt(c, "recv")
    /\ hardError' = [hardError EXCEPT ![c] = TRUE]
    /\ IF ReadErrorCode[c] = StopCode[c]
         THEN /\ running' = FALSE
              /\ rpc' = [rpc EXCEPT ![c] = "grace"]
         ELSE /\ rpc' = [rpc EXCEPT ![c] = "check"]
              /\ UNCHANGED running
    /\ UNCHANGED <<signalled, files, mpc, left, recvRunning, available,
                   peerClosed, fds, proc>>

\* Fault: one message too many is handled.
NextMessage_offByOne(c) ==
    /\ left' = [left EXCEPT ![c] = @ - 1]
    /\ rpc' = [rpc EXCEPT ![c] = IF left[c] > 0 THEN FirstStep(c) ELSE "check"]

\* Fault: a stopped receiver drops the rest of its read.
NextMessage_dropsRest(c) ==
    IF left[c] > 1 /\ recvRunning[c]
      THEN left' = [left EXCEPT ![c] = @ - 1] /\ rpc' = [rpc EXCEPT ![c] = FirstStep(c)]
      ELSE left' = [left EXCEPT ![c] = 0] /\ rpc' = [rpc EXCEPT ![c] = "check"]

\* The for-loops over the bytes of a read never look at recv_running.
NextMessage(c) ==
    /\ left' = [left EXCEPT ![c] = @ - 1]
    /\ rpc' = [rpc EXCEPT ![c] = IF left[c] > 1 THEN FirstStep(c) ELSE "check"]

\* mlc_mav_msg_handler: to QGroundControl, by UDP.
ForwardToQgc ==
    /\ RecvAt("mav", "forward")
    /\ rpc' = [rpc EXCEPT !["mav"] = "log"]
    /\ UNCHANGED <<flags, files, mpc, left, recvRunning, world, proc>>

\* mlc_qgc_msg_handler: to the MAV, by TCP.
ForwardToMav ==
    /\ RecvAt("qgc", "forward")
    /\ NextMessage("qgc")
    /\ WriteToMav
    /\ UNCHANGED <<flags, files, mpc, recvRunning, world>>

\* A record is written, or the stream it goes to is the NULL of a failed
\* fopen and the process crashes.
WriteRecord(s) ==
    \/ /\ recorded' = [recorded EXCEPT ![s] = @ + 1]
       /\ UNCHANGED <<skipped, proc>>
    \/ /\ logFiles'[s] = "null"
       /\ proc' = "killed"
       /\ UNCHANGED <<recorded, skipped>>

\* mlc_mav_log_msg_handler
LogMav ==
    /\ RecvAt("mav", "log")
    /\ NextMessage("mav")
    /\ UNCHANGED logFiles
    /\ WriteRecord("mav")
    /\ UNCHANGED <<flags, parsed, logDir, copied, mpc, recvRunning, world>>

\* npc_tracker_mocap_data_log_handler opens the files unless they are open: a
\* packet that names no body leaves them unopened, an fopen that fails leaves
\* a NULL stream.  npc_tracker_rigid_body_log_handler then writes the bodies
\* it finds a file for.
LogTracker ==
    /\ RecvAt("tracker", "log")
    /\ NextMessage("tracker")
    /\ \E f \in IF logFiles["tracker"] = "unopened"
                  THEN {"unopened", "open", "null"}
                  ELSE {logFiles["tracker"]} :
          logFiles' = [logFiles EXCEPT !["tracker"] = f]
    /\ \/ logFiles'["tracker"] # "unopened" /\ WriteRecord("tracker")
       \/ skipped' = skipped + 1 /\ UNCHANGED <<recorded, proc>>
    /\ UNCHANGED <<flags, parsed, logDir, copied, mpc, recvRunning, world>>

\* usleep(100000) is over and the receiver calls exit(EXIT_SUCCESS).
CallExit(c) ==
    /\ RecvAt(c, "grace")
    /\ GraceIsLong =>
          \E d \in Conns : mpc = JoinPc[d] /\ rpc[d] \in {"grace", "exiting"}
    /\ rpc' = [rpc EXCEPT ![c] = "exiting"]
    /\ UNCHANGED <<flags, files, mpc, left, recvRunning, world, proc>>

\* exit() has run its handlers and the process is gone.  When two threads
\* are in exit() at the same time the behaviour is undefined.
FinishExit(c) ==
    /\ RecvAt(c, "exiting")
    /\ \/ proc' = "success"
       \/ \E d \in Conns \ {c} : rpc[d] = "exiting" /\ proc' = "killed"
    /\ UNCHANGED <<flags, files, threads, world>>

-----------------------------------------------------------------------------
(* The outside.                                                            *)

\* sig_handler on SIGINT.  uiom_init_sig_handler never sets sa.sa_flags: if
\* SA_RESETHAND is among what it holds, the second SIGINT kills the process.
Sigint ==
    /\ proc = "up"
    /\ signalled' = TRUE
    /\ \/ running' = FALSE /\ UNCHANGED proc
       \/ signalled /\ proc' = "killed" /\ UNCHANGED running
    /\ UNCHANGED <<files, threads, world>>

PeerCloses ==
    /\ proc = "up"
    /\ "mav" \in fds
    /\ ~peerClosed
    /\ peerClosed' = TRUE
    /\ UNCHANGED <<flags, files, threads, available, hardError, fds, proc>>

\* The process is gone: nothing happens any more.
Ended == proc # "up" /\ UNCHANGED vars

-----------------------------------------------------------------------------

MainNext == \/ OpenJoystick \/ ConnectMav \/ BindQgc \/ JoinGroup
            \/ StartReceivers
            \/ CheckRunning \/ PollKey \/ HandleJoystick
            \/ StopReceivers
            \/ CloseFds \/ CloseLogs \/ ClearLogDir \/ CopyLogs \/ ExitMain

RecvNext(c) == \/ TestRecvRunning(c)
               \/ RecvNothing(c) \/ RecvData(c) \/ RecvError(c)
               \/ c = "mav" /\ (ForwardToQgc \/ LogMav)
               \/ c = "qgc" /\ ForwardToMav
               \/ c = "tracker" /\ LogTracker
               \/ CallExit(c) \/ FinishExit(c)

Next == \/ MainNext
        \/ \E c \in Conns : RecvNext(c)
        \/ Sigint
        \/ PeerCloses
        \/ Ended

\* Every thread is scheduled again and again; the sockets are non-blocking
\* and every loop sleeps, so that nothing but a join holds a thread up.
Fairness == WF_vars(MainNext) /\ \A c \in Conns : WF_vars(RecvNext(c))

Spec == Init /\ [][Next]_vars

FairSpec == Spec /\ Fairness

-----------------------------------------------------------------------------
(* Properties.                                                             *)

\* Every variable has its type.
TypeOK ==
    /\ running \in BOOLEAN
    /\ signalled \in BOOLEAN
    /\ available \in [Devices -> BOOLEAN]
    /\ recvRunning \in [Conns -> BOOLEAN]
    /\ mpc \in MainPcs
    /\ rpc \in [Conns -> RecvPcs]
    /\ left \in [Conns -> Nat]
    /\ peerClosed \in BOOLEAN
    /\ hardError \in [Conns -> BOOLEAN]
    /\ fds \subseteq {"js", "mav", "qgc", "tracker"}
    /\ logFiles \in [Streams -> {"unopened", "open", "null", "closed"}]
    /\ parsed \in [Streams -> Nat]
    /\ recorded \in [Streams -> Nat]
    /\ skipped \in Nat
    /\ logDir \in {"previous", "cleared", "complete", "partial"}
    /\ copied \in [Streams -> Nat]
    /\ proc \in {"up", "success", "failure", "killed"}

\* Clean-up runs alone: once main() has reached uiom_cleanup no receiver is
\* inside its loop or inside exit().  In particular a receiver that failed
\* keeps main() from ever cleaning up.
CleanupAlone == mpc \in CleanupPcs => \A c \in Conns : Quiet(c)

\* No receiver touches a socket or a log file that uiom_cleanup has closed or
\* that main() never opened: a read uses the connection's own socket, a
\* forwarded message the other one, a log record the stream's files.
NoUseAfterClose ==
    proc = "up" =>
       /\ \A c \in Conns : rpc[c] = "recv" => c \in fds
       /\ rpc["mav"] = "forward" => "qgc" \in fds
       /\ rpc["qgc"] = "forward" => "mav" \in fds
       /\ \A s \in Streams : rpc[s] = "log" => logFiles[s] # "closed"

\* The "log" directory of an orderly exit holds every message: whatever a
\* receiver had parsed when it was told to stop was handled to the end of its
\* chunk, written, and written before the files were closed and copied.
CompleteCopy ==
    logDir = "complete" =>
       /\ copied = recorded
       /\ copied["mav"] = parsed["mav"]
       /\ copied["tracker"] + skipped = parsed["tracker"]

-----------------------------------------------------------------------------
(* The inductive invariant: what the properties above rest on.             *)

StartPcs == {"open_js", "connect_mav", "bind_qgc", "join_group", "start_mav"}
LoopPcs  == {"check", "key", "joystick", "stop_mav"}

\* main() has not created the receiver yet.
NotCreated == [mav     |-> StartPcs,
               qgc     |-> StartPcs \cup {"start_qgc"},
               tracker |-> StartPcs \cup {"start_qgc", "start_tracker"}]

\* main() has not told the receiver to stop yet.
NotStopped ==
    LET beforeMav == NotCreated["tracker"] \cup LoopPcs
    IN  [mav     |-> beforeMav,
         qgc     |-> beforeMav \cup {"join_mav", "stop_qgc"},
         tracker |-> beforeMav \cup {"join_mav", "stop_qgc", "join_qgc",
                                     "stop_tracker"}]

\* main() has joined the receiver, or found that there was none.
Joined == [mav     |-> CleanupPcs \cup {"stop_qgc", "join_qgc",
                                        "stop_tracker", "join_tracker"},
           qgc     |-> CleanupPcs \cup {"stop_tracker", "join_tracker"},
           tracker |-> CleanupPcs]

\* A receiver lives from its start to its join, and until it is told to stop
\* recv_running says whether it was started.
Lifecycle == \A c \in Conns :
    /\ mpc \in NotCreated[c] => rpc[c] = "unborn"
    /\ mpc \in NotStopped[c] => (recvRunning[c] <=> rpc[c] # "unborn")
    /\ mpc \in Joined[c] => Quiet(c)

\* A receiver exists only if its device is available, and the sockets of an
\* available device are open from start-up to clean-up.
SocketsOpen ==
    LET unopened == {"open_js", "connect_mav"}
        closed   == CleanupPcs \ {"close_fds"}
    IN  /\ \A c \in {"mav", "qgc"} : rpc[c] # "unborn" => available["px4remote"]
        /\ rpc["tracker"] # "unborn" => available["tracker"]
        /\ proc = "up" /\ available["px4remote"] =>
              /\ mpc \notin (unopened \cup closed) => "mav" \in fds
              /\ mpc \notin (unopened \cup closed \cup {"bind_qgc"}) => "qgc" \in fds
        /\ available["tracker"] /\ mpc \notin ((StartPcs \ {"start_mav"}) \cup closed)
              => "tracker" \in fds

\* Log files are closed, and "log" is replaced, one step of uiom_cleanup
\* after the other.
CleanupOrder ==
    /\ logFiles["mav"] = "closed"
          <=> mpc \in {"close_tracker", "clear_log", "copy_log", "exit"}
    /\ logFiles["tracker"] = "closed" => mpc \in {"clear_log", "copy_log", "exit"}
    /\ mpc \notin {"copy_log", "exit"} => logDir = "previous"
    /\ mpc = "copy_log" => logDir = "cleared"

\* A receiver handles messages exactly while there are messages left.
Handling == \A c \in Conns : rpc[c] \in {"forward", "log"} <=> left[c] > 0

\* Every message parsed is recorded, skipped or still to be handled.
Accounted ==
    proc = "up" =>
       /\ recorded["mav"] + left["mav"] = parsed["mav"]
       /\ recorded["tracker"] + skipped + left["tracker"] = parsed["tracker"]

IInv == /\ TypeOK
        /\ Handling
        /\ Lifecycle
        /\ SocketsOpen
        /\ CleanupOrder
        /\ Accounted
        /\ CompleteCopy

-----------------------------------------------------------------------------
(* Refinement and liveness.                                                *)

\* What main() and the receivers do is a session of LogSession: nothing is
\* recorded once the first file is closed, and "log" is touched only then.
Session == INSTANCE LogSession
             WITH phase <- IF proc # "up" THEN "ended"
                           ELSE IF logFiles["mav"] = "closed" THEN "closed"
                           ELSE "recording"

RefinesSession == Session!SessionSpec

\* A program told to stop does stop: SIGINT or a read error that is
\* recognised ends the process, whatever the receivers are doing.
StopEndsProgram == ~running ~> proc # "up"

\* A main thread that has left its loop (exit key, joystick fault, SIGINT)
\* cleans up and exits, unless a receiver fails or the process is killed.
ShutdownCompletes ==
    mpc = "stop_mav" ~> \/ proc # "up" /\ mpc = "exit"
                        \/ proc = "killed"
                        \/ \E c \in Conns : rpc[c] \in {"grace", "exiting"}

\* "give some thread time to join" (main.c): while a failing receiver sleeps
\* before exit(), main() joins the receivers that did not fail, unless a signal
\* kills the process.
GraceLetsThreadsJoin ==
    \A c \in Conns :
       rpc[c] = "grace" ~> (\A d \in Conns \ {c} : Quiet(d)) \/ proc = "killed"

\* "hard read error" (udp_server.c) and "stop programm..." (main.c): every
\* connection whose read fails with a hard error stops the program.
HardErrorStopsProgram ==
    \A c \in Conns : hardError[c] ~> (~running \/ proc # "up")
=============================================================================
