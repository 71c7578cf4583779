------------------------------- MODULE StartUp -------------------------------
(***************************************************************************)
(* The descriptors of the process, from the connections that main() builds *)
(* up one after the other to the clean-up that closes them by number.      *)
(*                                                                         *)
(* A connection that could not be made leaves its number in the            *)
(* configuration although the descriptor is closed again, and the kernel   *)
(* gives the lowest free number to the next one who asks.  The tracking    *)
(* system's log files (NpLogger) are opened while the program runs, with   *)
(* the numbers that are left.                                              *)
(***************************************************************************)
EXTENDS NpLogger, Integers

CONSTANTS MaxFd,    \* the highest descriptor (RLIMIT_NOFILE)
          MavFiles  \* number of files in ml_logger_t, 11 in the code

ASSUME DescriptorAssumption == MaxFd \in Nat /\ MavFiles \in Nat

VARIABLES
    pc,        \* what main() does next: open a connection, run, close, ...
    fd,        \* the kernel's table: the owner of each descriptor
    sd,        \* config: the number each connection keeps, zero from the start
    available, \* config: joystick_, px4remote_ and tracker_available
    mav_fs,    \* the descriptors behind mll->files, NULL where fopen failed
    np_fs      \* the descriptors behind npl->list

nplogger == <<proc, packets, packet, i, files_opened, list, seen, lines>>
startup == <<pc, fd, sd, available, mav_fs, np_fs>>
allvars == <<nplogger, startup>>

NULL == -1

Conns == {"js", "mav", "qgc", "tracker"}

\* An owner is a connection, or a log file by its place in its logger.
Nobody == <<"free", 0>>
Std    == <<"std", 0>>
Config == <<"config", 0>>
Conn(c) == <<c, 0>>

Free(table) == {n \in 0..MaxFd : table[n] = Nobody}

-----------------------------------------------------------------------------
(* The kernel.                                                             *)

Lowest(n, table) == n \in Free(table) /\ \A m \in Free(table) : n <= m

\* A row of opens gets the lowest numbers one after the other; some fail, all
\* once the table is full.
InOrder(numbers, table) ==
    \A k \in DOMAIN numbers : numbers[k] # NULL =>
       /\ numbers[k] \in Free(table)
       /\ \A j \in DOMAIN numbers : numbers[j] = numbers[k] => j = k
       /\ \A n \in Free(table) :
             n < numbers[k] => \E j \in 1..(k - 1) : numbers[j] = n

Given(numbers, who, table) ==
    [n \in 0..MaxFd |-> IF \E k \in DOMAIN numbers : numbers[k] = n
                        THEN <<who, CHOOSE k \in DOMAIN numbers : numbers[k] = n>>
                        ELSE table[n]]

\* open() or socket().
Socket(c) ==
    \E n \in 0..MaxFd :
       /\ Lowest(n, fd)
       /\ sd' = [sd EXCEPT ![c] = n]
       /\ fd' = [fd EXCEPT ![n] = Conn(c)]

NoSocket(c) == sd' = [sd EXCEPT ![c] = -1] /\ UNCHANGED fd

\* A socket that was closed again because it could not be connected, bound or
\* joined: the number stays behind.
DeadSocket(c) ==
    \E n \in 0..MaxFd :
       /\ Lowest(n, fd)
       /\ sd' = [sd EXCEPT ![c] = n]
       /\ UNCHANGED fd

\* close() of a number nobody has fails without harm.
Close(numbers) == fd' = [n \in 0..MaxFd |-> IF n \in numbers THEN Nobody ELSE fd[n]]

-----------------------------------------------------------------------------
(* main(): the connections.                                                *)

\* Before main() opens anything the terminal has 0 (for 0, 1 and 2).
\* utils_read_config_file, if there is a file to read, never closes it.
Booted(configured) ==
    [n \in 0..MaxFd |-> IF n = 0 THEN Std
                        ELSE IF n = 1 /\ configured THEN Config
                        ELSE Nobody]

StartInit ==
    /\ Init
    /\ \E configured \in BOOLEAN :
          /\ mav_fs \in [1..MavFiles -> {NULL} \cup 0..MaxFd]
          /\ InOrder(mav_fs, Booted(configured))
          /\ fd = Given(mav_fs, "mav-log", Booted(configured))
    /\ np_fs = <<>>
    /\ sd = [c \in Conns |-> 0]
    /\ available = [joystick |-> TRUE, px4remote |-> TRUE, tracker |-> TRUE]
    /\ pc = "js"

\* Fault: the tracking system's socket is made first.
After_trackerFirst(step) ==
    CASE step = "js" -> "tracker" [] step = "tracker" -> "mav"
      [] step = "mav" -> "qgc" [] step = "qgc" -> "run"

\* The order in which main() builds up the connections.
After(step) ==
    CASE step = "js" -> "mav" [] step = "mav" -> "qgc"
      [] step = "qgc" -> "tracker" [] step = "tracker" -> "run"

\* A step of main(), which no step of the receiver is part of.
Main(step) == pc = step /\ proc = "up" /\ UNCHANGED <<nplogger, mav_fs, np_fs>>

OpenJoystick ==
    /\ Main("js")
    /\ \/ Socket("js") /\ UNCHANGED available
       \/ NoSocket("js") /\ available' = [available EXCEPT !.joystick = FALSE]
    /\ pc' = After("js")

\* tcp_client_connect fails for many reasons, a SIGINT while it waits among
\* them, and closes the socket in each.
ConnectMav ==
    /\ Main("mav")
    /\ \/ Socket("mav") /\ UNCHANGED available
       \/ /\ NoSocket("mav") \/ DeadSocket("mav")
          /\ available' = [available EXCEPT !.px4remote = FALSE]
    /\ pc' = After("mav")

\* Without the port for the ground control the program exits at once.
BindQgc ==
    /\ Main("qgc")
    /\ \/ ~available.px4remote /\ pc' = After("qgc") /\ UNCHANGED <<fd, sd>>
       \/ available.px4remote /\ Socket("qgc") /\ pc' = After("qgc")
       \/ /\ available.px4remote
          /\ NoSocket("qgc") \/ DeadSocket("qgc")
          /\ pc' = "failed"
    /\ UNCHANGED available

\* Fault: only a failed socket() counts.
JoinGroup_deadCounts ==
    /\ Main("tracker")
    /\ \/ (Socket("tracker") \/ DeadSocket("tracker")) /\ UNCHANGED available
       \/ NoSocket("tracker") /\ available' = [available EXCEPT !.tracker = FALSE]
    /\ pc' = After("tracker")

\* udp_mr_bind_and_join
JoinGroup ==
    /\ Main("tracker")
    /\ \/ Socket("tracker") /\ UNCHANGED available
       \/ /\ NoSocket("tracker") \/ DeadSocket("tracker")
          /\ available' = [available EXCEPT !.tracker = FALSE]
    /\ pc' = After("tracker")

-----------------------------------------------------------------------------
(* The receiver of the tracking system, started if there is a connection.  *)

\* The files of the list are opened one after the other: the first numbers
\* that are free, none where fopen failed.
NpFilesOpened ==
    IF files_opened' = files_opened
      THEN UNCHANGED <<np_fs, fd>>
      ELSE /\ np_fs' \in [DOMAIN list'.file -> {NULL} \cup 0..MaxFd]
           /\ \A k \in DOMAIN np_fs' : np_fs'[k] = NULL <=> list'.file[k].fs = "null"
           /\ InOrder(np_fs', fd)
           /\ fd' = Given(np_fs', "np-log", fd)

Receive ==
    /\ pc = "run"
    /\ available.tracker
    /\ ReceivePacket
    /\ NpFilesOpened
    /\ UNCHANGED <<pc, sd, available, mav_fs>>

HandleBody ==
    /\ pc = "run"
    /\ WriteRigidBody
    /\ UNCHANGED startup

-----------------------------------------------------------------------------
(* The end of main(): the receivers are joined, each between two packets.  *)

StopReceivers ==
    /\ Main("run")
    /\ i = 0
    /\ pc' = "close"
    /\ UNCHANGED <<fd, sd, available>>

\* Fault: the numbers of the connections in use are closed, but the tracking
\* system's was forgotten.
Kept_notTracker == {sd[c] : c \in {"js", "mav", "qgc"}}

\* The numbers that the configuration keeps.
Kept == {sd[c] : c \in Conns}

\* uiom_cleanup closes them, whether they are in use or not.
CloseConns ==
    /\ Main("close")
    /\ Close({n \in Kept : n > 0})
    /\ pc' = "logs"
    /\ UNCHANGED <<sd, available>>

\* ml_logger_close_files and np_logger_close_files: fclose of each stream.
CloseLogs ==
    /\ Main("logs")
    /\ Close((Range(mav_fs) \cup Range(np_fs)) \ {NULL})
    /\ pc' = "exited"
    /\ UNCHANGED <<sd, available>>

Ended == (pc \in {"exited", "failed"} \/ proc = "crashed") /\ UNCHANGED allvars

StartNext ==
    \/ OpenJoystick \/ ConnectMav \/ BindQgc \/ JoinGroup
    \/ Receive \/ HandleBody
    \/ StopReceivers \/ CloseConns \/ CloseLogs \/ Ended

StartSpec == StartInit /\ [][StartNext]_allvars

-----------------------------------------------------------------------------
(* Properties.                                                             *)

\* Until it is closed with its logger, an open log file is the one behind the
\* descriptor it writes to: the clean-up, which closes also the numbers of
\* connections that failed, never closes a file that has still lines to write
\* out (uio_manager.c:189).
FilesKeepDescriptors ==
    pc \notin {"exited", "failed"} =>
       /\ \A k \in DOMAIN mav_fs : mav_fs[k] # NULL => fd[mav_fs[k]] = <<"mav-log", k>>
       /\ \A k \in DOMAIN np_fs : np_fs[k] # NULL => fd[np_fs[k]] = <<"np-log", k>>

\* Once the connections are made, the program reads and writes the descriptors
\* of connections it takes for available, and each of them is its own: never
\* one that another connection or a log file has got since (main.c:274, 301).
ConnectionsAreOwn ==
    pc = "run" =>
       /\ available.joystick => fd[sd["js"]] = Conn("js")
       /\ available.px4remote => fd[sd["mav"]] = Conn("mav") /\ fd[sd["qgc"]] = Conn("qgc")
       /\ available.tracker => fd[sd["tracker"]] = Conn("tracker")

\* The clean-up leaves nothing open but the configuration file, whichever
\* connections failed, although it may close the tracking system's socket by
\* the number of another (uio_manager.c:189).
AllClosed == pc = "exited" => \A n \in 0..MaxFd : fd[n] \in {Nobody, Std, Config}
=============================================================================
