---------------------------- MODULE TflogProofs ----------------------------
(***************************************************************************)
(* Proofs about Tflog, for all values of its constants.                    *)
(***************************************************************************)
EXTENDS Tflog, TLAPS

\* The initial states are well typed.
LEMMA InitTypeOK == Init => TypeOK
<1> SUFFICES ASSUME Init PROVE TypeOK
  OBVIOUS
<1>1. logFiles \in [Streams -> {"unopened", "open", "null", "closed"}]
  BY DEF Init, Streams
<1>2. available \in [Devices -> BOOLEAN]
  BY DEF Init
<1>3. mpc \in MainPcs /\ rpc \in [Conns -> RecvPcs]
  BY DEF Init, MainPcs, RecvPcs
<1>4. running \in BOOLEAN /\ peerClosed \in BOOLEAN
  BY DEF Init
<1>5. signalled \in BOOLEAN /\ skipped \in Nat
  BY BoundsAssumption DEF Init
<1>6. /\ left \in [Conns -> Nat]
      /\ parsed \in [Streams -> Nat]
      /\ recorded \in [Streams -> Nat]
      /\ copied \in [Streams -> Nat]
  BY DEF Init
<1>7. recvRunning \in [Conns -> BOOLEAN] /\ hardError \in [Conns -> BOOLEAN]
  BY DEF Init
<1> QED
  BY <1>1, <1>2, <1>3, <1>4, <1>5, <1>6, <1>7 DEF Init, TypeOK

\* Steps preserve types: left is decreased only while messages are left.
LEMMA TypeOKStep == TypeOK /\ Handling /\ [Next]_vars => TypeOK'
<1> SUFFICES ASSUME TypeOK, Handling, [Next]_vars PROVE TypeOK'
  OBVIOUS
<1> USE BoundsAssumption DEF TypeOK, vars, flags, files, threads, world
<1>1. CASE MainNext
  <2>1. CASE OpenJoystick \/ ConnectMav \/ JoinGroup
    BY <2>1 DEF OpenJoystick, ConnectMav, JoinGroup, Open, MainAt, Devices, MainPcs
  <2>2. CASE BindQgc
    <3>1. fds' \subseteq {"js", "mav", "qgc", "tracker"}
      BY <2>2 DEF BindQgc
    <3>2. mpc' \in MainPcs
      BY <2>2 DEF BindQgc, MainPcs
    <3>3. proc' \in {"up", "success", "failure", "killed"}
      BY <2>2 DEF BindQgc
    <3> QED
      BY <2>2, <3>1, <3>2, <3>3 DEF BindQgc
  <2>3. CASE StartReceivers
    <3>1. ASSUME NEW c \in Conns, NEW w, NEW f, NEW t \in MainPcs,
                 StartReceiver(c, w, f, t)
          PROVE  TypeOK'
      <4>1. rpc' \in [Conns -> RecvPcs]
        BY <3>1 DEF StartReceiver, RecvPcs
      <4>2. recvRunning' \in [Conns -> BOOLEAN]
        BY <3>1 DEF StartReceiver
      <4> QED
        BY <3>1, <4>1, <4>2 DEF StartReceiver
    <3>2. /\ \A c \in {"mav", "qgc", "tracker"} : c \in Conns
          /\ \A t \in {"start_qgc", "start_tracker", "check"} : t \in MainPcs
      BY DEF Conns, MainPcs
    <3>3. CASE StartReceiver("mav", available["px4remote"], "start_mav", "start_qgc")
      BY <3>1, <3>2, <3>3
    <3>4. CASE StartReceiver("qgc", available["px4remote"], "start_qgc", "start_tracker")
      BY <3>1, <3>2, <3>4
    <3>5. CASE StartReceiver("tracker", available["tracker"], "start_tracker", "check")
      BY <3>1, <3>2, <3>5
    <3> QED
      BY <2>3, <3>3, <3>4, <3>5 DEF StartReceivers
  <2>4. CASE CheckRunning \/ PollKey
    BY <2>4 DEF CheckRunning, PollKey, MainGoes, MainAt, MainPcs
  <2>5. CASE HandleJoystick
    BY <2>5 DEF HandleJoystick, WriteToMav, MainAt, MainPcs
  <2>6. CASE StopReceivers
    BY <2>6 DEF StopReceivers, StopReceiver, JoinReceiver, MainGoes, MainAt, MainPcs, Conns
  <2>7. CASE CloseFds
    BY <2>7 DEF CloseFds, MainAt, MainPcs
  <2>8. CASE CloseLogs
    BY <2>8 DEF CloseLogs, CloseLog, MainAt, MainPcs, Streams
  <2>9. CASE ClearLogDir \/ CopyLogs \/ ExitMain
    BY <2>9 DEF ClearLogDir, CopyLogs, ExitMain, MainAt, MainPcs, Streams
  <2> QED
    BY <1>1, <2>1, <2>2, <2>3, <2>4, <2>5, <2>6, <2>7, <2>8, <2>9 DEF MainNext
<1>2. ASSUME NEW c \in Conns, RecvNext(c) PROVE TypeOK'
  <2>1. CASE TestRecvRunning(c) \/ RecvNothing(c)
    BY <2>1 DEF TestRecvRunning, RecvNothing, RecvAt, RecvPcs
  <2>2. CASE RecvData(c)
    BY <2>2 DEF RecvData, RecvAt, FirstStep, RecvPcs, Streams
  <2>3. CASE RecvError(c)
    BY <2>3 DEF RecvError, RecvAt, RecvPcs
  <2>4. CASE c = "mav" /\ ForwardToQgc
    BY <2>4 DEF ForwardToQgc, RecvAt, RecvPcs
  <2>5. CASE c = "mav" /\ LogMav
    BY <2>5 DEF Handling, LogMav, NextMessage, FirstStep, WriteRecord, RecvAt, RecvPcs, Conns, Streams
  <2>6. CASE c = "qgc" /\ ForwardToMav
    BY <2>6 DEF Handling, ForwardToMav, NextMessage, FirstStep, WriteToMav, RecvAt, RecvPcs, Conns
  <2>7. CASE c = "tracker" /\ LogTracker
    BY <2>7 DEF Handling, LogTracker, NextMessage, FirstStep, WriteRecord, RecvAt, RecvPcs, Conns, Streams
  <2>8. CASE CallExit(c) \/ FinishExit(c)
    BY <2>8 DEF CallExit, FinishExit, RecvAt, RecvPcs
  <2> QED
    BY <1>2, <2>1, <2>2, <2>3, <2>4, <2>5, <2>6, <2>7, <2>8 DEF RecvNext
<1>3. CASE Sigint
  <2>1. signalled' \in BOOLEAN
    BY <1>3 DEF Sigint
  <2> QED
    BY <1>3, <2>1 DEF Sigint
<1>4. CASE PeerCloses
  BY <1>4 DEF PeerCloses
<1>5. CASE Ended \/ UNCHANGED vars
  BY <1>5 DEF Ended
<1> QED
  BY <1>1, <1>2, <1>3, <1>4, <1>5 DEF Next

-----------------------------------------------------------------------------
\* A receiver's pc and the messages it has left agree after every step.
LEMMA HandlingStep == TypeOK /\ Handling /\ Lifecycle /\ [Next]_vars => Handling'
<1> SUFFICES ASSUME TypeOK, Handling, Lifecycle, [Next]_vars PROVE Handling'
  OBVIOUS
<1> USE DEF Handling, vars, threads
<1>1. CASE UNCHANGED <<rpc, left>>
  BY <1>1
<1>2. CASE StartReceivers
  <2>1. ASSUME NEW c \in Conns, NEW w, NEW f, NEW t, StartReceiver(c, w, f, t),
               rpc[c] = "unborn"
        PROVE  Handling'
    <3>1. CASE UNCHANGED <<rpc, left>>
      BY <3>1
    <3>2. CASE ~recvRunning[c] /\ rpc' = [rpc EXCEPT ![c] = "check"]
      BY <2>1, <3>2 DEF StartReceiver, TypeOK
    <3> QED
      BY <2>1, <3>1, <3>2 DEF StartReceiver
  <2> USE DEF Lifecycle, NotCreated, StartPcs, Conns
  <2>2. CASE StartReceiver("mav", available["px4remote"], "start_mav", "start_qgc")
    <3>1. rpc["mav"] = "unborn"
      BY <2>2 DEF StartReceiver, MainAt
    <3> QED
      BY <2>1, <2>2, <3>1
  <2>3. CASE StartReceiver("qgc", available["px4remote"], "start_qgc", "start_tracker")
    <3>1. rpc["qgc"] = "unborn"
      BY <2>3 DEF StartReceiver, MainAt
    <3> QED
      BY <2>1, <2>3, <3>1
  <2>4. CASE StartReceiver("tracker", available["tracker"], "start_tracker", "check")
    <3>1. rpc["tracker"] = "unborn"
      BY <2>4 DEF StartReceiver, MainAt
    <3> QED
      BY <2>1, <2>4, <3>1
  <2> QED
    BY <1>2, <2>2, <2>3, <2>4 DEF StartReceivers
<1>3. ASSUME NEW c \in Conns, RecvNext(c) PROVE Handling'
  <2>1. CASE TestRecvRunning(c) \/ RecvNothing(c) \/ CallExit(c) \/ FinishExit(c)
    BY <2>1 DEF TestRecvRunning, RecvNothing, CallExit, FinishExit, RecvAt, TypeOK
  <2>2. CASE RecvData(c)
    BY <2>2, BoundsAssumption DEF RecvData, RecvAt, FirstStep, TypeOK
  <2>3. CASE RecvError(c)
    BY <2>3 DEF RecvError, RecvAt, TypeOK
  <2>4. CASE c = "mav" /\ ForwardToQgc
    BY <2>4 DEF ForwardToQgc, RecvAt, TypeOK
  <2>5. ASSUME left[c] > 0, NextMessage(c) PROVE Handling'
    BY <2>5 DEF NextMessage, FirstStep, TypeOK
  <2>6. CASE c = "mav" /\ LogMav
    BY <2>5, <2>6 DEF LogMav, RecvAt
  <2>7. CASE c = "qgc" /\ ForwardToMav
    BY <2>5, <2>7 DEF ForwardToMav, RecvAt
  <2>8. CASE c = "tracker" /\ LogTracker
    BY <2>5, <2>8 DEF LogTracker, RecvAt
  <2> QED
    BY <1>3, <2>1, <2>2, <2>3, <2>4, <2>6, <2>7, <2>8 DEF RecvNext
<1>4. CASE MainNext /\ ~StartReceivers
  BY <1>1, <1>4 DEF MainNext, OpenJoystick, ConnectMav, JoinGroup, Open, BindQgc,
       CheckRunning, PollKey, MainGoes, HandleJoystick, StopReceivers,
       StopReceiver, JoinReceiver, CloseFds, CloseLogs, CloseLog, ClearLogDir,
       CopyLogs, ExitMain
<1>5. CASE Sigint \/ PeerCloses \/ Ended \/ UNCHANGED vars
  BY <1>1, <1>5 DEF Sigint, PeerCloses, Ended
<1> QED
  BY <1>2, <1>3, <1>4, <1>5 DEF Next

-----------------------------------------------------------------------------
\* The receivers' lives follow main()'s program counter.
LEMMA LifecycleStep == TypeOK /\ Lifecycle /\ [Next]_vars => Lifecycle'
<1> SUFFICES ASSUME TypeOK, Lifecycle, [Next]_vars PROVE Lifecycle'
  OBVIOUS
<1> USE DEF Lifecycle, vars, threads
<1>1. ASSUME NEW c \in Conns,
             UNCHANGED <<mpc, recvRunning>>,
             rpc[c] \notin {"unborn", "done"},
             \/ \E p \in RecvPcs \ {"unborn", "done"} : rpc' = [rpc EXCEPT ![c] = p]
             \/ rpc' = [rpc EXCEPT ![c] = "done"] /\ ~recvRunning[c]
             \/ UNCHANGED rpc
      PROVE  Lifecycle'
  BY <1>1 DEF Quiet, TypeOK
<1>2. ASSUME NEW c \in Conns, RecvNext(c) PROVE Lifecycle'
  <2>1. CASE TestRecvRunning(c)
    BY <1>1, <2>1 DEF TestRecvRunning, RecvAt, RecvPcs
  <2>2. CASE RecvNothing(c) \/ CallExit(c) \/ FinishExit(c)
    BY <1>1, <2>2 DEF RecvNothing, CallExit, FinishExit, RecvAt, RecvPcs
  <2>3. CASE RecvData(c)
    BY <1>1, <2>3 DEF RecvData, RecvAt, FirstStep, RecvPcs
  <2>4. CASE RecvError(c)
    BY <1>1, <2>4 DEF RecvError, RecvAt, RecvPcs
  <2>5. CASE c = "mav" /\ ForwardToQgc
    BY <1>1, <2>5 DEF ForwardToQgc, RecvAt, RecvPcs
  <2>6. CASE c = "mav" /\ LogMav
    BY <1>1, <2>6 DEF LogMav, NextMessage, FirstStep, RecvAt, RecvPcs
  <2>7. CASE c = "qgc" /\ ForwardToMav
    BY <1>1, <2>7 DEF ForwardToMav, NextMessage, FirstStep, RecvAt, RecvPcs
  <2>8. CASE c = "tracker" /\ LogTracker
    BY <1>1, <2>8 DEF LogTracker, NextMessage, FirstStep, RecvAt, RecvPcs
  <2> QED
    BY <1>2, <2>1, <2>2, <2>3, <2>4, <2>5, <2>6, <2>7, <2>8 DEF RecvNext
<1>3. CASE MainNext
  <2> USE DEF NotCreated, NotStopped, Joined, StartPcs, LoopPcs, CleanupPcs, MainAt, Conns
  <2>1. CASE OpenJoystick \/ ConnectMav \/ JoinGroup \/ BindQgc
    BY <2>1 DEF OpenJoystick, ConnectMav, JoinGroup, Open, BindQgc, Quiet
  <2>2. CASE StartReceiver("mav", available["px4remote"], "start_mav", "start_qgc")
    BY <2>2 DEF StartReceiver, Quiet, TypeOK
  <2>3. CASE StartReceiver("qgc", available["px4remote"], "start_qgc", "start_tracker")
    BY <2>3 DEF StartReceiver, Quiet, TypeOK
  <2>4. CASE StartReceiver("tracker", available["tracker"], "start_tracker", "check")
    BY <2>4 DEF StartReceiver, Quiet, TypeOK
  <2>5. CASE CheckRunning \/ PollKey \/ HandleJoystick
    BY <2>5 DEF CheckRunning, PollKey, MainGoes, HandleJoystick, Quiet
  <2>6. CASE StopReceiver("mav", "stop_mav", "join_mav", "stop_qgc")
    BY <2>6 DEF StopReceiver, Quiet, TypeOK
  <2>7. CASE StopReceiver("qgc", "stop_qgc", "join_qgc", "stop_tracker")
    BY <2>7 DEF StopReceiver, Quiet, TypeOK
  <2>8. CASE StopReceiver("tracker", "stop_tracker", "join_tracker", "close_fds")
    BY <2>8 DEF StopReceiver, Quiet, TypeOK
  <2>9. CASE \/ JoinReceiver("mav", "join_mav", "stop_qgc")
             \/ JoinReceiver("qgc", "join_qgc", "stop_tracker")
             \/ JoinReceiver("tracker", "join_tracker", "close_fds")
    BY <2>9 DEF JoinReceiver, MainGoes, Quiet
  <2>10. CASE CloseFds \/ CloseLogs \/ ClearLogDir \/ CopyLogs \/ ExitMain
    BY <2>10 DEF CloseFds, CloseLogs, CloseLog, ClearLogDir, CopyLogs, ExitMain, Quiet
  <2> QED
    BY <1>3, <2>1, <2>2, <2>3, <2>4, <2>5, <2>6, <2>7, <2>8, <2>9, <2>10
    DEF MainNext, StartReceivers, StopReceivers
<1>4. CASE Sigint \/ PeerCloses \/ Ended \/ UNCHANGED vars
  BY <1>4 DEF Sigint, PeerCloses, Ended, Quiet
<1> QED
  BY <1>2, <1>3, <1>4 DEF Next

-----------------------------------------------------------------------------
\* A socket is open while a receiver that exists may use it.
LEMMA SocketsOpenStep ==
    TypeOK /\ Lifecycle /\ SocketsOpen /\ [Next]_vars => SocketsOpen'
<1> SUFFICES ASSUME TypeOK, Lifecycle, SocketsOpen, [Next]_vars PROVE SocketsOpen'
  OBVIOUS
<1> USE DEF SocketsOpen, vars, threads, world
<1>1. ASSUME NEW c \in Conns,
             UNCHANGED <<mpc, available, fds>>,
             rpc[c] # "unborn",
             UNCHANGED rpc \/ \E p : rpc' = [rpc EXCEPT ![c] = p],
             proc' = "up" => proc = "up"
      PROVE  SocketsOpen'
  BY <1>1 DEF TypeOK, Conns
<1>2. ASSUME NEW c \in Conns, RecvNext(c) PROVE SocketsOpen'
  <2>1. CASE TestRecvRunning(c) \/ RecvNothing(c) \/ CallExit(c) \/ FinishExit(c)
    BY <1>1, <2>1 DEF TestRecvRunning, RecvNothing, CallExit, FinishExit, RecvAt
  <2>2. CASE RecvData(c) \/ RecvError(c)
    BY <1>1, <2>2 DEF RecvData, RecvError, RecvAt
  <2>3. CASE c = "mav" /\ ForwardToQgc
    BY <1>1, <2>3 DEF ForwardToQgc, RecvAt
  <2>4. CASE c = "mav" /\ LogMav
    BY <1>1, <2>4 DEF LogMav, NextMessage, RecvAt
  <2>5. CASE c = "qgc" /\ ForwardToMav
    BY <1>1, <2>5 DEF ForwardToMav, NextMessage, RecvAt
  <2>6. CASE c = "tracker" /\ LogTracker
    BY <1>1, <2>6 DEF LogTracker, NextMessage, RecvAt
  <2> QED
    BY <1>2, <2>1, <2>2, <2>3, <2>4, <2>5, <2>6 DEF RecvNext
<1>3. CASE MainNext
  <2> USE DEF StartPcs, CleanupPcs, MainAt, Conns
  <2>1. CASE OpenJoystick \/ ConnectMav \/ JoinGroup \/ BindQgc
    <3>1. \A c \in Conns : rpc'[c] = "unborn"
      BY <2>1 DEF OpenJoystick, ConnectMav, JoinGroup, Open, BindQgc, Lifecycle, NotCreated
    <3>2. CASE OpenJoystick
      BY <2>1, <3>1, <3>2 DEF OpenJoystick, Open, TypeOK, Devices
    <3>3. CASE ConnectMav
      BY <2>1, <3>1, <3>3 DEF ConnectMav, Open, TypeOK, Devices
    <3>4. CASE BindQgc
      BY <2>1, <3>1, <3>4 DEF BindQgc
    <3>5. CASE JoinGroup
      BY <2>1, <3>1, <3>5 DEF JoinGroup, Open, TypeOK, Devices
    <3> QED
      BY <2>1, <3>2, <3>3, <3>4, <3>5
  <2>2. CASE StartReceiver("mav", available["px4remote"], "start_mav", "start_qgc")
    BY <2>2 DEF StartReceiver, TypeOK
  <2>3. CASE StartReceiver("qgc", available["px4remote"], "start_qgc", "start_tracker")
    BY <2>3 DEF StartReceiver, TypeOK
  <2>4. CASE StartReceiver("tracker", available["tracker"], "start_tracker", "check")
    BY <2>4 DEF StartReceiver, TypeOK
  <2>5. CASE CheckRunning \/ PollKey \/ HandleJoystick
    BY <2>5 DEF CheckRunning, PollKey, MainGoes, HandleJoystick
  <2>6. CASE StopReceivers
    BY <2>6 DEF StopReceivers, StopReceiver, JoinReceiver, MainGoes
  <2>7. CASE CloseFds \/ CloseLogs \/ ClearLogDir \/ CopyLogs \/ ExitMain
    BY <2>7 DEF CloseFds, CloseLogs, CloseLog, ClearLogDir, CopyLogs, ExitMain
  <2> QED
    BY <1>3, <2>1, <2>2, <2>3, <2>4, <2>5, <2>6, <2>7 DEF MainNext, StartReceivers
<1>4. CASE Sigint \/ PeerCloses \/ Ended \/ UNCHANGED vars
  BY <1>4 DEF Sigint, PeerCloses, Ended
<1> QED
  BY <1>2, <1>3, <1>4 DEF Next

-----------------------------------------------------------------------------
\* Log files are closed in order, and only by main().
LEMMA CleanupOrderStep == TypeOK /\ CleanupOrder /\ [Next]_vars => CleanupOrder'
<1> SUFFICES ASSUME TypeOK, CleanupOrder, [Next]_vars PROVE CleanupOrder'
  OBVIOUS
<1> USE DEF CleanupOrder, vars, threads, files
<1>1. CASE UNCHANGED <<mpc, logFiles, logDir>>
  BY <1>1
<1>2. ASSUME NEW c \in Conns, RecvNext(c) PROVE CleanupOrder'
  <2>1. CASE c = "tracker" /\ LogTracker
    BY <2>1 DEF LogTracker, TypeOK, Streams
  <2>2. CASE ~(c = "tracker" /\ LogTracker)
    BY <1>1, <1>2, <2>2
    DEF RecvNext, TestRecvRunning, RecvNothing, RecvData, RecvError, ForwardToQgc,
        LogMav, ForwardToMav, CallExit, FinishExit
  <2> QED
    BY <2>1, <2>2
<1>3. CASE MainNext
  <2> USE DEF MainAt
  <2>1. CASE OpenJoystick \/ ConnectMav \/ JoinGroup \/ BindQgc
    BY <2>1 DEF OpenJoystick, ConnectMav, JoinGroup, Open, BindQgc
  <2>2. CASE StartReceivers
    BY <2>2 DEF StartReceivers, StartReceiver
  <2>3. CASE CheckRunning \/ PollKey \/ HandleJoystick
    BY <2>3 DEF CheckRunning, PollKey, MainGoes, HandleJoystick
  <2>4. CASE StopReceivers
    BY <2>4 DEF StopReceivers, StopReceiver, JoinReceiver, MainGoes
  <2>5. CASE CloseFds \/ CloseLogs \/ ClearLogDir \/ CopyLogs \/ ExitMain
    BY <2>5 DEF CloseFds, CloseLogs, CloseLog, ClearLogDir, CopyLogs, ExitMain, TypeOK, Streams
  <2> QED
    BY <1>3, <2>1, <2>2, <2>3, <2>4, <2>5 DEF MainNext
<1>4. CASE Sigint \/ PeerCloses \/ Ended \/ UNCHANGED vars
  BY <1>1, <1>4 DEF Sigint, PeerCloses, Ended
<1> QED
  BY <1>2, <1>3, <1>4 DEF Next

-----------------------------------------------------------------------------
\* No step loses a message between the parser and the log files.
LEMMA AccountedStep ==
    TypeOK /\ Handling /\ Accounted /\ [Next]_vars => Accounted'
<1> SUFFICES ASSUME TypeOK, Handling, Accounted, [Next]_vars PROVE Accounted'
  OBVIOUS
<1> USE DEF Accounted, vars, threads, files
<1>1. CASE /\ UNCHANGED <<recorded, skipped, left, parsed>>
           /\ proc' = "up" => proc = "up"
  BY <1>1
<1>2. ASSUME NEW c \in Conns, RecvNext(c) PROVE Accounted'
  <2>1. CASE TestRecvRunning(c) \/ RecvNothing(c) \/ RecvError(c) \/ CallExit(c)
    BY <1>1, <2>1 DEF TestRecvRunning, RecvNothing, RecvError, CallExit
  <2>2. CASE FinishExit(c)
    BY <2>2 DEF FinishExit
  <2>3. CASE RecvData(c)
    <3>1. proc = "up" /\ left[c] = 0
      BY <2>3 DEF RecvData, RecvAt, Handling, TypeOK
    <3>2. PICK n \in 1..MaxChunk[c] :
             /\ left' = [left EXCEPT ![c] = n]
             /\ IF c \in Streams THEN parsed' = [parsed EXCEPT ![c] = @ + n]
                                ELSE UNCHANGED parsed
      BY <2>3 DEF RecvData
    <3>3. UNCHANGED <<recorded, skipped>>
      BY <2>3 DEF RecvData
    <3> QED
      BY <3>1, <3>2, <3>3, BoundsAssumption DEF TypeOK, Conns, Streams
  <2>4. CASE c = "mav" /\ ForwardToQgc
    BY <1>1, <2>4 DEF ForwardToQgc
  <2>5. CASE c = "mav" /\ LogMav
    BY <2>5 DEF LogMav, NextMessage, WriteRecord, RecvAt, Handling, TypeOK, Conns, Streams
  <2>6. CASE c = "qgc" /\ ForwardToMav
    BY <2>6 DEF ForwardToMav, NextMessage, RecvAt, TypeOK, Conns
  <2>7. CASE c = "tracker" /\ LogTracker
    BY <2>7 DEF LogTracker, NextMessage, WriteRecord, RecvAt, Handling, TypeOK, Conns, Streams
  <2> QED
    BY <1>2, <2>1, <2>2, <2>3, <2>4, <2>5, <2>6, <2>7 DEF RecvNext
<1>3. CASE MainNext
  BY <1>1, <1>3
  DEF MainNext, OpenJoystick, ConnectMav, JoinGroup, Open, BindQgc, StartReceivers,
      StartReceiver, CheckRunning, PollKey, MainGoes, HandleJoystick, StopReceivers,
      StopReceiver, JoinReceiver, CloseFds, CloseLogs, CloseLog, ClearLogDir,
      CopyLogs, ExitMain, MainAt
<1>4. CASE Sigint \/ PeerCloses \/ Ended \/ UNCHANGED vars
  BY <1>1, <1>4 DEF Sigint, PeerCloses, Ended
<1> QED
  BY <1>2, <1>3, <1>4 DEF Next

-----------------------------------------------------------------------------
\* Once main() cleans up, no receiver takes a step.
LEMMA QuietReceivers ==
    ASSUME Lifecycle, mpc \in CleanupPcs, NEW c \in Conns
    PROVE  ~RecvNext(c)
<1>1. \A d \in Conns : rpc[d] \in {"unborn", "done"}
  BY DEF Lifecycle, Joined, Quiet, Conns, CleanupPcs
<1> QED
  BY <1>1 DEF RecvNext, RecvAt, TestRecvRunning, RecvNothing, RecvData, RecvError,
       ForwardToQgc, LogMav, ForwardToMav, LogTracker, CallExit, FinishExit, Conns

\* The copy is complete when it is made, and nothing is recorded afterwards.
LEMMA CompleteCopyStep ==
    /\ TypeOK /\ Handling /\ Lifecycle /\ CleanupOrder /\ Accounted /\ CompleteCopy
    /\ [Next]_vars
    => CompleteCopy'
<1> SUFFICES ASSUME TypeOK, Handling, Lifecycle, CleanupOrder, Accounted, CompleteCopy,
                    [Next]_vars
             PROVE  CompleteCopy'
  OBVIOUS
<1> USE DEF CompleteCopy, vars, threads, files
<1>1. CASE UNCHANGED <<logDir, copied, recorded, parsed, skipped>>
  BY <1>1
<1>2. CASE CopyLogs
  <2>1. mpc = "copy_log" /\ proc = "up"
    BY <1>2 DEF CopyLogs, MainAt
  <2>2. \A c \in Conns : Quiet(c)
    BY <2>1 DEF Lifecycle, Joined, CleanupPcs, Conns
  <2>3. left["mav"] = 0 /\ left["tracker"] = 0
    BY <2>2 DEF Handling, Quiet, TypeOK, Conns
  <2>4. recorded["mav"] = parsed["mav"] /\ recorded["tracker"] + skipped = parsed["tracker"]
    BY <2>1, <2>3 DEF Accounted, TypeOK, Streams
  <2> QED
    BY <1>2, <2>4 DEF CopyLogs
<1>3. ASSUME NEW c \in Conns, RecvNext(c) PROVE CompleteCopy'
  <2>1. mpc \notin CleanupPcs
    BY <1>3, QuietReceivers
  <2>2. logDir = "previous"
    BY <2>1 DEF CleanupOrder, CleanupPcs
  <2>3. logDir' = logDir
    BY <1>3 DEF RecvNext, TestRecvRunning, RecvNothing, RecvData, RecvError,
       ForwardToQgc, LogMav, ForwardToMav, LogTracker, CallExit, FinishExit
  <2> QED
    BY <2>2, <2>3
<1>4. CASE MainNext /\ ~CopyLogs
  <2>1. CASE ClearLogDir
    BY <2>1 DEF ClearLogDir
  <2>2. CASE ~ClearLogDir
    BY <1>1, <1>4, <2>2
    DEF MainNext, OpenJoystick, ConnectMav, JoinGroup, Open, BindQgc, StartReceivers,
      StartReceiver, CheckRunning, PollKey, MainGoes, HandleJoystick, StopReceivers,
      StopReceiver, JoinReceiver, CloseFds, CloseLogs, CloseLog, ExitMain
  <2> QED
    BY <2>1, <2>2
<1>5. CASE Sigint \/ PeerCloses \/ Ended \/ UNCHANGED vars
  BY <1>1, <1>5 DEF Sigint, PeerCloses, Ended
<1> QED
  BY <1>2, <1>3, <1>4, <1>5 DEF Next

-----------------------------------------------------------------------------
\* The invariant holds at the start.
LEMMA InitIInv == Init => IInv
<1> SUFFICES ASSUME Init PROVE IInv
  OBVIOUS
<1>1. TypeOK
  BY InitTypeOK
<1>2. Handling
  BY DEF Init, Handling
<1>3. Lifecycle
  BY DEF Init, Lifecycle, NotCreated, NotStopped, Joined, StartPcs, LoopPcs, CleanupPcs,
     Quiet, Conns
<1>4. SocketsOpen
  BY DEF Init, SocketsOpen, CleanupPcs, StartPcs, Conns
<1>5. CleanupOrder
  BY DEF Init, CleanupOrder
<1>6. Accounted
  BY DEF Init, Accounted, Conns, Streams
<1>7. CompleteCopy
  BY DEF Init, CompleteCopy
<1> QED
  BY <1>1, <1>2, <1>3, <1>4, <1>5, <1>6, <1>7 DEF IInv

\* The strengthened invariant: types, the lives of the receivers, the sockets
\* they need, the order of the clean-up and the account of every message.
THEOREM Invariance == Spec => []IInv
<1>1. IInv /\ [Next]_vars => IInv'
  BY TypeOKStep, HandlingStep, LifecycleStep, SocketsOpenStep, CleanupOrderStep,
     AccountedStep, CompleteCopyStep DEF IInv
<1> QED
  BY InitIInv, <1>1, PTL DEF Spec

\* Every state of tflog is well typed.
THEOREM TypeCorrect == Spec => []TypeOK
<1>1. IInv => TypeOK
  BY DEF IInv
<1> QED
  BY Invariance, <1>1, PTL

\* uiom_cleanup never runs next to a receiver.
THEOREM CleanupRunsAlone == Spec => []CleanupAlone
<1>1. IInv => CleanupAlone
  BY DEF IInv, Lifecycle, Joined, CleanupAlone, CleanupPcs, Conns
<1> QED
  BY Invariance, <1>1, PTL

\* No receiver uses a closed or never opened socket, or a closed log file.
THEOREM NoReceiverUsesClosed == Spec => []NoUseAfterClose
<1>1. IInv => NoUseAfterClose
  <2> SUFFICES ASSUME IInv, proc = "up" PROVE NoUseAfterClose
    BY DEF NoUseAfterClose
  <2>1. ASSUME NEW c \in Conns, rpc[c] \in {"recv", "forward", "log"}
        PROVE  /\ mpc \notin CleanupPcs
               /\ rpc[c] # "unborn"
               /\ mpc \notin NotCreated[c]
    BY <2>1 DEF IInv, Lifecycle, Joined, Quiet, CleanupPcs, Conns
  <2>2. ASSUME NEW c \in Conns, rpc[c] \in {"recv", "forward", "log"}
        PROVE  IF c = "tracker" THEN "tracker" \in fds
                                ELSE {"mav", "qgc"} \subseteq fds
    BY <2>1, <2>2 DEF IInv, SocketsOpen, NotCreated, StartPcs, CleanupPcs, Conns
  <2>3. ASSUME NEW s \in Streams, rpc[s] = "log" PROVE logFiles[s] # "closed"
    BY <2>1, <2>3 DEF IInv, CleanupOrder, CleanupPcs, Streams, Conns
  <2> QED
    BY <2>2, <2>3 DEF NoUseAfterClose, Conns
<1> QED
  BY Invariance, <1>1, PTL

\* The directory "log" of an orderly exit holds every message of the session.
THEOREM CopyIsComplete == Spec => []CompleteCopy
<1>1. IInv => CompleteCopy
  BY DEF IInv
<1> QED
  BY Invariance, <1>1, PTL

-----------------------------------------------------------------------------
\* Every step of tflog is a step of the abstract session or changes nothing
\* a session has.
LEMMA StepSimulation ==
    IInv /\ [Next]_vars => [Session!SessionNext]_(Session!svars)
<1> SUFFICES ASSUME IInv, [Next]_vars
             PROVE  Session!SessionNext \/ UNCHANGED Session!svars
  OBVIOUS
<1> USE DEF IInv, Session!SessionNext, Session!svars, vars, files, threads
<1>1. ASSUME UNCHANGED <<recorded, logDir, copied>>,
             \/ proc = "up" /\ proc' # "up"
             \/ UNCHANGED proc /\ (logFiles'["mav"] = "closed" <=> logFiles["mav"] = "closed")
      PROVE  Session!SessionNext \/ UNCHANGED Session!svars
  BY <1>1 DEF Session!End
<1>2. ASSUME NEW s \in Streams, proc = "up", UNCHANGED <<logDir, copied>>,
             logFiles["mav"] # "closed", logFiles'["mav"] # "closed",
             \/ recorded' = [recorded EXCEPT ![s] = @ + 1] /\ UNCHANGED proc
             \/ UNCHANGED recorded /\ (proc' = "killed" \/ UNCHANGED proc)
      PROVE  Session!SessionNext \/ UNCHANGED Session!svars
  <2>1. CASE recorded' = [recorded EXCEPT ![s] = @ + 1] /\ UNCHANGED proc
    BY <1>2, <2>1 DEF Session!Record
  <2>2. CASE UNCHANGED recorded /\ (proc' = "killed" \/ UNCHANGED proc)
    BY <1>1, <1>2, <2>2
  <2> QED
    BY <1>2, <2>1, <2>2
<1>3. ASSUME NEW c \in Conns, RecvNext(c)
      PROVE  Session!SessionNext \/ UNCHANGED Session!svars
  <2>1. proc = "up" /\ logFiles["mav"] # "closed"
    <3>1. mpc \notin CleanupPcs
      BY <1>3, QuietReceivers
    <3>2. logFiles["mav"] # "closed"
      BY <3>1 DEF CleanupOrder, CleanupPcs
    <3> QED
      BY <1>3, <3>2 DEF RecvNext, RecvAt, TestRecvRunning, RecvNothing, RecvData,
         RecvError, ForwardToQgc, LogMav, ForwardToMav, LogTracker, CallExit, FinishExit
  <2>2. CASE c = "mav" /\ LogMav
    BY <1>2, <2>1, <2>2 DEF LogMav, WriteRecord, Streams
  <2>3. CASE c = "tracker" /\ LogTracker
    <3>1. logFiles'["mav"] = logFiles["mav"]
      BY <2>3 DEF LogTracker, TypeOK, Streams
    <3> QED
      BY <1>2, <2>1, <2>3, <3>1 DEF LogTracker, WriteRecord, Streams
  <2>4. CASE \/ TestRecvRunning(c) \/ RecvNothing(c) \/ RecvData(c) \/ RecvError(c)
             \/ c = "mav" /\ ForwardToQgc
             \/ c = "qgc" /\ ForwardToMav
             \/ CallExit(c) \/ FinishExit(c)
    BY <1>1, <2>1, <2>4
    DEF TestRecvRunning, RecvNothing, RecvData, RecvError, ForwardToQgc, ForwardToMav,
        WriteToMav, CallExit, FinishExit
  <2> QED
    BY <1>3, <2>2, <2>3, <2>4 DEF RecvNext
<1>4. CASE MainNext
  <2>1. CASE CloseLogs
    <3>1. CASE CloseLog("mav", "close_mav", "close_tracker")
      BY <3>1 DEF CloseLog, MainAt, Session!Close, CleanupOrder, TypeOK, Streams
    <3>2. CASE CloseLog("tracker", "close_tracker", "clear_log")
      BY <1>1, <3>2 DEF CloseLog, TypeOK, Streams
    <3> QED
      BY <2>1, <3>1, <3>2 DEF CloseLogs
  <2>2. CASE ClearLogDir
    BY <2>2 DEF ClearLogDir, MainAt, Session!Clear, CleanupOrder
  <2>3. CASE CopyLogs
    BY <2>3 DEF CopyLogs, MainAt, Session!Publish, CleanupOrder
  <2>4. CASE ~CloseLogs /\ ~ClearLogDir /\ ~CopyLogs
    BY <1>1, <1>4, <2>4
    DEF MainNext, OpenJoystick, ConnectMav, JoinGroup, Open, BindQgc, StartReceivers,
      StartReceiver, CheckRunning, PollKey, MainGoes, HandleJoystick, WriteToMav,
      StopReceivers, StopReceiver, JoinReceiver, CloseFds, ExitMain, MainAt
  <2> QED
    BY <2>1, <2>2, <2>3, <2>4
<1>5. CASE Sigint \/ PeerCloses \/ Ended \/ UNCHANGED vars
  BY <1>1, <1>5 DEF Sigint, PeerCloses, Ended
<1> QED
  BY <1>3, <1>4, <1>5 DEF Next

\* tflog implements LogSession.
THEOREM Refinement == Spec => RefinesSession
<1>1. Init => Session!SessionInit
  BY DEF Init, Session!SessionInit
<1> QED
  BY Invariance, StepSimulation, <1>1, PTL DEF Spec, RefinesSession, Session!SessionSpec
=============================================================================
