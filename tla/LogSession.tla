----------------------------- MODULE LogSession -----------------------------
(***************************************************************************)
(* What a session of tflog promises about its log files, with no threads,  *)
(* sockets or signals in it.  Records are appended to the log streams      *)
(* while the session is recording; then the session is closed and never    *)
(* records again; only a closed session replaces what the directory "log"  *)
(* holds, and what it puts there is everything it recorded.  A session     *)
(* may end at any moment without having come that far.                     *)
(*                                                                         *)
(* Tflog implements this specification: see Tflog!Session.                 *)
(***************************************************************************)
EXTENDS Naturals

CONSTANT Streams              \* the groups of log files a session writes

VARIABLES phase,              \* "recording", "closed" or "ended"
          recorded,           \* the records written to each stream
          logDir,             \* what the directory "log" holds
          copied              \* the records of each stream found in "log"

svars == <<phase, recorded, logDir, copied>>

SessionInit == /\ phase = "recording"
               /\ recorded = [s \in Streams |-> 0]
               /\ logDir = "previous"
               /\ copied = [s \in Streams |-> 0]

\* One record reaches a log file.
Record(s) == /\ phase = "recording"
             /\ recorded' = [recorded EXCEPT ![s] = @ + 1]
             /\ UNCHANGED <<phase, logDir, copied>>

Close == /\ phase = "recording"
         /\ phase' = "closed"
         /\ UNCHANGED <<recorded, logDir, copied>>

\* The files of the previous session are removed, or some of them stay.
Clear == /\ phase = "closed"
         /\ logDir = "previous"
         /\ logDir' = "cleared"
         /\ UNCHANGED <<phase, recorded, copied>>

\* Every file of the session is copied, or something is missing.
Publish == /\ phase = "closed"
           /\ logDir = "cleared"
           /\ \/ logDir' = "complete" /\ copied' = recorded
              \/ logDir' = "partial" /\ UNCHANGED copied
           /\ UNCHANGED <<phase, recorded>>

End == /\ phase # "ended"
       /\ phase' = "ended"
       /\ UNCHANGED <<recorded, logDir, copied>>

SessionNext == \/ \E s \in Streams : Record(s)
               \/ Close
               \/ Clear
               \/ Publish
               \/ End

SessionSpec == SessionInit /\ [][SessionNext]_svars
=============================================================================
