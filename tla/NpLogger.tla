------------------------------- MODULE NpLogger -------------------------------
(***************************************************************************)
(* The log files of the tracking system (npoint_logger.c) and the two      *)
(* handlers of main.c that use them: the first packet that names a body    *)
(* opens a file per rigid body, every packet then adds a line per body.    *)
(*                                                                         *)
(* A packet does not name its bodies.  Marker sets have names, and the     *)
(* body at an index is taken to be the marker set at that index.  The      *)
(* marker set "all" belongs to no body and may stand anywhere.             *)
(***************************************************************************)
EXTENDS Naturals, Sequences, FiniteSets, SequencesExt

CONSTANTS Bodies,     \* names of rigid bodies
          MaxPackets  \* bound: packets received

ASSUME ConstantsAssumption == /\ {"all", "loose", ""} \cap Bodies = {}
                              /\ IsFiniteSet(Bodies)
                              /\ MaxPackets \in Nat

\* What the tracking system sends: the names of its marker sets, and the
\* bodies in the order of theirs.  A marker set of loose markers has no body.
BodyLists == UNION {{s \in [1..n -> Bodies] : IsInjective(s)} : n \in 0..Cardinality(Bodies)}

Packets ==
    UNION {{[sets |-> InsertAt(bs \o loose, k, "all"), bodies |-> bs] :
              k \in 1..Len(bs \o loose) + 1} :
           bs \in BodyLists, loose \in {<<>>, <<"loose">>}}

VARIABLES
    proc,         \* the process is "up", or has "crashed"
    packets,      \* packets received
    packet,       \* the packet that is handled
    i,            \* index of the loop over its bodies, 0 between packets
    files_opened, \* npl->files_opened
    list,         \* npl->list: its capacity and its files
    seen,         \* bodies before "all" handled while the files were open
    lines         \* lines that each file holds of each body

vars == <<proc, packets, packet, i, files_opened, list, seen, lines>>

Names == Bodies \cup {"loose", ""}

NoPacket == [sets |-> <<>>, bodies |-> <<>>]

Init == /\ proc = "up"
        /\ packets = 0
        /\ packet = NoPacket
        /\ i = 0
        /\ files_opened = FALSE
        /\ list = [len |-> 0, file |-> <<>>]
        /\ seen = [b \in Bodies |-> 0]
        /\ lines = [n \in Names |-> [b \in Bodies |-> 0]]

-----------------------------------------------------------------------------
(* np_logger_create_and_open_files                                         *)

\* np_packet_unpack_mocap_data_get_rigidBody_nameList goes through the marker
\* sets until it has as many names as there are bodies: a list of length 0 is
\* never full.
Visited(p) ==
    LET named(m) == Cardinality({k \in 1..m : p.sets[k] # "all"})
        full     == {m \in DOMAIN p.sets : named(m) >= Len(p.bodies)}
    IN  IF p.bodies = <<>> \/ full = {} THEN DOMAIN p.sets ELSE 1..Min(full)

Named(p) == {k \in Visited(p) : p.sets[k] # "all"}

\* A name goes to the place of its marker set, which the caller then reads up
\* to the number of names: "all" leaves an empty name, and a name behind it
\* may be lost.
NameList(p) == [k \in 1..Cardinality(Named(p)) |-> IF k \in Named(p) THEN p.sets[k] ELSE ""]

\* A name was written behind the end of the list of strings.
Overflows(p) == \E k \in Named(p) : k > Len(p.bodies)

\* utils_add_file_to_file_list refuses files beyond the capacity.  A file
\* that cannot be opened keeps its place in the list.
OpenList(p) ==
    LET n == Len(p.bodies)
    IN  \E fs \in [1..n -> {"open", "null"}] :
           list' = [len  |-> n,
                    file |-> [k \in 1..n |-> [name |-> NameList(p)[k], fs |-> fs[k]]]]

\* npc_tracker_mocap_data_log_handler, invoked for each packet first.  What
\* writing behind the list does is undefined: a crash, or nothing.
ReceivePacket ==
    /\ proc = "up"
    /\ i = 0
    /\ packets < MaxPackets
    /\ packets' = packets + 1
    /\ \E p \in Packets :
          /\ packet' = p
          /\ \/ files_opened /\ UNCHANGED <<proc, files_opened, list>>
             \/ /\ ~files_opened
                /\ NameList(p) = <<>>
                /\ list' = [len |-> Len(p.bodies), file |-> <<>>]
                /\ UNCHANGED <<proc, files_opened>>
             \/ /\ ~files_opened
                /\ NameList(p) # <<>>
                /\ files_opened' = TRUE
                /\ OpenList(p)
                /\ UNCHANGED proc
             \/ /\ ~files_opened
                /\ Overflows(p)
                /\ proc' = "crashed"
                /\ UNCHANGED <<files_opened, list>>
          /\ i' = IF p.bodies = <<>> THEN 0 ELSE 1
    /\ UNCHANGED <<seen, lines>>

-----------------------------------------------------------------------------
(* np_logger_std_write_rigidBody                                           *)

\* Fault: the marker sets are counted without "all", the bodies are not.
rigidBody_name_next(p, index) == p.sets[IF index < Len(p.sets) THEN index + 1 ELSE index]

\* np_packet_unpack_mocap_data_get_rigidBody_name
rigidBody_name(p, index) == p.sets[index]

\* Fault: the last file of the list is never found.
find_file_short(name) ==
    {k \in 1..Len(list.file) - 1 :
       /\ list.file[k].name = name
       /\ \A j \in 1..(k - 1) : list.file[j].name # name}

\* utils_find_file_in_file_list: the first file of that name, if any.
find_file(name) ==
    {k \in DOMAIN list.file :
       /\ list.file[k].name = name
       /\ \A j \in 1..(k - 1) : list.file[j].name # name}

\* Up to that index there is no "all".
BeforeAll(p, index) == \A k \in 1..index : p.sets[k] # "all"

\* npc_tracker_rigid_body_log_handler: a body without a file is passed over,
\* a line for a file that could not be opened crashes the process.
WriteRigidBody ==
    /\ proc = "up"
    /\ i # 0
    /\ i' = IF i = Len(packet.bodies) THEN 0 ELSE i + 1
    /\ LET found == find_file(rigidBody_name(packet, i))
       IN  \/ found = {} /\ UNCHANGED <<proc, lines>>
           \/ \E k \in found :
                 /\ list.file[k].fs = "open"
                 /\ lines' = [lines EXCEPT ![list.file[k].name][packet.bodies[i]] = @ + 1]
                 /\ UNCHANGED proc
           \/ \E k \in found :
                 /\ list.file[k].fs = "null"
                 /\ proc' = "crashed"
                 /\ UNCHANGED lines
    /\ IF files_opened /\ BeforeAll(packet, i)
         THEN seen' = [seen EXCEPT ![packet.bodies[i]] = @ + 1]
         ELSE UNCHANGED seen
    /\ UNCHANGED <<packets, packet, files_opened, list>>

Finished == (proc = "crashed" \/ (packets = MaxPackets /\ i = 0)) /\ UNCHANGED vars

-----------------------------------------------------------------------------

Next == ReceivePacket \/ WriteRigidBody \/ Finished

Spec == Init /\ [][Next]_vars

-----------------------------------------------------------------------------
(* Properties.                                                             *)

\* "writes rigid body data to the right logging file" (npoint_logger.h:53): a
\* file holds lines of the body it is named after and of no other, at least
\* where each file was opened under the name of a body.
RightFile ==
    (\A k \in DOMAIN list.file : list.file[k].name \in Bodies)
       => \A n \in Names, b \in Bodies : lines[n][b] > 0 => n = b

\* What the code does instead: a body before "all" is logged in its own file,
\* one behind it in the file of the body before it, whatever the order was of
\* the packet that opened the files (npoint_packet.c:563, 594).
FileOfLine ==
    [][\A n \in Names, b \in Bodies :
          lines'[n][b] > lines[n][b] =>
             IF BeforeAll(packet, i) THEN n = b
             ELSE i > 1 /\ n = packet.bodies[i - 1]]_lines

\* A body that has a file has in it one line for every packet in which it stood
\* before "all", whatever the other packets were like, and no line of another
\* body counts for one of its own.
NoLineLost ==
    proc = "up" =>
       \A k \in DOMAIN list.file :
          LET f == list.file[k]
          IN  f.name \in Bodies /\ f.fs = "open" => lines[f.name][f.name] = seen[f.name]
=============================================================================
