-------------------------------- MODULE NpConn --------------------------------
(***************************************************************************)
(* np_conn_parse_packet (npoint_conn.c): a packet of the tracking system   *)
(* is unpacked and handed to the handlers piece by piece.                  *)
(*                                                                         *)
(* The packets are those that the tracking system makes of a frame.  Only  *)
(* the counts of a frame matter: every cell names itself, so that a cell   *)
(* read in the place of another one shows.                                 *)
(***************************************************************************)
EXTENDS NpPacket, SequencesExt

CONSTANTS MaxSets,      \* bound: marker sets, rigid bodies, others
          MaxMarkers,   \* bound: markers of each
          MaxSkeletons  \* bound: skeletons

ASSUME BoundsAssumption ==
    MaxSets \in Nat /\ MaxMarkers \in Nat /\ MaxSkeletons \in Nat

\* How many of everything a frame holds: for each marker set, rigid body and
\* body of each skeleton the number of its markers.
Counts == UNION {[1..n -> 0..MaxMarkers] : n \in 0..MaxSets}

Frames == [markerSets : Counts, otherMarkers : 0..MaxSets, rigidBodies : Counts,
           skeletons : UNION {[1..n -> Counts] : n \in 0..MaxSkeletons},
           labeledMarkers : 0..MaxSets]

-----------------------------------------------------------------------------
(* The packet of a frame, as the tracking system lays it out.              *)

Each(Cells(_), n) == FlattenSeq([i \in 1..n |-> Cells(i)])

Cells3(tag) == <<tag \o <<"x">>, tag \o <<"y">>, tag \o <<"z">> >>

BodyCells(tag, n) ==
    << tag \o <<"id">> >> \o Cells3(tag) \o [k \in 1..4 |-> tag \o <<"q", k>>]
    \o <<n>>
    \o Each(LAMBDA j : Cells3(tag \o <<"marker", j>>), n)
    \o [j \in 1..n |-> tag \o <<"marker", j, "id">>]
    \o [j \in 1..n |-> tag \o <<"marker", j, "size">>]
    \o << tag \o <<"error">> >>

Packet(frame) ==
    LET sets == Len(frame.markerSets)
        bodies == Len(frame.rigidBodies)
        skeletons == Len(frame.skeletons)
    IN  <<MOCAP_DATA, "frame_nr", sets>>
        \o Each(LAMBDA i : << <<"set", i, "name">>, frame.markerSets[i]>>
                           \o Each(LAMBDA j : Cells3(<<"set", i, j>>),
                                   frame.markerSets[i]), sets)
        \o <<frame.otherMarkers>>
        \o Each(LAMBDA i : Cells3(<<"other", i>>), frame.otherMarkers)
        \o <<bodies>>
        \o Each(LAMBDA i : BodyCells(<<"body", i>>, frame.rigidBodies[i]), bodies)
        \o <<skeletons>>
        \o Each(LAMBDA i : << <<"skeleton", i>>, Len(frame.skeletons[i])>>
                           \o Each(LAMBDA j : BodyCells(<<"skeleton", i, j>>,
                                                        frame.skeletons[i][j]),
                                   Len(frame.skeletons[i])), skeletons)
        \o <<frame.labeledMarkers>>
        \o Each(LAMBDA i : << <<"labeled", i, "id">> >> \o Cells3(<<"labeled", i>>)
                           \o << <<"labeled", i, "size">> >>, frame.labeledMarkers)
        \o <<"latency", "timecode", "timecodeSub", "endOfData">>

-----------------------------------------------------------------------------

VARIABLES
    frame,  \* what the tracking system has sent
    packet, \* the bytes received: its packet, or one with another id
    md,     \* npoint_mocap_data_t
    pc,     \* where np_conn_parse_packet is
    i,      \* index of its loops
    calls   \* the handlers invoked, with what they can read of the packet

vars == <<frame, packet, md, pc, i, calls>>

nothing == [frame_nr |-> "none"]

Init == /\ frame \in Frames
        /\ \/ packet = Packet(frame)
           \/ packet = <<"NPOINT_PACKET_ID_DATA_DESCRIPTIONS">>
        /\ md = nothing
        /\ pc = "unpack"
        /\ i = 0
        /\ calls = <<>>

Unpack ==
    /\ pc = "unpack"
    /\ IF packet[1] # MOCAP_DATA
         THEN pc' = "done" /\ UNCHANGED <<md, calls>>
         ELSE /\ md' = unpack_mocap_data(packet)
              /\ calls' = << <<"mocap_data", md'.frame_nr, md'.latency,
                               md'.endOfData>> >>
              /\ pc' = "markerSets"
    /\ UNCHANGED <<frame, packet, i>>

\* The elements of a list of n, as an array.
Array(At(_), n) == [k \in 1..n |-> At(k - 1)]

InvokeMarkerSetHandlers ==
    /\ pc = "markerSets"
    /\ i < md.nMarkerSets
    /\ LET ms == markerSet(packet, md, i)
       IN  calls' = Append(calls,
                      <<"marker_set", ms.name,
                        Array(LAMBDA k : marker(packet, ms.markers, k), ms.nMarkers)>>)
    /\ i' = i + 1
    /\ UNCHANGED <<frame, packet, md, pc>>

MarkerSetsDone ==
    /\ pc = "markerSets"
    /\ i >= md.nMarkerSets
    /\ i' = 0
    /\ pc' = "rigidBodies"
    /\ UNCHANGED <<frame, packet, md, calls>>

InvokeRigidBodyHandlers ==
    /\ pc = "rigidBodies"
    /\ i < md.nRigidBodies
    /\ LET b == rigidBody(packet, md, i)
       IN  calls' = Append(calls,
                      <<"rigid_body", b.rb.id, b.rb.pos, b.rb.q, b.meanError,
                        Array(LAMBDA k : rigidMarker(packet, b.rb, k),
                              b.rb.nRigidMarkers)>>)
    /\ i' = i + 1
    /\ UNCHANGED <<frame, packet, md, pc>>

RigidBodiesDone ==
    /\ pc = "rigidBodies"
    /\ i >= md.nRigidBodies
    /\ pc' = "done"
    /\ UNCHANGED <<frame, packet, md, i, calls>>

Finished == pc = "done" /\ UNCHANGED vars

Next == \/ Unpack
        \/ InvokeMarkerSetHandlers \/ MarkerSetsDone
        \/ InvokeRigidBodyHandlers \/ RigidBodiesDone
        \/ Finished

Spec == Init /\ [][Next]_vars

-----------------------------------------------------------------------------
(* Properties.                                                             *)

\* What the handlers should be told of a frame.
SetCall(j) == <<"marker_set", <<"set", j, "name">>,
                [k \in 1..frame.markerSets[j] |-> Cells3(<<"set", j, k>>)]>>

BodyCall(j) ==
    LET tag == <<"body", j>>
    IN  <<"rigid_body", tag \o <<"id">>, Cells3(tag),
          [k \in 1..4 |-> tag \o <<"q", k>>], tag \o <<"error">>,
          [k \in 1..frame.rigidBodies[j] |->
             [m    |-> Cells3(tag \o <<"marker", k>>),
              id   |-> tag \o <<"marker", k, "id">>,
              size |-> tag \o <<"marker", k, "size">>]]>>

Expected == << <<"mocap_data", "frame_nr", "latency", "endOfData">> >>
            \o [j \in 1..Len(frame.markerSets) |-> SetCall(j)]
            \o [j \in 1..Len(frame.rigidBodies) |-> BodyCall(j)]

\* Handlers are told what the frame holds, element by element and nothing
\* else, whatever lists come before: a packet that is none of mocap data is
\* dropped, and a mocap packet is handled to its end.
HandlersSeeFrame ==
    /\ packet[1] # MOCAP_DATA => calls = <<>>
    /\ IsPrefix(calls, Expected)
    /\ pc = "done" /\ packet[1] = MOCAP_DATA => calls = Expected

\* The lists no handler is invoked for can be read, too.
OtherListsReadable ==
    pc = "markerSets" =>
       /\ Array(LAMBDA k : otherMarker(packet, md, k), md.nOtherMarkers)
             = [k \in 1..frame.otherMarkers |-> Cells3(<<"other", k>>)]
       /\ Array(LAMBDA k : labeledMarker(packet, md, k), md.nLabeledMarkers)
             = [k \in 1..frame.labeledMarkers |->
                  [id   |-> <<"labeled", k, "id">>,
                   m    |-> Cells3(<<"labeled", k>>),
                   size |-> <<"labeled", k, "size">>]]
=============================================================================
