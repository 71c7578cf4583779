------------------------------- MODULE NpPacket -------------------------------
(***************************************************************************)
(* How npoint_packet.c takes a mocap data packet apart.                    *)
(*                                                                         *)
(* A packet is a sequence of cells: a cell is a 4-byte field, the id with  *)
(* its size, or a name with its terminating zero; a pointer is a position. *)
(* Lists are not delimited: whoever wants the element at an index skips    *)
(* the ones before it, each by the counts it holds.                        *)
(***************************************************************************)
EXTENDS Naturals, Sequences

MOCAP_DATA == "NPOINT_PACKET_ID_MOCAP_DATA"

-----------------------------------------------------------------------------
(* Skipping.                                                               *)

\* The pointer after n elements, each skipped by Skip.
SkipAll(Skip(_, _), p, ptr, n) ==
    LET after[i \in 0..n] == IF i = 0 THEN ptr ELSE Skip(p, after[i - 1])
    IN  after[n]

\* A name, the number of markers, the markers.
skip_markerSet(p, ptr) == ptr + 2 + 3 * p[ptr + 1]

skip_markerSets(p, ptr, n) == SkipAll(skip_markerSet, p, ptr, n)

skip_otherMarkers(p, ptr, n) == ptr + 3 * n

skip_rigidMarkers_markers(ptr, n)      == ptr + 3 * n
skip_rigidMarkers_marker_ids(ptr, n)   == ptr + n
skip_rigidMarkers_marker_sizes(ptr, n) == ptr + n

\* The markers, their ids, their sizes and the mean error.
skip_rigidMarkers(ptr, n) ==
    skip_rigidMarkers_marker_sizes(
        skip_rigidMarkers_marker_ids(skip_rigidMarkers_markers(ptr, n), n), n) + 1

\* Id, position, quaternion and the number of markers, the markers.
skip_rigidBody(p, ptr) == skip_rigidMarkers(ptr + 9, p[ptr + 8])

skip_rigidBodies(p, ptr, n) == SkipAll(skip_rigidBody, p, ptr, n)

\* An id, the number of bodies, the bodies.
skip_skeleton(p, ptr) ==
    SkipAll(LAMBDA q, at : at + 9 + 5 * q[at + 8] + 1, p, ptr + 2, p[ptr + 1])

skip_skeletons(p, ptr, n) == SkipAll(skip_skeleton, p, ptr, n)

skip_labeledMarker(p, ptr) == ptr + 5

skip_labeledMarkers(p, ptr, n) == SkipAll(skip_labeledMarker, p, ptr, n)

-----------------------------------------------------------------------------
(* Unpacking.                                                              *)

\* np_packet_unpack_mocap_data: where each list is and how long it is.  The
\* version is 3.0, which has skeletons and labeled markers.
unpack_mocap_data(p) ==
    LET ms == 3
        om == skip_markerSets(p, ms + 1, p[ms])
        rb == skip_otherMarkers(p, om + 1, p[om])
        sk == skip_rigidBodies(p, rb + 1, p[rb])
        lm == skip_skeletons(p, sk + 1, p[sk])
        latency == skip_labeledMarkers(p, lm + 1, p[lm])
    IN  [frame_nr       |-> p[2],
         nMarkerSets    |-> p[ms], markerSets     |-> ms + 1,
         nOtherMarkers  |-> p[om], otherMarkers   |-> om + 1,
         nRigidBodies   |-> p[rb], rigidBodies    |-> rb + 1,
         nSkeletons     |-> p[sk], skeletons      |-> sk + 1,
         nLabeledMarkers |-> p[lm], labeledMarkers |-> lm + 1,
         latency        |-> p[latency],
         endOfData      |-> p[latency + 3]]

marker(p, list, index) == LET ptr == list + 3 * index
                          IN  <<p[ptr], p[ptr + 1], p[ptr + 2]>>

markerSet(p, md, index) ==
    LET ptr == skip_markerSets(p, md.markerSets, index)
    IN  [index    |-> index,
         name     |-> p[ptr],
         nMarkers |-> p[ptr + 1],
         markers  |-> ptr + 2]

otherMarker(p, md, index) == marker(p, md.otherMarkers, index)

\* Fault: the sizes are not skipped.
rigidBody_mean_error_noSizes(p, rb) ==
    p[skip_rigidMarkers_marker_ids(
          skip_rigidMarkers_markers(rb.rigidMarkers, rb.nRigidMarkers),
          rb.nRigidMarkers)]

rigidBody_mean_error(p, rb) ==
    p[skip_rigidMarkers_marker_sizes(
          skip_rigidMarkers_marker_ids(
              skip_rigidMarkers_markers(rb.rigidMarkers, rb.nRigidMarkers),
              rb.nRigidMarkers),
          rb.nRigidMarkers)]

rigidBody(p, md, index) ==
    LET ptr == skip_rigidBodies(p, md.rigidBodies, index)
        rb  == [index         |-> index,
                id            |-> p[ptr],
                pos           |-> marker(p, ptr + 1, 0),
                q             |-> SubSeq(p, ptr + 4, ptr + 7),
                nRigidMarkers |-> p[ptr + 8],
                rigidMarkers  |-> ptr + 9]
    IN  [rb |-> rb, meanError |-> rigidBody_mean_error(p, rb)]

rigidMarker_marker_id(p, rb, index) ==
    p[skip_rigidMarkers_markers(rb.rigidMarkers, rb.nRigidMarkers) + index]

rigidMarker_marker_size(p, rb, index) ==
    p[skip_rigidMarkers_marker_ids(
          skip_rigidMarkers_markers(rb.rigidMarkers, rb.nRigidMarkers),
          rb.nRigidMarkers) + index]

rigidMarker(p, rb, index) ==
    [m    |-> marker(p, rb.rigidMarkers, index),
     id   |-> rigidMarker_marker_id(p, rb, index),
     size |-> rigidMarker_marker_size(p, rb, index)]

\* Fault: the id is not skipped before the position.
labeledMarker_noId(p, md, index) ==
    LET ptr == skip_labeledMarkers(p, md.labeledMarkers, index)
    IN  [id |-> p[ptr], m |-> marker(p, ptr, 0), size |-> p[ptr + 3]]

labeledMarker(p, md, index) ==
    LET ptr == skip_labeledMarkers(p, md.labeledMarkers, index)
    IN  [id |-> p[ptr], m |-> marker(p, ptr + 1, 0), size |-> p[ptr + 4]]
=============================================================================
