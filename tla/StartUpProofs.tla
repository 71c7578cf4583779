---------------------------- MODULE StartUpProofs ----------------------------
(***************************************************************************)
(* A body that stands before the marker set "all" has its line in its own  *)
(* file, one behind it in the file of the body before it, for any set of   *)
(* bodies, whatever bodies and marker sets each packet holds and in        *)
(* whatever order.                                                         *)
(*                                                                         *)
(* The clean-up of uio_manager.c closes connections by the numbers that    *)
(* the configuration keeps, failed connections among them.  It hits no log *)
(* file and leaves nothing open, for any number of files and of            *)
(* descriptors.                                                            *)
(***************************************************************************)
EXTENDS StartUp, FiniteSetTheorems, SequenceTheorems, TLAPS

-----------------------------------------------------------------------------
(* Packets.                                                                *)

SetNames == Bodies \cup {"loose", "all"}

\* The marker set at the index of a body bears its name up to "all", and the
\* name of the body before it from there on.
Matches(p) ==
    /\ p.bodies \in Seq(Bodies) /\ IsInjective(p.bodies)
    /\ p.sets \in Seq(SetNames)
    /\ Len(p.bodies) <= Len(p.sets)
    /\ \A k \in 1..Len(p.bodies) :
          IF BeforeAll(p, k) THEN p.sets[k] = p.bodies[k]
          ELSE p.sets[k] = "all" \/ (k > 1 /\ p.sets[k] = p.bodies[k - 1])

\* "all" is one of the marker sets, and no two have the same name.
HasAll(p) ==
    /\ IsInjective(p.sets)
    /\ \E a \in 1..Len(p.sets) : p.sets[a] = "all"
    /\ Len(p.bodies) < Len(p.sets)

\* What InsertAt does.
LEMMA InsertAtShape ==
  ASSUME NEW S, NEW t \in Seq(S), NEW e \in S, NEW k \in 1..Len(t) + 1
  PROVE  /\ InsertAt(t, k, e) \in Seq(S)
         /\ Len(InsertAt(t, k, e)) = Len(t) + 1
         /\ \A j \in 1..Len(t) + 1 :
               InsertAt(t, k, e)[j] = IF j < k THEN t[j] ELSE IF j = k THEN e ELSE t[j - 1]
<1> DEFINE before == SubSeq(t, 1, k - 1)
           behind == SubSeq(t, k, Len(t))
<1>1. Len(t) \in Nat /\ k \in Nat /\ k >= 1 /\ k <= Len(t) + 1
  OBVIOUS
<1>2. /\ before \in Seq(S) /\ Len(before) = k - 1
      /\ \A j \in 1..k - 1 : before[j] = t[j]
  BY <1>1
<1>3. /\ behind \in Seq(S) /\ Len(behind) = Len(t) - k + 1
      /\ \A j \in 1..Len(t) - k + 1 : behind[j] = t[k + j - 1]
  BY <1>1
<1>4. InsertAt(t, k, e) = (before \o <<e>>) \o behind
  BY DEF InsertAt
<1> HIDE DEF before, behind
<1>5. /\ before \o <<e>> \in Seq(S) /\ Len(before \o <<e>>) = k
      /\ \A j \in 1..k : (before \o <<e>>)[j] = IF j < k THEN t[j] ELSE e
  BY <1>1, <1>2
<1> DEFINE half == before \o <<e>>
<1>6. half \in Seq(S) /\ Len(half) = k
  BY <1>5
<1>7. \A j \in 1..k : half[j] = IF j < k THEN t[j] ELSE e
  BY <1>5
<1>8. InsertAt(t, k, e) = half \o behind
  BY <1>4
<1> HIDE DEF half
<1>9. /\ half \o behind \in Seq(S) /\ Len(half \o behind) = Len(t) + 1
      /\ \A j \in 1..Len(t) + 1 :
            (half \o behind)[j] = IF j <= k THEN half[j] ELSE behind[j - k]
  BY <1>1, <1>3, <1>6
<1>10. ASSUME NEW j \in 1..Len(t) + 1
       PROVE  (half \o behind)[j] = IF j < k THEN t[j] ELSE IF j = k THEN e ELSE t[j - 1]
  <2>1. CASE j <= k
    <3>1. j \in 1..k
      BY <1>1, <2>1
    <3> QED
      BY <1>1, <1>7, <1>9, <2>1, <3>1
  <2>2. CASE j > k
    <3>1. j - k \in 1..Len(t) - k + 1 /\ k + (j - k) - 1 = j - 1
      BY <1>1, <2>2
    <3>2. behind[j - k] = t[j - 1]
      BY <1>3, <3>1
    <3> QED
      BY <1>1, <1>9, <2>2, <3>2
  <2>3. j <= k \/ j > k
    BY <1>1
  <2> QED
    BY <2>1, <2>2, <2>3, Zenon
<1> QED
  BY <1>8, <1>9, <1>10

\* Bodies and marker sets of a packet are at the same index up to "all".
LEMMA PacketMatches ==
  ASSUME NEW p \in Packets
  PROVE  Matches(p) /\ HasAll(p)
<1>1. PICK bs \in BodyLists, loose \in {<<>>, <<"loose">>} :
         \E k \in 1..Len(bs \o loose) + 1 :
            p = [sets   |-> InsertAt(bs \o loose, k, "all"), bodies |-> bs]
  BY DEF Packets
<1>2. bs \in Seq(Bodies) /\ IsInjective(bs)
  BY <1>1 DEF BodyLists
<1>3. bs \in Seq(SetNames) /\ loose \in Seq(SetNames)
  <2>1. bs \in Seq(SetNames)
    BY <1>2, SeqMonotonic DEF SetNames
  <2>2. <<>> \in Seq(SetNames) /\ <<"loose">> \in Seq(SetNames)
    BY DEF SetNames
  <2> QED
    BY <2>1, <2>2
<1>4. /\ bs \o loose \in Seq(SetNames)
      /\ Len(bs \o loose) = Len(bs) + Len(loose)
      /\ \A k \in 1..Len(bs) + Len(loose) :
            (bs \o loose)[k] = IF k <= Len(bs) THEN bs[k] ELSE loose[k - Len(bs)]
  BY <1>3, ConcatProperties
<1>5. PICK t \in Seq(SetNames) : t = bs \o loose
  BY <1>4
<1>6. /\ Len(bs) \in Nat /\ Len(t) \in Nat /\ Len(bs) <= Len(t)
      /\ \A k \in 1..Len(bs) : t[k] = bs[k] /\ bs[k] \in Bodies
      /\ \A k \in 1..Len(t) : k > Len(bs) => k = Len(bs) + 1 /\ t[k] = "loose"
  BY <1>2, <1>3, <1>4, <1>5
<1>7. \A j, k \in 1..Len(bs) : bs[j] = bs[k] => j = k
  BY <1>2 DEF IsInjective
<1>8. /\ \A k \in 1..Len(t) : t[k] # "all"
      /\ \A j, k \in 1..Len(t) : t[j] = t[k] => j = k
  <2>1. "loose" \notin Bodies /\ "all" \notin Bodies
    BY ConstantsAssumption
  <2> QED
    BY <1>6, <1>7, <2>1
<1>9. PICK a \in 1..Len(t) + 1 : p = [sets |-> InsertAt(t, a, "all"), bodies |-> bs]
  BY <1>1, <1>5
<1> DEFINE s == InsertAt(t, a, "all")
<1>10. "all" \in SetNames
  BY DEF SetNames
<1>11. /\ s \in Seq(SetNames)
       /\ Len(s) = Len(t) + 1
       /\ \A j \in 1..Len(t) + 1 :
             s[j] = IF j < a THEN t[j] ELSE IF j = a THEN "all" ELSE t[j - 1]
  BY <1>10, InsertAtShape
<1>12. p.sets = s /\ p.bodies = bs
  BY <1>9
<1> HIDE DEF s
<1>120. ASSUME NEW k \in 1..Len(t) + 1, k # a
        PROVE  /\ (IF k < a THEN k ELSE k - 1) \in 1..Len(t)
               /\ s[k] = t[IF k < a THEN k ELSE k - 1]
  <2>1. (IF k < a THEN k ELSE k - 1) \in 1..Len(t)
    BY <1>6, <1>120
  <2>2. s[k] = t[IF k < a THEN k ELSE k - 1]
    BY <1>11, <1>120
  <2> QED
    BY <2>1, <2>2
<1>13. ASSUME NEW k \in 1..Len(t) + 1
       PROVE  s[k] = "all" <=> k = a
  <2>1. CASE k = a
    <3>1. ~(a < a)
      BY <1>6
    <3> QED
      BY <1>11, <2>1, <3>1
  <2>2. CASE k # a
    BY <1>8, <1>120, <2>2
  <2> QED
    BY <2>1, <2>2
<1>14. HasAll(p)
  <2>1. ASSUME NEW j \in 1..Len(t) + 1, NEW k \in 1..Len(t) + 1, s[j] = s[k]
        PROVE  j = k
    <3>1. CASE j = a \/ k = a
      BY <1>13, <2>1, <3>1
    <3>2. CASE j # a /\ k # a
      <4>1. (IF j < a THEN j ELSE j - 1) = (IF k < a THEN k ELSE k - 1)
        BY <1>8, <1>120, <2>1, <3>2
      <4> QED
        BY <1>6, <3>2, <4>1
    <3> QED
      BY <3>1, <3>2
  <2>2. DOMAIN s = 1..Len(t) + 1
    BY <1>11
  <2>3. IsInjective(s)
    BY <2>1, <2>2 DEF IsInjective
  <2> QED
    BY <1>6, <1>11, <1>12, <1>13, <2>3 DEF HasAll
<1>15. ASSUME NEW k \in 1..Len(bs)
       PROVE  IF BeforeAll(p, k) THEN s[k] = bs[k]
              ELSE s[k] = "all" \/ (k > 1 /\ s[k] = bs[k - 1])
  <2>1. BeforeAll(p, k) <=> k < a
    BY <1>6, <1>12, <1>13 DEF BeforeAll
  <2>2. CASE k < a
    <3>1. k \in 1..Len(t) + 1 /\ k # a
      BY <1>6, <2>2
    <3>2. s[k] = t[k]
      BY <1>120, <2>2, <3>1
    <3> QED
      BY <1>6, <2>1, <2>2, <3>2
  <2>3. CASE k = a
    BY <1>6, <1>13, <2>1, <2>3
  <2>4. CASE k > a
    <3>1. k > 1 /\ k - 1 \in 1..Len(bs)
      BY <1>6, <2>4
    <3>2. s[k] = t[k - 1]
      BY <1>6, <1>11, <2>4
    <3> QED
      BY <1>6, <2>1, <2>4, <3>1, <3>2
  <2> QED
    BY <1>6, <2>2, <2>3, <2>4
<1> QED
  BY <1>2, <1>6, <1>11, <1>12, <1>14, <1>15 DEF Matches

\* The list of names is that of the marker sets, with an empty name for "all":
\* it is full when as many other marker sets have been read as there are bodies.
LEMMA NameListIsSets ==
  ASSUME NEW p, Matches(p), HasAll(p), NEW k \in 1..Len(p.bodies)
  PROVE  NameList(p)[k] = IF p.sets[k] = "all" THEN "" ELSE p.sets[k]
<1> DEFINE n == Len(p.bodies)
           len == Len(p.sets)
           named(m) == Cardinality({j \in 1..m : p.sets[j] # "all"})
           full == {m \in DOMAIN p.sets : named(m) >= n}
<1>1. /\ n \in Nat /\ n > 0 /\ p.bodies # <<>>
      /\ DOMAIN p.sets = 1..len /\ len \in Nat /\ n < len
  BY DEF Matches, HasAll
<1>2. PICK a \in 1..len : p.sets[a] = "all"
  BY DEF HasAll
<1>3. \A j \in 1..len : p.sets[j] = "all" <=> j = a
  BY <1>1, <1>2 DEF HasAll, IsInjective
<1>4. ASSUME NEW m \in 1..len
      PROVE  /\ {j \in 1..m : p.sets[j] # "all"} = (1..m) \ {a}
             /\ named(m) = IF m < a THEN m ELSE m - 1
  <2>1. {j \in 1..m : p.sets[j] # "all"} = (1..m) \ {a}
    BY <1>1, <1>3
  <2>2. m \in Nat /\ m >= 1
    BY <1>1
  <2>3. IsFiniteSet(1..m) /\ Cardinality(1..m) = m
    BY <2>2, FS_Interval
  <2>4. Cardinality((1..m) \ {a}) = IF a \in 1..m THEN m - 1 ELSE m
    BY <2>3, FS_RemoveElement
  <2>5. a \in 1..m <=> ~(m < a)
    BY <1>1, <2>2
  <2> QED
    BY <2>1, <2>4, <2>5
<1> DEFINE last == IF n < a THEN n ELSE n + 1
<1>5. last \in 1..len /\ n <= last
  BY <1>1
<1>6. last \in full /\ \A m \in full : last <= m
  <2>1. \A m \in 1..len : m \in full <=> (IF m < a THEN m ELSE m - 1) >= n
    BY <1>1, <1>4
  <2> HIDE DEF full
  <2>2. \A m \in full : m \in 1..len
    BY <1>1 DEF full
  <2> QED
    BY <1>1, <1>5, <2>1, <2>2
<1>7. Min(full) = last
  <2> HIDE DEF n, last, full
  <2>1. \A m \in full : (\A j \in full : m <= j) => m = last
    <3>1. \A m \in full : m \in Nat
      BY <1>1 DEF full
    <3> QED
      BY <1>6, <3>1
  <2>2. \E m \in full : \A j \in full : m <= j
    BY <1>6
  <2> QED
    BY <2>1, <2>2 DEF Min
<1>8. Visited(p) = 1..last
  BY <1>1, <1>6, <1>7 DEF Visited
<1>9. Named(p) = (1..last) \ {a}
  BY <1>4, <1>5, <1>8 DEF Named
<1>10. Cardinality(Named(p)) = n
  <2>1. named(last) = IF last < a THEN last ELSE last - 1
    BY <1>4, <1>5
  <2>2. Named(p) = {j \in 1..last : p.sets[j] # "all"}
    BY <1>4, <1>5, <1>9
  <2> QED
    BY <1>1, <2>1, <2>2
<1>11. k \in Named(p) <=> p.sets[k] # "all"
  BY <1>1, <1>3, <1>5, <1>9
<1> QED
  BY <1>10, <1>11 DEF NameList

-----------------------------------------------------------------------------
(* The invariant.                                                          *)

Files == [name : Names, fs : {"open", "null"}]

\* Each file has a name of its own, once there are files.
DistinctFiles ==
    \A j, k \in DOMAIN list.file : list.file[j].name = list.file[k].name => j = k

\* Nothing is counted or written before there are files.
Untouched ==
    /\ list.file = <<>>
    /\ \A b \in Bodies : seen[b] = 0 /\ lines[b][b] = 0

\* What the handlers of a packet rest on.
LogInv ==
    /\ Matches(packet)
    /\ i \in 0..Len(packet.bodies)
    /\ files_opened \in BOOLEAN
    /\ list.file \in Seq(Files)
    /\ seen \in [Bodies -> Nat]
    /\ lines \in [Names -> [Bodies -> Nat]]
    /\ DistinctFiles
    /\ files_opened \/ Untouched
    /\ NoLineLost

\* Without a packet there is nothing to get wrong.
LEMMA InitLogInv == Init => LogInv
<1> SUFFICES ASSUME Init
             PROVE  LogInv
  OBVIOUS
<1>1. Matches(packet) /\ i \in 0..Len(packet.bodies)
  BY DEF Init, NoPacket, Matches, IsInjective
<1>2. /\ list.file = <<>>
      /\ lines = [n \in Names |-> [b \in Bodies |-> 0]]
      /\ seen = [b \in Bodies |-> 0]
  BY DEF Init
<1>3. NoLineLost /\ DistinctFiles
  BY <1>2 DEF NoLineLost, DistinctFiles
<1>4. lines \in [Names -> [Bodies -> Nat]] /\ seen \in [Bodies -> Nat]
  BY <1>2
<1>5. list.file \in Seq(Files)
  BY <1>2
<1>6. Untouched
  BY <1>2 DEF Untouched, Names
<1> QED
  BY <1>1, <1>3, <1>4, <1>5, <1>6 DEF Init, LogInv

\* The files are opened all at once, each under a name of its own.
LEMMA OpenListNames ==
  ASSUME NEW p, Matches(p), HasAll(p), OpenList(p)
  PROVE  /\ list'.file \in Seq(Files)
         /\ DistinctFiles'
<1> DEFINE n == Len(p.bodies)
           name(k) == IF p.sets[k] = "all" THEN "" ELSE p.sets[k]
<1>1. PICK fs \in [1..n -> {"open", "null"}] :
         list' = [len  |-> n,
                  file |-> [k \in 1..n |-> [name |-> NameList(p)[k], fs |-> fs[k]]]]
  BY DEF OpenList
<1>2. n \in Nat /\ n < Len(p.sets) /\ DOMAIN p.sets = 1..Len(p.sets) /\ Len(p.sets) \in Nat
  BY DEF Matches, HasAll
<1>3. list'.file = [k \in 1..n |-> [name |-> name(k), fs |-> fs[k]]]
  BY <1>1, NameListIsSets
<1>4. \A k \in 1..n : p.sets[k] \in SetNames
  BY <1>2 DEF Matches
<1>5. \A k \in 1..n : name(k) \in Names
  BY <1>4 DEF Names, SetNames
<1>6. \A j, k \in 1..n : name(j) = name(k) => j = k
  <2>1. "" \notin SetNames
    BY ConstantsAssumption DEF SetNames
  <2>2. \A j, k \in 1..n : p.sets[j] = p.sets[k] => j = k
    BY <1>2 DEF HasAll, IsInjective
  <2> QED
    BY <1>4, <2>1, <2>2
<1> HIDE DEF name
<1>7. \A k \in 1..n : [name |-> name(k), fs |-> fs[k]] \in Files
  BY <1>5 DEF Files
<1>8. list'.file \in Seq(Files)
  BY <1>2, <1>3, <1>7
<1>9. DistinctFiles'
  BY <1>2, <1>3, <1>6 DEF DistinctFiles
<1> QED
  BY <1>8, <1>9

\* A packet changes no line, and the files only if there are none yet.
LEMMA ReceiveLogInv == LogInv /\ ReceivePacket => LogInv'
<1> SUFFICES ASSUME LogInv, ReceivePacket
             PROVE  LogInv'
  OBVIOUS
<1>1. PICK p \in Packets :
         /\ packet' = p
         /\ \/ files_opened /\ UNCHANGED <<proc, files_opened, list>>
            \/ /\ ~files_opened
               /\ NameList(p) = <<>>
               /\ list' = [len |-> Len(p.bodies), file |-> <<>>]
               /\ UNCHANGED <<proc, files_opened>>
            \/ /\ ~files_opened
               /\ NameList(p) # <<>>
               /\ files_opened' = TRUE
               /\ OpenList(p)
               /\ UNCHANGED proc
            \/ /\ ~files_opened
               /\ Overflows(p)
               /\ proc' = "crashed"
               /\ UNCHANGED <<files_opened, list>>
         /\ i' = IF p.bodies = <<>> THEN 0 ELSE 1
  BY DEF ReceivePacket
<1>2. UNCHANGED <<seen, lines>>
  BY DEF ReceivePacket
<1>3. Matches(p) /\ HasAll(p)
  BY PacketMatches
<1>4. Matches(packet)' /\ i' \in 0..Len(packet'.bodies)
  <2>1. Matches(packet)' <=> Matches(p)
    BY <1>1 DEF Matches, BeforeAll
  <2> QED
    BY <1>1, <1>3, <2>1 DEF Matches
<1>6. CASE UNCHANGED <<files_opened, list>>
  BY <1>1, <1>2, <1>4, <1>6 DEF LogInv, NoLineLost, DistinctFiles, Untouched
<1>7. CASE /\ ~files_opened
           /\ list' = [len |-> Len(p.bodies), file |-> <<>>]
           /\ UNCHANGED <<proc, files_opened>>
  <2>1. list'.file = <<>>
    BY <1>7
  <2>2. NoLineLost' /\ DistinctFiles'
    BY <2>1 DEF NoLineLost, DistinctFiles
  <2>3. Untouched'
    BY <1>2, <1>7, <2>1 DEF LogInv, Untouched
  <2> QED
    BY <1>1, <1>2, <1>4, <1>7, <2>1, <2>2, <2>3 DEF LogInv
<1>8. CASE ~files_opened /\ files_opened' = TRUE /\ OpenList(p)
  <2>1. list'.file \in Seq(Files) /\ DistinctFiles'
    BY <1>3, <1>8, OpenListNames
  <2>2. \A b \in Bodies : seen'[b] = 0 /\ lines'[b][b] = 0
    BY <1>2, <1>8 DEF LogInv, Untouched
  <2>3. NoLineLost'
    BY <2>2 DEF NoLineLost
  <2> QED
    BY <1>1, <1>2, <1>4, <1>8, <2>1, <2>3 DEF LogInv
<1> QED
  BY <1>1, <1>6, <1>7, <1>8

\* A line goes to the file named like the marker set, and in no other way is a
\* line written.
LEMMA WrittenLine ==
  ASSUME LogInv, WriteRigidBody
  PROVE  /\ i \in 1..Len(packet.bodies) /\ Len(packet.bodies) \in Nat
         /\ packet.bodies[i] \in Bodies
         /\ \/ UNCHANGED lines
            \/ /\ packet.sets[i] \in Names
               /\ lines' = [lines EXCEPT ![packet.sets[i]][packet.bodies[i]] = @ + 1]
               /\ UNCHANGED proc
         /\ packet.sets[i] # packet.bodies[i] \/ BeforeAll(packet, i)
<1>1. i \in 1..Len(packet.bodies) /\ Len(packet.bodies) \in Nat
  BY DEF WriteRigidBody, LogInv, Matches
<1>2. packet.bodies[i] \in Bodies
  BY <1>1 DEF LogInv, Matches
<1>3. ASSUME NEW k \in find_file(rigidBody_name(packet, i))
      PROVE  list.file[k].name = packet.sets[i] /\ list.file[k].name \in Names
  <2>1. k \in DOMAIN list.file /\ list.file[k].name = packet.sets[i]
    BY DEF find_file, rigidBody_name
  <2>2. list.file[k] \in Files
    BY <2>1 DEF LogInv
  <2> QED
    BY <2>1, <2>2 DEF Files
<1>4. \/ UNCHANGED lines
      \/ /\ packet.sets[i] \in Names
         /\ lines' = [lines EXCEPT ![packet.sets[i]][packet.bodies[i]] = @ + 1]
         /\ UNCHANGED proc
  BY <1>3 DEF WriteRigidBody
<1>5. packet.sets[i] # packet.bodies[i] \/ BeforeAll(packet, i)
  <2> SUFFICES ASSUME ~BeforeAll(packet, i), packet.sets[i] = packet.bodies[i]
               PROVE  FALSE
    OBVIOUS
  <2>1. packet.sets[i] = "all" \/ (i > 1 /\ packet.sets[i] = packet.bodies[i - 1])
    BY <1>1 DEF LogInv, Matches
  <2>2. packet.sets[i] # "all"
    BY <1>2, ConstantsAssumption
  <2>3. i > 1 /\ i - 1 \in DOMAIN packet.bodies /\ i \in DOMAIN packet.bodies
    BY <1>1, <2>1, <2>2 DEF LogInv, Matches
  <2> QED
    BY <1>1, <2>1, <2>2, <2>3 DEF LogInv, Matches, IsInjective
<1> QED
  BY <1>1, <1>2, <1>4, <1>5

\* A body before "all" that has a file has its line in it.
LEMMA WriteLogInv == LogInv /\ WriteRigidBody => LogInv'
<1> SUFFICES ASSUME LogInv, WriteRigidBody
             PROVE  LogInv'
  OBVIOUS
<1> DEFINE b == packet.bodies[i]
           s == packet.sets[i]
           found == find_file(s)
<1>1. /\ Len(packet.bodies) \in Nat /\ i \in 1..Len(packet.bodies)
      /\ b \in Bodies
      /\ s # b \/ BeforeAll(packet, i)
      /\ \/ UNCHANGED lines
         \/ s \in Names /\ lines' = [lines EXCEPT ![s][b] = @ + 1] /\ UNCHANGED proc
  BY WrittenLine
<1>2. UNCHANGED <<packet, files_opened, list>>
  BY DEF WriteRigidBody
<1>3. i' \in 0..Len(packet'.bodies)
  BY <1>1, <1>2 DEF WriteRigidBody
<1>4. IF files_opened /\ BeforeAll(packet, i)
        THEN seen' = [seen EXCEPT ![b] = @ + 1] ELSE seen' = seen
  BY DEF WriteRigidBody
<1>5. seen' \in [Bodies -> Nat]
  BY <1>1, <1>4 DEF LogInv
<1>6. \A k \in found : k \in DOMAIN list.file /\ list.file[k].name = s
  BY DEF find_file
<1>7. \A k \in DOMAIN list.file : list.file[k].name = s => k \in found
  <2> DEFINE file == list.file
  <2>1. file \in Seq(Files) /\ DOMAIN file = 1..Len(file) /\ Len(file) \in Nat
    BY DEF LogInv
  <2>2. \A j, k \in DOMAIN file : file[j].name = file[k].name => j = k
    BY DEF LogInv, DistinctFiles
  <2>3. found = {k \in DOMAIN file : /\ file[k].name = s
                                    /\ \A j \in 1..(k - 1) : file[j].name # s}
    BY DEF find_file
  <2> HIDE DEF file, found, s
  <2>4. \A k \in DOMAIN file : \A j \in 1..(k - 1) : j \in DOMAIN file /\ j # k
    BY <2>1
  <2>5. \A k \in DOMAIN file : file[k].name = s => k \in found
    BY <2>2, <2>3, <2>4
  <2> QED
    BY <2>5 DEF file
<1>8. \/ found = {} /\ UNCHANGED <<proc, lines>>
      \/ \E k \in found : /\ list.file[k].fs = "open"
                          /\ lines' = [lines EXCEPT ![s][b] = @ + 1]
                          /\ UNCHANGED proc
      \/ \E k \in found : list.file[k].fs = "null" /\ proc' = "crashed" /\ UNCHANGED lines
  BY <1>6 DEF WriteRigidBody, rigidBody_name
<1>9. BeforeAll(packet, i) => s = b
  BY <1>1 DEF LogInv, Matches
<1>10. lines \in [Names -> [Bodies -> Nat]]
  BY DEF LogInv
<1> HIDE DEF b, s, found
<1>11. lines' \in [Names -> [Bodies -> Nat]]
  <2>1. CASE s \in Names /\ lines' = [lines EXCEPT ![s][b] = @ + 1]
    <3>1. lines[s] \in [Bodies -> Nat] /\ lines[s][b] + 1 \in Nat
      BY <1>1, <1>10, <2>1
    <3>2. [lines[s] EXCEPT ![b] = lines[s][b] + 1] \in [Bodies -> Nat]
      BY <3>1
    <3> QED
      BY <1>10, <2>1, <3>2
  <2> QED
    BY <1>1, <1>10, <2>1
<1>12. NoLineLost'
  <2> SUFFICES ASSUME proc' = "up", NEW k \in DOMAIN list.file,
                      list.file[k].name \in Bodies, list.file[k].fs = "open"
               PROVE  lines'[list.file[k].name][list.file[k].name]
                         = seen'[list.file[k].name]
    BY <1>2 DEF NoLineLost
  <2> DEFINE n == list.file[k].name
  <2>1. lines[n][n] = seen[n] /\ n \in Names /\ n \in Bodies
    BY DEF LogInv, NoLineLost, WriteRigidBody, Names
  <2>2. files_opened
    BY DEF LogInv, Untouched
  <2>3. CASE n # b \/ s # b
    <3>1. lines'[n][n] = lines[n][n]
      <4>1. CASE s \in Names /\ lines' = [lines EXCEPT ![s][b] = @ + 1] /\ n # s
        <5>1. lines'[n] = lines[n]
          BY <1>10, <2>1, <4>1
        <5> QED
          BY <5>1
      <4>2. CASE s \in Names /\ lines' = [lines EXCEPT ![s][b] = @ + 1] /\ n = s
        <5>1. lines'[n] = [lines[n] EXCEPT ![b] = @ + 1] /\ lines[n] \in [Bodies -> Nat]
          BY <1>10, <2>1, <4>2
        <5>2. n # b
          BY <2>3, <4>2
        <5> QED
          BY <2>1, <5>1, <5>2
      <4>3. CASE UNCHANGED lines
        BY <4>3
      <4> QED
        BY <1>1, <4>1, <4>2, <4>3
    <3>2. seen'[n] = seen[n]
      BY <1>4, <1>9, <2>3 DEF LogInv
    <3> QED
      BY <2>1, <3>1, <3>2
  <2>4. CASE n = b /\ s = b
    <3>1. k \in found
      BY <1>7, <2>4
    <3>2. \A j \in found : j = k
      BY <1>6, <2>4 DEF LogInv, DistinctFiles
    <3>3. lines' = [lines EXCEPT ![s][b] = @ + 1]
      BY <1>8, <3>1, <3>2
    <3>4. lines'[b][b] = lines[b][b] + 1
      BY <1>10, <2>1, <2>4, <3>3
    <3>5. seen'[b] = seen[b] + 1
      BY <1>1, <1>4, <2>2, <2>4 DEF LogInv
    <3> QED
      BY <2>1, <2>4, <3>4, <3>5
  <2> QED
    BY <2>3, <2>4
<1>13. files_opened \/ Untouched'
  <2> SUFFICES ASSUME ~files_opened
               PROVE  Untouched'
    OBVIOUS
  <2>1. Untouched
    BY DEF LogInv
  <2>2. found = {}
    BY <1>6, <2>1 DEF Untouched
  <2>3. UNCHANGED <<lines, seen>>
    BY <1>4, <1>8, <2>2
  <2> QED
    BY <1>2, <2>1, <2>3 DEF Untouched
<1>14. Matches(packet)'
  BY <1>2 DEF LogInv, Matches, BeforeAll
<1> QED
  BY <1>2, <1>3, <1>5, <1>11, <1>12, <1>13, <1>14 DEF LogInv, DistinctFiles

\* What the handlers rest on is an invariant.
THEOREM LogInvariance == Spec => []LogInv
<1>1. LogInv /\ [Next]_vars => LogInv'
  <2> SUFFICES ASSUME LogInv, [Next]_vars
               PROVE  LogInv'
    OBVIOUS
  <2>1. CASE Finished \/ UNCHANGED vars
    <3>1. UNCHANGED vars
      BY <2>1 DEF Finished
    <3>2. Matches(packet)'
      BY <3>1 DEF vars, LogInv, Matches, BeforeAll
    <3>3. DistinctFiles' /\ Untouched' = Untouched /\ NoLineLost'
      BY <3>1 DEF vars, LogInv, DistinctFiles, Untouched, NoLineLost
    <3> QED
      BY <3>1, <3>2, <3>3 DEF vars, LogInv
  <2> QED
    BY <2>1, ReceiveLogInv, WriteLogInv DEF Next
<1> QED
  BY <1>1, InitLogInv, PTL DEF Spec

\* Which file the line of a body is written to.
LEMMA LineStep ==
  ASSUME LogInv, WriteRigidBody
  PROVE  \A n \in Names, b \in Bodies :
            lines'[n][b] > lines[n][b] =>
               IF BeforeAll(packet, i) THEN n = b
               ELSE i > 1 /\ n = packet.bodies[i - 1]
<1> SUFFICES ASSUME NEW n \in Names, NEW b \in Bodies, lines'[n][b] > lines[n][b]
             PROVE  IF BeforeAll(packet, i) THEN n = b
                    ELSE i > 1 /\ n = packet.bodies[i - 1]
  OBVIOUS
<1>1. /\ lines \in [Names -> [Bodies -> Nat]]
      /\ i \in 1..Len(packet.bodies)
      /\ packet.bodies[i] \in Bodies
      /\ packet.sets[i] \in Names
      /\ lines' = [lines EXCEPT ![packet.sets[i]][packet.bodies[i]] = @ + 1]
  <2>1. lines[n][b] \in Nat /\ lines \in [Names -> [Bodies -> Nat]]
    BY DEF LogInv
  <2>2. lines' # lines
    BY <2>1
  <2> QED
    BY <2>1, <2>2, WrittenLine
<1>2. n = packet.sets[i] /\ b = packet.bodies[i]
  BY <1>1
<1>3. packet.sets[i] # "all"
  BY <1>1, ConstantsAssumption DEF Names
<1> QED
  BY <1>1, <1>2, <1>3 DEF LogInv, Matches

\* A body before "all" is logged in its own file, one behind it in the file of
\* the body before it, whatever packets came before (npoint_packet.c:594).
THEOREM LinesInTheirFile == Spec => FileOfLine
<1>1. LogInv /\ [Next]_vars =>
         [\A n \in Names, b \in Bodies :
             lines'[n][b] > lines[n][b] =>
                IF BeforeAll(packet, i) THEN n = b
                ELSE i > 1 /\ n = packet.bodies[i - 1]]_lines
  BY LineStep DEF Next, ReceivePacket, Finished, vars
<1> QED
  BY <1>1, LogInvariance, PTL DEF Spec, FileOfLine

\* A body with a file has in it one line for every packet in which it stood
\* before "all", whatever the others were like.
THEOREM EveryPacketLogged == Spec => []NoLineLost
<1>1. LogInv => NoLineLost
  BY DEF LogInv
<1> QED
  BY <1>1, LogInvariance, PTL

-----------------------------------------------------------------------------
(* Descriptors.                                                            *)

Pcs == Conns \cup {"run", "close", "logs", "exited", "failed"}

\* The types of what the proof is about.
StartTypeOK ==
    /\ pc \in Pcs
    /\ fd = [n \in 0..MaxFd |-> fd[n]]
    /\ sd \in [Conns -> -1..MaxFd]
    /\ available \in [joystick : BOOLEAN, px4remote : BOOLEAN, tracker : BOOLEAN]
    /\ files_opened \in BOOLEAN
    /\ mav_fs \in [DOMAIN mav_fs -> {NULL} \cup 0..MaxFd]
    /\ np_fs \in [DOMAIN np_fs -> {NULL} \cup 0..MaxFd]

\* A connection's number leads to a connection, not always to its own.
Connected(c) == sd[c] > 0 => \E d \in Conns : fd[sd[c]] = Conn(d)

\* A number that was left behind is the next one to be given away.
Stale(c) == sd[c] > 0 /\ Lowest(sd[c], fd)

\* No number is stale while a log file may still be opened: the number of the
\* MAV that could not be reached goes to the tracking system's socket, and
\* without that socket no file is opened any more.
NumbersKept ==
    /\ \A c \in Conns : pc \in {"js", "mav"} => Connected(c)
    /\ \A c \in Conns : pc = "qgc" /\ available.px4remote => Connected(c)
    /\ \A c \in Conns : pc \in {"qgc", "tracker"} => Connected(c) \/ Stale(c)
    /\ \A c \in Conns : pc = "run" /\ available.tracker => Connected(c)
    /\ \A c \in Conns :
          pc \in {"run", "close"} /\ sd[c] > 0 =>
             \/ \E d \in Conns : fd[sd[c]] = Conn(d)
             \/ fd[sd[c]] = Nobody

Own(c) == fd[sd[c]] = Conn(c) /\ sd[c] >= 0

\* What is available has been opened, and is its own.
Opened ==
    /\ pc \in {"mav", "qgc", "tracker", "run"} /\ available.joystick => Own("js")
    /\ pc \in {"qgc", "tracker", "run"} /\ available.px4remote => Own("mav")
    /\ pc \in {"tracker", "run"} /\ available.px4remote => Own("qgc")
    /\ pc = "run" /\ available.tracker => Own("tracker")

LogNumbers == {n \in 0..MaxFd : \/ \E k \in DOMAIN mav_fs : mav_fs[k] = n
                                \/ \E k \in DOMAIN np_fs : np_fs[k] = n}

\* Taken by somebody who is to give it back.
Taken(n) == fd[n] \notin {Nobody, Config}

\* Somebody can close what is taken: the number is kept somewhere.
Accounted ==
    /\ pc \notin {"logs", "exited"} =>
          \A n \in 1..MaxFd : Taken(n) => n \in Kept \cup LogNumbers
    /\ pc = "logs" => \A n \in 1..MaxFd : Taken(n) => n \in LogNumbers

\* Each connection is made once, and the list of files is opened once.
Once ==
    /\ pc = "js" => \A c \in Conns : sd[c] = 0
    /\ pc = "mav" => \A c \in Conns \ {"js"} : sd[c] = 0
    /\ pc = "qgc" => sd["qgc"] = 0 /\ sd["tracker"] = 0
    /\ pc = "tracker" => sd["tracker"] = 0
    /\ ~files_opened => DOMAIN np_fs = {}

\* Number 0 is never anybody else's.
StdKept == fd[0] = Std

StartInv ==
    /\ StartTypeOK
    /\ FilesKeepDescriptors
    /\ NumbersKept
    /\ Opened
    /\ Accounted
    /\ Once
    /\ StdKept
    /\ AllClosed

-----------------------------------------------------------------------------

\* A row of opens takes numbers that are free, and each file gets its own.
LEMMA RowOfOpens ==
  ASSUME NEW table, NEW who, NEW numbers,
         numbers \in [DOMAIN numbers -> {NULL} \cup 0..MaxFd],
         InOrder(numbers, table)
  PROVE  /\ \A k \in DOMAIN numbers : numbers[k] # NULL =>
               /\ table[numbers[k]] = Nobody
               /\ Given(numbers, who, table)[numbers[k]] = <<who, k>>
         /\ \A n \in 0..MaxFd :
               table[n] # Nobody => Given(numbers, who, table)[n] = table[n]
         /\ \A n \in 0..MaxFd :
               \/ Given(numbers, who, table)[n] = table[n]
               \/ \E k \in DOMAIN numbers : numbers[k] = n
<1> NULL \notin 0..MaxFd
  BY DescriptorAssumption DEF NULL
<1>1. ASSUME NEW k \in DOMAIN numbers, numbers[k] # NULL
      PROVE  /\ numbers[k] \in 0..MaxFd
             /\ table[numbers[k]] = Nobody
             /\ Given(numbers, who, table)[numbers[k]] = <<who, k>>
  <2>1. numbers[k] \in 0..MaxFd /\ table[numbers[k]] = Nobody
    BY <1>1 DEF InOrder, Free
  <2>2. (CHOOSE j \in DOMAIN numbers : numbers[j] = numbers[k]) = k
    BY <1>1 DEF InOrder
  <2> QED
    BY <2>1, <2>2 DEF Given
<1>2. ASSUME NEW n \in 0..MaxFd, table[n] # Nobody
      PROVE  Given(numbers, who, table)[n] = table[n]
  BY <1>1, <1>2 DEF Given
<1>3. ASSUME NEW n \in 0..MaxFd
      PROVE  \/ Given(numbers, who, table)[n] = table[n]
             \/ \E k \in DOMAIN numbers : numbers[k] = n
  BY DEF Given
<1> QED
  BY <1>1, <1>2, <1>3

\* When main() starts, the logger's files are open, and perhaps the
\* configuration file.
LEMMA StartInitInv == StartInit => StartInv
<1> SUFFICES ASSUME StartInit
             PROVE  StartInv
  OBVIOUS
<1>0. PICK configured \in BOOLEAN :
         /\ mav_fs \in [1..MavFiles -> {NULL} \cup 0..MaxFd]
         /\ InOrder(mav_fs, Booted(configured))
         /\ fd = Given(mav_fs, "mav-log", Booted(configured))
  BY DEF StartInit
<1> DEFINE boot == Booted(configured)
<1>1. /\ mav_fs \in [1..MavFiles -> {NULL} \cup 0..MaxFd]
      /\ InOrder(mav_fs, boot)
      /\ fd = Given(mav_fs, "mav-log", boot)
  BY <1>0
<1>2. DOMAIN mav_fs = 1..MavFiles
  BY <1>1
<1>3. /\ \A k \in DOMAIN mav_fs : mav_fs[k] # NULL => fd[mav_fs[k]] = <<"mav-log", k>>
      /\ \A n \in 0..MaxFd : boot[n] # Nobody => fd[n] = boot[n]
      /\ \A n \in 0..MaxFd : fd[n] = boot[n] \/ \E k \in DOMAIN mav_fs : mav_fs[k] = n
  <2>1. mav_fs \in [DOMAIN mav_fs -> {NULL} \cup 0..MaxFd]
    BY <1>1, <1>2
  <2> HIDE DEF boot
  <2>2. PICK table : table = boot
    OBVIOUS
  <2>3. InOrder(mav_fs, table) /\ fd = Given(mav_fs, "mav-log", table)
    BY <1>1, <2>2
  <2> QED
    BY <2>1, <2>2, <2>3, RowOfOpens
<1>4. StartTypeOK
  <2>1. fd = [n \in 0..MaxFd |-> fd[n]]
    BY <1>1 DEF Given
  <2>2. sd \in [Conns -> -1..MaxFd]
    BY DescriptorAssumption DEF StartInit
  <2>3. mav_fs \in [DOMAIN mav_fs -> {NULL} \cup 0..MaxFd]
    BY <1>1, <1>2
  <2>4. np_fs \in [DOMAIN np_fs -> {NULL} \cup 0..MaxFd]
    <3>1. np_fs = <<>> /\ <<>> \in Seq({NULL} \cup 0..MaxFd)
      BY DEF StartInit
    <3> QED
      BY <3>1
  <2> QED
    BY <2>1, <2>2, <2>3, <2>4 DEF StartInit, Init, StartTypeOK, Pcs, Conns
<1>5. FilesKeepDescriptors
  BY <1>3 DEF StartInit, FilesKeepDescriptors
<1>6. NumbersKept /\ Opened /\ AllClosed
  BY DEF StartInit, NumbersKept, Opened, AllClosed, Connected, Conns
<1>7. Accounted
  <2>1. \A n \in 1..MaxFd : n \in 0..MaxFd /\ boot[n] \in {Nobody, Config}
    BY DescriptorAssumption DEF Booted
  <2> HIDE DEF boot
  <2>2. \A n \in 1..MaxFd : Taken(n) => n \in LogNumbers
    BY <1>3, <2>1 DEF LogNumbers, Taken
  <2>3. pc = "js"
    BY DEF StartInit
  <2> QED
    BY <2>2, <2>3 DEF Accounted
<1>8. Once
  BY DEF StartInit, Once, Conns
<1>9. StdKept
  <2>1. boot[0] = Std /\ 0 \in 0..MaxFd
    BY DescriptorAssumption DEF Booted
  <2> HIDE DEF boot
  <2> QED
    BY <1>3, <2>1 DEF StdKept, Std, Nobody
<1> QED
  BY <1>4, <1>5, <1>6, <1>7, <1>8, <1>9 DEF StartInv

\* A step of main() that makes a connection: the kernel gives a number that
\* was free, or none.
Makes(c) == Socket(c) \/ NoSocket(c) \/ DeadSocket(c)

\* Whatever comes of a connection, what was open stays as it is, and only the
\* connection's own number changes.
LEMMA MakeConnection ==
  ASSUME StartTypeOK, NEW c \in Conns, Makes(c)
  PROVE  /\ fd' = [n \in 0..MaxFd |-> fd'[n]]
         /\ sd' \in [Conns -> -1..MaxFd]
         /\ \A n \in 0..MaxFd : fd[n] # Nobody => fd'[n] = fd[n]
         /\ \A n \in 0..MaxFd : fd'[n] # fd[n] => fd'[n] = Conn(c) /\ n = sd'[c]
         /\ \A d \in Conns \ {c} : sd'[d] = sd[d]
<1> USE DescriptorAssumption DEF StartTypeOK
<1>1. CASE Socket(c)
  <2>1. PICK n \in 0..MaxFd : /\ Lowest(n, fd)
                              /\ sd' = [sd EXCEPT ![c] = n]
                              /\ fd' = [fd EXCEPT ![n] = Conn(c)]
    BY <1>1 DEF Socket
  <2>2. fd[n] = Nobody
    BY <2>1 DEF Lowest, Free
  <2>3. fd' = [m \in 0..MaxFd |-> fd'[m]] /\ fd'[n] = Conn(c)
    BY <2>1
  <2>4. \A m \in 0..MaxFd : m # n => fd'[m] = fd[m]
    BY <2>1
  <2>5. sd' \in [Conns -> -1..MaxFd] /\ sd'[c] = n /\ \A d \in Conns \ {c} : sd'[d] = sd[d]
    BY <2>1
  <2> QED
    BY <2>2, <2>3, <2>4, <2>5
<1>2. CASE NoSocket(c)
  BY <1>2 DEF NoSocket
<1>3. CASE DeadSocket(c)
  BY <1>3 DEF DeadSocket
<1> QED
  BY <1>1, <1>2, <1>3 DEF Makes

\* A socket that lives is its connection's own.
LEMMA MakeSocket ==
  ASSUME StartTypeOK, NEW c \in Conns, Socket(c)
  PROVE  /\ fd'[sd'[c]] = Conn(c)
         /\ Lowest(sd'[c], fd)
         /\ sd'[c] \in 0..MaxFd
<1> QED
  BY DEF StartTypeOK, Socket

\* A dead one leaves the lowest free number behind.
LEMMA MakeDeadSocket ==
  ASSUME StartTypeOK, NEW c \in Conns, DeadSocket(c)
  PROVE  /\ Lowest(sd'[c], fd)
         /\ fd' = fd
<1> QED
  BY DEF StartTypeOK, DeadSocket

\* The log files outlast the making of a connection.
LEMMA FilesOutlast ==
  ASSUME StartTypeOK, FilesKeepDescriptors, pc \notin {"exited", "failed"},
         NEW c \in Conns, Makes(c), UNCHANGED <<mav_fs, np_fs>>
  PROVE  FilesKeepDescriptors'
<1>1. \A n \in 0..MaxFd : fd[n] # Nobody => fd'[n] = fd[n]
  BY MakeConnection
<1>2. \A k : <<"mav-log", k>> # Nobody /\ <<"np-log", k>> # Nobody
  BY DEF Nobody
<1> QED
  BY <1>1, <1>2 DEF FilesKeepDescriptors, StartTypeOK

\* So do the connections that are there.
LEMMA OwnOutlasts ==
  ASSUME StartTypeOK, NEW c \in Conns, Makes(c), NEW d \in Conns \ {c}, Own(d)
  PROVE  Own(d)'
<1>1. Conn(d) # Nobody
  BY DEF Conn, Nobody, Conns
<1>2. sd[d] \in 0..MaxFd
  BY DEF StartTypeOK, Own
<1> QED
  BY <1>1, <1>2, MakeConnection DEF Own

\* The number of a new descriptor is kept where it can be closed.
LEMMA AccountedOutlasts ==
  ASSUME StartTypeOK, Accounted, pc \notin {"logs", "exited"},
         NEW c \in Conns, Makes(c), sd[c] = 0, UNCHANGED <<mav_fs, np_fs>>,
         pc' \notin {"logs", "exited"}
  PROVE  Accounted'
<1> SUFFICES ASSUME NEW n \in 1..MaxFd, Taken(n)'
             PROVE  n \in Kept' \cup LogNumbers'
  BY DEF Accounted
<1>1. n \in 0..MaxFd /\ n # 0
  BY DescriptorAssumption
<1>2. CASE fd'[n] # fd[n]
  BY <1>1, <1>2, MakeConnection DEF Kept
<1>3. CASE fd'[n] = fd[n]
  <2>1. n \in Kept \cup LogNumbers
    BY <1>3 DEF Accounted, Taken
  <2>2. n \in Kept => n \in Kept'
    BY <1>1, MakeConnection DEF Kept
  <2>3. LogNumbers' = LogNumbers
    BY DEF LogNumbers
  <2> QED
    BY <2>1, <2>2, <2>3
<1> QED
  BY <1>2, <1>3

\* A number that leads to a connection goes on doing so.
LEMMA ConnectedOutlasts ==
  ASSUME StartTypeOK, NEW c \in Conns, Makes(c), NEW d \in Conns \ {c}, Connected(d)
  PROVE  Connected(d)'
<1> SUFFICES ASSUME sd[d] > 0
             PROVE  \E e \in Conns : fd'[sd[d]] = Conn(e)
  BY MakeConnection DEF Connected
<1>1. PICK e \in Conns : fd[sd[d]] = Conn(e)
  BY DEF Connected
<1>2. Conn(e) # Nobody
  BY DEF Conn, Nobody, Conns
<1>3. sd[d] \in 0..MaxFd
  BY DEF StartTypeOK
<1> QED
  BY <1>1, <1>2, <1>3, MakeConnection

\* The joystick is the first.
LEMMA OpenJoystickStep == StartInv /\ OpenJoystick => StartInv'
<1> SUFFICES ASSUME StartInv, OpenJoystick
             PROVE  StartInv'
  OBVIOUS
<1>0. /\ pc = "js" /\ pc' = "mav"
      /\ UNCHANGED <<nplogger, mav_fs, np_fs>>
      /\ Makes("js") /\ "js" \in Conns
      /\ StartTypeOK /\ Once /\ Accounted /\ FilesKeepDescriptors
  BY DEF OpenJoystick, Main, After, Makes, StartInv, Conns
<1>1. StartTypeOK'
  BY <1>0, MakeConnection DEF StartTypeOK, OpenJoystick, Pcs, Conns, nplogger
<1>2. FilesKeepDescriptors'
  BY <1>0, FilesOutlast
<1>3. NumbersKept'
  <2>1. \A c \in Conns \ {"js"} : sd'[c] = 0
    BY <1>0, MakeConnection DEF Once
  <2>2. Connected("js")'
    BY <1>0, MakeSocket DEF OpenJoystick, NoSocket, StartTypeOK, Connected
  <2> QED
    BY <1>0, <2>1, <2>2 DEF NumbersKept, Connected
<1>4. Opened'
  <2>1. Socket("js") \/ ~available'.joystick
    BY <1>0 DEF OpenJoystick, StartTypeOK
  <2>2. Socket("js") => Own("js")'
    BY <1>0, MakeSocket DEF Own
  <2> QED
    BY <1>0, <2>1, <2>2 DEF Opened
<1>5. Accounted'
  BY <1>0, AccountedOutlasts DEF Once
<1>6. Once'
  BY <1>0, MakeConnection DEF Once, nplogger, Conns
<1>7. StdKept'
  BY <1>0, MakeConnection, DescriptorAssumption DEF StdKept, Std, StartInv, Nobody
<1> QED
  BY <1>0, <1>1, <1>2, <1>3, <1>4, <1>5, <1>6, <1>7 DEF StartInv, AllClosed

\* The MAV, whose number is stale if it could not be reached.
LEMMA ConnectMavStep == StartInv /\ ConnectMav => StartInv'
<1> SUFFICES ASSUME StartInv, ConnectMav
             PROVE  StartInv'
  OBVIOUS
<1>0. /\ pc = "mav" /\ pc' = "qgc"
      /\ UNCHANGED <<nplogger, mav_fs, np_fs>>
      /\ Makes("mav") /\ "mav" \in Conns
      /\ StartTypeOK /\ Once /\ Accounted /\ FilesKeepDescriptors
  BY DEF ConnectMav, Main, After, Makes, StartInv, Conns
<1>1. StartTypeOK'
  BY <1>0, MakeConnection DEF StartTypeOK, ConnectMav, Pcs, Conns, nplogger
<1>2. FilesKeepDescriptors'
  BY <1>0, FilesOutlast
<1>3. NumbersKept'
  <2>1. \A c \in Conns \ {"mav"} : Connected(c)'
    BY <1>0, ConnectedOutlasts DEF NumbersKept, StartInv
  <2>2. Socket("mav") => Connected("mav")'
    BY <1>0, MakeSocket DEF Connected
  <2>3. NoSocket("mav") => Connected("mav")'
    BY <1>0 DEF NoSocket, StartTypeOK, Connected
  <2>4. DeadSocket("mav") => Connected("mav")' \/ Stale("mav")'
    BY <1>0, MakeDeadSocket DEF Stale, Lowest, Free, Connected
  <2>5. Socket("mav") \/ ~available'.px4remote
    BY <1>0 DEF ConnectMav, StartTypeOK
  <2> QED
    BY <1>0, <2>1, <2>2, <2>3, <2>4, <2>5 DEF NumbersKept, Makes
<1>4. Opened'
  <2>1. (Socket("mav") /\ available' = available) \/ ~available'.px4remote
    BY <1>0 DEF ConnectMav, StartTypeOK
  <2>2. Socket("mav") => Own("mav")'
    BY <1>0, MakeSocket DEF Own
  <2>3. available'.joystick = available.joystick
    BY <1>0 DEF ConnectMav, StartTypeOK
  <2>4. available.joystick => Own("js")'
    BY <1>0, OwnOutlasts DEF Opened, StartInv, Conns
  <2> QED
    BY <1>0, <2>1, <2>2, <2>3, <2>4 DEF Opened
<1>5. Accounted'
  BY <1>0, AccountedOutlasts DEF Once, Conns
<1>6. Once'
  BY <1>0, MakeConnection DEF Once, nplogger, Conns
<1>7. StdKept'
  BY <1>0, MakeConnection, DescriptorAssumption DEF StdKept, Std, StartInv, Nobody
<1> QED
  BY <1>0, <1>1, <1>2, <1>3, <1>4, <1>5, <1>6, <1>7 DEF StartInv, AllClosed

\* The ground control, if there is a MAV: otherwise the stale number stays the
\* lowest.
LEMMA BindQgcStep == StartInv /\ BindQgc => StartInv'
<1> SUFFICES ASSUME StartInv, BindQgc
             PROVE  StartInv'
  OBVIOUS
<1>0. /\ pc = "qgc" /\ pc' \in {"tracker", "failed"}
      /\ UNCHANGED <<nplogger, mav_fs, np_fs, available>>
      /\ "qgc" \in Conns
      /\ StartTypeOK /\ Once /\ Accounted /\ FilesKeepDescriptors
  BY DEF BindQgc, Main, After, StartInv, Conns
<1>1. CASE ~available.px4remote
  <2>1. pc' = "tracker" /\ UNCHANGED <<fd, sd>>
    BY <1>1 DEF BindQgc, After
  <2>2. StartTypeOK'
    BY <1>0, <2>1 DEF StartTypeOK, Pcs, Conns, nplogger
  <2>3. FilesKeepDescriptors'
    BY <1>0, <2>1 DEF FilesKeepDescriptors
  <2>4. NumbersKept'
    BY <1>0, <2>1 DEF StartInv, NumbersKept, Connected, Stale, Lowest, Free
  <2>5. Opened'
    BY <1>0, <1>1, <2>1 DEF StartInv, Opened, Own
  <2>6. Accounted'
    BY <1>0, <2>1 DEF Accounted, Taken, Kept, LogNumbers
  <2>7. Once'
    BY <1>0, <2>1 DEF Once, nplogger
  <2>8. StdKept'
    BY <2>1 DEF StartInv, StdKept
  <2> QED
    BY <1>0, <2>1, <2>2, <2>3, <2>4, <2>5, <2>6, <2>7, <2>8 DEF StartInv, AllClosed
<1>2. CASE available.px4remote
  <2>0. /\ Makes("qgc")
        /\ Socket("qgc") \/ pc' = "failed"
    BY <1>2 DEF BindQgc, Makes
  <2>1. StartTypeOK'
    BY <1>0, <2>0, MakeConnection DEF StartTypeOK, Pcs, Conns, nplogger
  <2>2. FilesKeepDescriptors'
    BY <1>0, <2>0, FilesOutlast
  <2>3. \A c \in Conns \ {"qgc"} : Connected(c)'
    BY <1>0, <1>2, <2>0, ConnectedOutlasts DEF NumbersKept, StartInv
  <2>4. NumbersKept'
    <3>1. Socket("qgc") => Connected("qgc")'
      BY <1>0, MakeSocket DEF Connected
    <3> QED
      BY <1>0, <2>0, <2>3, <3>1 DEF NumbersKept
  <2>5. Opened'
    <3>1. Socket("qgc") => Own("qgc")'
      BY <1>0, MakeSocket DEF Own
    <3>2. available.joystick => Own("js")'
      BY <1>0, <2>0, OwnOutlasts DEF Opened, StartInv, Conns
    <3>3. Own("mav")'
      BY <1>0, <1>2, <2>0, OwnOutlasts DEF Opened, StartInv, Conns
    <3> QED
      BY <1>0, <2>0, <3>1, <3>2, <3>3 DEF Opened
  <2>6. Accounted'
    BY <1>0, <2>0, AccountedOutlasts DEF Once
  <2>7. Once'
    BY <1>0, <2>0, MakeConnection DEF Once, nplogger, Conns
  <2>8. StdKept'
    BY <1>0, <2>0, MakeConnection, DescriptorAssumption DEF StdKept, Std, StartInv, Nobody
  <2> QED
    BY <1>0, <2>1, <2>2, <2>4, <2>5, <2>6, <2>7, <2>8 DEF StartInv, AllClosed
<1> QED
  BY <1>0, <1>1, <1>2 DEF StartTypeOK

\* The tracking system's socket gets the stale number, if there is one.
LEMMA JoinGroupStep == StartInv /\ JoinGroup => StartInv'
<1> SUFFICES ASSUME StartInv, JoinGroup
             PROVE  StartInv'
  OBVIOUS
<1>0. /\ pc = "tracker" /\ pc' = "run"
      /\ UNCHANGED <<nplogger, mav_fs, np_fs>>
      /\ Makes("tracker") /\ "tracker" \in Conns
      /\ StartTypeOK /\ Once /\ Accounted /\ FilesKeepDescriptors
  BY DEF JoinGroup, Main, After, Makes, StartInv, Conns
<1>1. StartTypeOK'
  BY <1>0, MakeConnection DEF StartTypeOK, JoinGroup, Pcs, Conns, nplogger
<1>2. FilesKeepDescriptors'
  BY <1>0, FilesOutlast
<1>3. NumbersKept'
  <2>1. ASSUME NEW c \in Conns \ {"tracker"}
        PROVE  Connected(c)' \/ Stale(c)
    BY <1>0, <2>1, ConnectedOutlasts DEF StartInv, NumbersKept
  <2>2. CASE Socket("tracker")
    <3>1. Connected("tracker")'
      BY <1>0, <2>2, MakeSocket DEF Connected
    <3>2. ASSUME NEW c \in Conns \ {"tracker"}, Stale(c)
          PROVE  Connected(c)'
      <4>1. sd[c] \in Int /\ sd'["tracker"] \in 0..MaxFd /\ sd'[c] = sd[c]
        BY <1>0, <2>2, MakeSocket, MakeConnection, DescriptorAssumption DEF StartTypeOK
      <4>2. sd[c] = sd'["tracker"]
        BY <1>0, <2>2, <3>2, <4>1, MakeSocket, DescriptorAssumption DEF Stale, Lowest, Free
      <4> QED
        BY <1>0, <2>2, <4>1, <4>2, MakeSocket DEF Connected
    <3>3. \A c \in Conns : Connected(c)'
      BY <2>1, <3>1, <3>2
    <3> QED
      BY <1>0, <3>3 DEF NumbersKept, Connected
  <2>3. CASE ~Socket("tracker")
    <3>1. ~available'.tracker /\ fd' = fd
      BY <1>0, <2>3, MakeDeadSocket DEF JoinGroup, NoSocket, StartTypeOK
    <3>2. Connected("tracker")' \/ fd'[sd'["tracker"]] = Nobody
      <4>1. NoSocket("tracker") => Connected("tracker")'
        BY <1>0 DEF NoSocket, StartTypeOK, Connected
      <4>2. DeadSocket("tracker") => fd'[sd'["tracker"]] = Nobody
        BY <1>0, MakeDeadSocket DEF Lowest, Free
      <4> QED
        BY <1>0, <2>3, <4>1, <4>2 DEF Makes
    <3>3. \A c \in Conns \ {"tracker"} : Stale(c) => fd'[sd'[c]] = Nobody
      BY <1>0, <3>1, MakeConnection DEF Stale, Lowest, Free
    <3>4. \A c \in Conns : Connected(c)' \/ fd'[sd'[c]] = Nobody
      BY <2>1, <3>2, <3>3
    <3> QED
      BY <1>0, <3>1, <3>4 DEF NumbersKept, Connected
  <2> QED
    BY <2>2, <2>3
<1>4. Opened'
  <2>1. (Socket("tracker") /\ available' = available) \/ ~available'.tracker
    BY <1>0 DEF JoinGroup, StartTypeOK
  <2>2. Socket("tracker") => Own("tracker")'
    BY <1>0, MakeSocket DEF Own
  <2>3. available'.joystick = available.joystick /\ available'.px4remote = available.px4remote
    BY <1>0 DEF JoinGroup, StartTypeOK
  <2>4. available.joystick => Own("js")'
    BY <1>0, OwnOutlasts DEF Opened, StartInv, Conns
  <2>5. available.px4remote => Own("mav")' /\ Own("qgc")'
    BY <1>0, OwnOutlasts DEF Opened, StartInv, Conns
  <2> QED
    BY <1>0, <2>1, <2>2, <2>3, <2>4, <2>5 DEF Opened
<1>5. Accounted'
  BY <1>0, AccountedOutlasts DEF Once, Conns
<1>6. Once'
  BY <1>0 DEF Once, nplogger
<1>7. StdKept'
  BY <1>0, MakeConnection, DescriptorAssumption DEF StdKept, Std, StartInv, Nobody
<1> QED
  BY <1>0, <1>1, <1>2, <1>3, <1>4, <1>5, <1>6, <1>7 DEF StartInv, AllClosed

\* The files of the tracking system get numbers that no connection keeps.
LEMMA ReceiveStep == StartInv /\ Receive => StartInv'
<1> SUFFICES ASSUME StartInv, Receive
             PROVE  StartInv'
  OBVIOUS
<1>0. /\ pc = "run" /\ available.tracker
      /\ UNCHANGED <<pc, sd, available, mav_fs>>
      /\ StartTypeOK /\ Once /\ Accounted /\ FilesKeepDescriptors
  BY DEF Receive, StartInv
<1>1. files_opened' = files_opened \/ (~files_opened /\ files_opened')
  BY <1>0 DEF Receive, ReceivePacket, StartTypeOK
<1>2. files_opened' \in BOOLEAN
  BY <1>0, <1>1 DEF Receive, ReceivePacket, StartTypeOK
<1>3. CASE files_opened' = files_opened
  <2>1. UNCHANGED <<np_fs, fd>>
    BY <1>3 DEF Receive, NpFilesOpened
  <2>2. StartTypeOK'
    BY <1>0, <1>2, <2>1 DEF StartTypeOK
  <2>3. FilesKeepDescriptors'
    BY <1>0, <2>1 DEF FilesKeepDescriptors
  <2>4. NumbersKept'
    BY <1>0, <2>1 DEF StartInv, NumbersKept, Connected
  <2>5. Opened'
    BY <1>0, <2>1 DEF StartInv, Opened, Own
  <2>6. Accounted'
    BY <1>0, <2>1 DEF Accounted, Taken, Kept, LogNumbers
  <2>7. Once'
    BY <1>0, <1>3, <2>1 DEF Once
  <2>8. StdKept'
    BY <2>1 DEF StartInv, StdKept
  <2> QED
    BY <1>0, <2>2, <2>3, <2>4, <2>5, <2>6, <2>7, <2>8 DEF StartInv, AllClosed
<1>4. CASE files_opened' # files_opened
  <2>0. ~files_opened /\ files_opened'
    BY <1>1, <1>4
  <2>1. /\ np_fs' \in [DOMAIN list'.file -> {NULL} \cup 0..MaxFd]
        /\ InOrder(np_fs', fd)
        /\ fd' = Given(np_fs', "np-log", fd)
    BY <1>4 DEF Receive, NpFilesOpened
  <2>2. np_fs' \in [DOMAIN np_fs' -> {NULL} \cup 0..MaxFd]
    BY <2>1
  <2>3. /\ \A k \in DOMAIN np_fs' : np_fs'[k] # NULL => fd'[np_fs'[k]] = <<"np-log", k>>
        /\ \A n \in 0..MaxFd : fd[n] # Nobody => fd'[n] = fd[n]
        /\ \A n \in 0..MaxFd : fd'[n] = fd[n] \/ \E k \in DOMAIN np_fs' : np_fs'[k] = n
    BY <2>1, <2>2, RowOfOpens
  <2>4. StartTypeOK'
    <3>1. fd' = [n \in 0..MaxFd |-> fd'[n]]
      BY <2>1 DEF Given
    <3> QED
      BY <1>0, <1>2, <2>2, <3>1 DEF StartTypeOK
  <2>5. FilesKeepDescriptors'
    <3>1. ASSUME NEW k \in DOMAIN mav_fs, mav_fs[k] # NULL
          PROVE  fd'[mav_fs[k]] = <<"mav-log", k>>
      <4>1. mav_fs[k] \in 0..MaxFd
        BY <1>0, <3>1 DEF StartTypeOK
      <4>2. fd[mav_fs[k]] = <<"mav-log", k>> /\ <<"mav-log", k>> # Nobody
        BY <1>0, <3>1 DEF FilesKeepDescriptors, Nobody
      <4> QED
        BY <2>3, <4>1, <4>2
    <3> QED
      BY <1>0, <2>3, <3>1 DEF FilesKeepDescriptors
  <2>6. NumbersKept'
    <3>1. \A c \in Conns : Connected(c)
      BY <1>0 DEF StartInv, NumbersKept
    <3>2. \A c \in Conns : sd[c] > 0 => sd[c] \in 0..MaxFd
      BY <1>0 DEF StartTypeOK
    <3>3. \A c \in Conns : Connected(c)'
      BY <1>0, <2>3, <3>1, <3>2 DEF Connected, Conn, Nobody, Conns
    <3> QED
      BY <1>0, <3>3 DEF NumbersKept, Connected
  <2>7. Opened'
    <3>1. ASSUME NEW c \in Conns, Own(c)
          PROVE  Own(c)'
      <4>1. sd[c] \in 0..MaxFd /\ fd[sd[c]] # Nobody
        BY <1>0, <3>1 DEF Own, StartTypeOK, Conn, Nobody, Conns
      <4> QED
        BY <1>0, <2>3, <3>1, <4>1 DEF Own
    <3> QED
      BY <1>0, <3>1 DEF StartInv, Opened, Conns
  <2>8. Accounted'
    <3> SUFFICES ASSUME NEW n \in 1..MaxFd, Taken(n)'
                 PROVE  n \in Kept' \cup LogNumbers'
      BY <1>0 DEF Accounted
    <3>1. n \in 0..MaxFd
      BY DescriptorAssumption
    <3>2. CASE fd'[n] # fd[n]
      BY <2>3, <3>1, <3>2 DEF LogNumbers
    <3>3. CASE fd'[n] = fd[n]
      <4>1. n \in Kept \cup LogNumbers
        BY <1>0, <3>3 DEF Accounted, Taken
      <4>2. Kept' = Kept
        BY <1>0 DEF Kept
      <4>3. n \in LogNumbers => n \in LogNumbers'
        BY <1>0, <2>0 DEF LogNumbers, Once
      <4> QED
        BY <4>1, <4>2, <4>3
    <3> QED
      BY <3>2, <3>3
  <2>9. Once'
    BY <1>0, <2>0 DEF Once
  <2>10. StdKept'
    BY <2>3, DescriptorAssumption DEF StartInv, StdKept, Std, Nobody
  <2> QED
    BY <1>0, <2>4, <2>5, <2>6, <2>7, <2>8, <2>9, <2>10 DEF StartInv, AllClosed
<1> QED
  BY <1>3, <1>4

\* The receivers' end opens and closes nothing.
LEMMA StopReceiversStep == StartInv /\ StopReceivers => StartInv'
<1> SUFFICES ASSUME StartInv, StopReceivers
             PROVE  StartInv'
  OBVIOUS
<1>0. /\ pc = "run" /\ pc' = "close"
      /\ UNCHANGED <<fd, sd, available, mav_fs, np_fs, files_opened>>
  BY DEF StopReceivers, Main, nplogger
<1>1. StartTypeOK'
  BY <1>0 DEF StartInv, StartTypeOK, Pcs
<1>2. FilesKeepDescriptors'
  BY <1>0 DEF StartInv, FilesKeepDescriptors
<1>3. NumbersKept'
  BY <1>0 DEF StartInv, NumbersKept
<1>4. Opened' /\ AllClosed'
  BY <1>0 DEF Opened, AllClosed
<1>5. Accounted'
  BY <1>0 DEF StartInv, Accounted, Taken, Kept, LogNumbers
<1>6. Once' /\ StdKept'
  BY <1>0 DEF StartInv, Once, StdKept
<1> QED
  BY <1>1, <1>2, <1>3, <1>4, <1>5, <1>6 DEF StartInv

\* Numbers that are kept lead to connections or to nobody, so closing them
\* leaves the log files, and nothing else.
LEMMA CloseConnsStep == StartInv /\ CloseConns => StartInv'
<1> SUFFICES ASSUME StartInv, CloseConns
             PROVE  StartInv'
  OBVIOUS
<1>0. /\ pc = "close" /\ pc' = "logs"
      /\ UNCHANGED <<sd, available, mav_fs, np_fs, files_opened>>
      /\ fd' = [n \in 0..MaxFd |-> IF n \in Kept /\ n > 0 THEN Nobody ELSE fd[n]]
  BY DEF CloseConns, Close, Main, nplogger
<1>1. StartTypeOK'
  BY <1>0 DEF StartInv, StartTypeOK, Pcs
<1>2. ASSUME NEW n \in 0..MaxFd, n \in Kept, n > 0
      PROVE  (\E d \in Conns : fd[n] = Conn(d)) \/ fd[n] = Nobody
  BY <1>0, <1>2 DEF StartInv, NumbersKept, Kept
<1>3. FilesKeepDescriptors'
  <2>1. \A k : \A d \in Conns : /\ <<"mav-log", k>> # Conn(d)
                               /\ <<"np-log", k>> # Conn(d)
                               /\ <<"mav-log", k>> # Nobody
                               /\ <<"np-log", k>> # Nobody
    BY DEF Conns, Conn, Nobody
  <2>2. ASSUME NEW k \in DOMAIN mav_fs, mav_fs[k] # NULL
        PROVE  fd'[mav_fs[k]] = <<"mav-log", k>>
    <3>1. mav_fs[k] \in 0..MaxFd /\ fd[mav_fs[k]] = <<"mav-log", k>>
      BY <1>0, <2>2 DEF StartInv, StartTypeOK, FilesKeepDescriptors
    <3> QED
      BY <1>0, <1>2, <2>1, <3>1
  <2>3. ASSUME NEW k \in DOMAIN np_fs, np_fs[k] # NULL
        PROVE  fd'[np_fs[k]] = <<"np-log", k>>
    <3>1. np_fs[k] \in 0..MaxFd /\ fd[np_fs[k]] = <<"np-log", k>>
      BY <1>0, <2>3 DEF StartInv, StartTypeOK, FilesKeepDescriptors
    <3> QED
      BY <1>0, <1>2, <2>1, <3>1
  <2> QED
    BY <1>0, <2>2, <2>3 DEF FilesKeepDescriptors
<1>4. NumbersKept' /\ Opened' /\ AllClosed'
  BY <1>0 DEF NumbersKept, Opened, AllClosed
<1>5. Accounted'
  <2> SUFFICES ASSUME NEW n \in 1..MaxFd, Taken(n)'
               PROVE  n \in LogNumbers'
    BY <1>0 DEF Accounted
  <2>1. n \in 0..MaxFd /\ n > 0
    BY DescriptorAssumption
  <2>2. n \notin Kept /\ Taken(n)
    BY <1>0, <2>1 DEF Taken
  <2>3. LogNumbers' = LogNumbers
    BY <1>0 DEF LogNumbers
  <2> QED
    BY <1>0, <2>2, <2>3 DEF StartInv, Accounted
<1>6. Once'
  BY <1>0 DEF StartInv, Once
<1>7. StdKept'
  BY <1>0, DescriptorAssumption DEF StartInv, StdKept
<1> QED
  BY <1>1, <1>3, <1>4, <1>5, <1>6, <1>7 DEF StartInv

\* With the log files everything is closed.
LEMMA CloseLogsStep == StartInv /\ CloseLogs => StartInv'
<1> SUFFICES ASSUME StartInv, CloseLogs
             PROVE  StartInv'
  OBVIOUS
<1> DEFINE closed == (Range(mav_fs) \cup Range(np_fs)) \ {NULL}
<1>0. /\ pc = "logs" /\ pc' = "exited"
      /\ UNCHANGED <<sd, available, mav_fs, np_fs, files_opened>>
      /\ fd' = [n \in 0..MaxFd |-> IF n \in closed THEN Nobody ELSE fd[n]]
  BY DEF CloseLogs, Close, Main, nplogger
<1>1. StartTypeOK'
  <2> HIDE DEF closed
  <2> QED
    BY <1>0 DEF StartInv, StartTypeOK, Pcs
<1>2. \A n \in LogNumbers : n \in closed
  BY DescriptorAssumption DEF LogNumbers, Range, NULL
<1>3. AllClosed'
  <2>1. \A n \in 1..MaxFd : n \in 0..MaxFd
    BY DescriptorAssumption
  <2>2. \A n \in 1..MaxFd : fd'[n] \in {Nobody, Config}
    BY <1>0, <1>2, <2>1 DEF StartInv, Accounted, Taken
  <2>3. 0 \notin closed
    <3>1. \A k \in DOMAIN mav_fs : mav_fs[k] # 0
      BY <1>0 DEF StartInv, FilesKeepDescriptors, StdKept, Std, NULL
    <3>2. \A k \in DOMAIN np_fs : np_fs[k] # 0
      BY <1>0 DEF StartInv, FilesKeepDescriptors, StdKept, Std, NULL
    <3> QED
      BY <3>1, <3>2 DEF Range
  <2>4. fd'[0] = Std
    BY <1>0, <2>3, DescriptorAssumption DEF StartInv, StdKept
  <2> QED
    BY <2>1, <2>2, <2>4, DescriptorAssumption DEF AllClosed
<1>4. StdKept'
  <2>1. \A k \in DOMAIN mav_fs : mav_fs[k] # 0
    BY <1>0 DEF StartInv, FilesKeepDescriptors, StdKept, Std, NULL
  <2>2. \A k \in DOMAIN np_fs : np_fs[k] # 0
    BY <1>0 DEF StartInv, FilesKeepDescriptors, StdKept, Std, NULL
  <2>3. 0 \notin closed
    BY <2>1, <2>2 DEF Range
  <2> QED
    BY <1>0, <2>3, DescriptorAssumption DEF StartInv, StdKept
<1>5. FilesKeepDescriptors' /\ NumbersKept' /\ Opened' /\ Accounted' /\ Once'
  BY <1>0 DEF StartInv, FilesKeepDescriptors, NumbersKept, Opened, Accounted, Once
<1> QED
  BY <1>1, <1>3, <1>4, <1>5 DEF StartInv

\* The invariant of the descriptors.
THEOREM StartInvariance == StartSpec => []StartInv
<1>1. StartInv /\ [StartNext]_allvars => StartInv'
  <2> SUFFICES ASSUME StartInv, [StartNext]_allvars
               PROVE  StartInv'
    OBVIOUS
  <2>1. CASE HandleBody \/ Ended \/ UNCHANGED allvars
    <3>1. UNCHANGED <<startup, files_opened>>
      BY <2>1 DEF HandleBody, WriteRigidBody, Ended, allvars, nplogger
    <3>2. UNCHANGED <<pc, fd, sd, available, mav_fs, np_fs, files_opened>>
      BY <3>1 DEF startup
    <3>3. StartTypeOK' /\ FilesKeepDescriptors' /\ Once' /\ StdKept' /\ AllClosed'
      BY <3>2 DEF StartInv, StartTypeOK, FilesKeepDescriptors, Once, StdKept, AllClosed
    <3>4. NumbersKept' /\ Opened'
      BY <3>2 DEF StartInv, NumbersKept, Connected, Stale, Lowest, Free, Opened, Own
    <3>5. Accounted'
      BY <3>2 DEF StartInv, Accounted, Taken, Kept, LogNumbers
    <3> QED
      BY <3>3, <3>4, <3>5 DEF StartInv
  <2> QED
    BY <2>1, OpenJoystickStep, ConnectMavStep, BindQgcStep, JoinGroupStep, ReceiveStep,
       StopReceiversStep, CloseConnsStep, CloseLogsStep DEF StartNext
<1> QED
  BY <1>1, StartInitInv, PTL DEF StartSpec

\* The clean-up never closes a log file by the number of a connection.
THEOREM LogFilesKeepDescriptors == StartSpec => []FilesKeepDescriptors
<1>1. StartInv => FilesKeepDescriptors
  BY DEF StartInv
<1> QED
  BY <1>1, StartInvariance, PTL

\* What the program reads and writes while it runs are its own connections.
THEOREM OwnConnections == StartSpec => []ConnectionsAreOwn
<1>1. StartInv => ConnectionsAreOwn
  BY DEF StartInv, Opened, Own, ConnectionsAreOwn
<1> QED
  BY <1>1, StartInvariance, PTL

\* The clean-up leaves nothing open but the configuration file, which was
\* never kept (uiom_cleanup, utils_read_config_file).
THEOREM CleanUpClosesAll == StartSpec => []AllClosed
<1>1. StartInv => AllClosed
  BY DEF StartInv
<1> QED
  BY <1>1, StartInvariance, PTL

-----------------------------------------------------------------------------
(* The tracking system's logger within the program.                        *)

\* Embedded in the life of the program, the logger does only what it would do
\* on its own: it stands still while main() makes and closes connections.
THEOREM ProgramRunsLogger == StartSpec => Spec
<1>1. StartInit => Init
  BY DEF StartInit
<1>2. [StartNext]_allvars => [Next]_vars
  <2> SUFFICES ASSUME StartNext \/ UNCHANGED allvars
               PROVE  [Next]_vars
    OBVIOUS
  <2>1. CASE Receive
    BY <2>1 DEF Receive, Next
  <2>2. CASE HandleBody
    BY <2>2 DEF HandleBody, Next
  <2>3. CASE ~(Receive \/ HandleBody)
    <3>1. UNCHANGED nplogger
      BY <2>3 DEF StartNext, OpenJoystick, ConnectMav, BindQgc, JoinGroup,
         StopReceivers, CloseConns, CloseLogs, Ended, Main, allvars
    <3> QED
      BY <3>1 DEF nplogger, vars
  <2> QED
    BY <2>1, <2>2, <2>3
<1> QED
  BY <1>1, <1>2, PTL DEF StartSpec, Spec

\* Whatever connections fail and whenever the program is stopped, a body before
\* "all" is logged in its own file and one behind it in that of the body before.
THEOREM ProgramLinesInTheirFile == StartSpec => FileOfLine
BY ProgramRunsLogger, LinesInTheirFile

\* ... and no line of a body that stands before "all" is lost.
THEOREM ProgramLogsEveryPacket == StartSpec => []NoLineLost
BY ProgramRunsLogger, EveryPacketLogged, PTL
=============================================================================
