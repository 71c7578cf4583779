----------------------------- MODULE NpConnProofs -----------------------------
(***************************************************************************)
(* However many elements a frame has, with however many markers each: its  *)
(* packet is read back element by element.                                 *)
(*                                                                         *)
(* A packet is a row of sequences of cells, some of them flattened lists.  *)
(* Cat and Flattened say where the cells of a row and of a list stand;     *)
(* SkipSets and the lemmas after it, that skipping elements leads from one *)
(* end to the next; PacketLayout and Unpacking, that every list is found   *)
(* where the packet has it; SetRead, BodyRead and OthersAndLabeledRead,    *)
(* that an element is read as it was written.  The invariant of            *)
(* np_conn_parse_packet then counts the calls.                             *)
(***************************************************************************)
EXTENDS NpConn, SequenceTheorems, Recursion

-----------------------------------------------------------------------------
(* Sequences of cells, whatever the cells are.                             *)

IsSeq(s) == s \in Seq({s[k] : k \in DOMAIN s})

\* The cells of s stand in p from the pointer ptr on.
Holds(p, ptr, s) == \A k \in 0..(Len(s) - 1) : p[ptr + k] = s[k + 1]

\* Whatever it is a sequence of, it is one of its own cells.
LEMMA SeqOfCells ==
  ASSUME NEW S, NEW s \in Seq(S)
  PROVE  IsSeq(s)
<1>1. s \in [1..Len(s) -> S] /\ Len(s) \in Nat
  BY LenProperties
<1>2. s \in [1..Len(s) -> {s[k] : k \in DOMAIN s}]
  BY <1>1
<1> QED
  BY <1>1, <1>2, SeqDef DEF IsSeq

\* A sequence by its cells.
LEMMA SeqCells ==
  ASSUME NEW s, IsSeq(s)
  PROVE  Len(s) \in Nat /\ DOMAIN s = 1..Len(s) /\ s = [k \in 1..Len(s) |-> s[k]]
BY LenProperties DEF IsSeq

\* An array is a sequence.
LEMMA ArraySeq ==
  ASSUME NEW n \in Nat, NEW s, s = [k \in 1..n |-> s[k]]
  PROVE  IsSeq(s) /\ Len(s) = n
<1> DEFINE S == {s[k] : k \in 1..n}
<1>1. s \in [1..n -> S]
  OBVIOUS
<1>2. s \in Seq(S)
  BY <1>1, SeqDef
<1>3. Len(s) = n
  <2> HIDE DEF S
  <2> QED
  BY <1>1, <1>2, LenProperties
<1> QED
  BY <1>2, <1>3, SeqOfCells

\* Two sequences in a row.
LEMMA Cat ==
  ASSUME NEW s, NEW t, IsSeq(s), IsSeq(t)
  PROVE  /\ IsSeq(s \o t)
         /\ Len(s \o t) = Len(s) + Len(t)
         /\ \A k \in 1..Len(s) : (s \o t)[k] = s[k]
         /\ \A k \in 1..Len(t) : (s \o t)[Len(s) + k] = t[k]
<1> DEFINE S == {s[k] : k \in DOMAIN s} \cup {t[k] : k \in DOMAIN t}
<1>1. s \in Seq(S) /\ t \in Seq(S)
  BY SeqMonotonic DEF IsSeq
<1>2. Len(s) \in Nat /\ Len(t) \in Nat
  BY SeqCells
<1> HIDE DEF S
<1>3. /\ s \o t \in Seq(S)
      /\ Len(s \o t) = Len(s) + Len(t)
      /\ \A j \in 1..(Len(s) + Len(t)) :
            (s \o t)[j] = IF j <= Len(s) THEN s[j] ELSE t[j - Len(s)]
  BY <1>1, ConcatProperties
<1>4. IsSeq(s \o t)
  BY <1>3, SeqOfCells
<1>5. \A k \in 1..Len(s) : k \in 1..(Len(s) + Len(t)) /\ k <= Len(s)
  BY <1>2
<1>6. \A k \in 1..Len(t) : /\ Len(s) + k \in 1..(Len(s) + Len(t))
                           /\ ~(Len(s) + k <= Len(s))
                           /\ (Len(s) + k) - Len(s) = k
  BY <1>2
<1> QED
  BY <1>3, <1>4, <1>5, <1>6

\* How long two sequences in a row are.
LEMMA CatLen ==
  ASSUME NEW s, NEW t, IsSeq(s), IsSeq(t)
  PROVE  IsSeq(s \o t) /\ Len(s \o t) = Len(s) + Len(t)
BY Cat

\* Where a row of two stands, the second one stands behind the first.
LEMMA HoldsCat ==
  ASSUME NEW s, NEW t, IsSeq(s), IsSeq(t), NEW p, NEW ptr \in Nat,
         Holds(p, ptr, s \o t)
  PROVE  Holds(p, ptr, s) /\ Holds(p, ptr + Len(s), t)
<1>1. /\ Len(s) \in Nat /\ Len(t) \in Nat
      /\ Len(s \o t) = Len(s) + Len(t)
      /\ \A k \in 1..Len(s) : (s \o t)[k] = s[k]
      /\ \A k \in 1..Len(t) : (s \o t)[Len(s) + k] = t[k]
  BY Cat, SeqCells
<1>2. ASSUME NEW k \in 0..(Len(s) - 1)
      PROVE  p[ptr + k] = s[k + 1]
  <2>1. k \in 0..(Len(s \o t) - 1) /\ k + 1 \in 1..Len(s)
    BY <1>1
  <2> QED
    BY <1>1, <2>1 DEF Holds
<1>3. ASSUME NEW k \in 0..(Len(t) - 1)
      PROVE  p[(ptr + Len(s)) + k] = t[k + 1]
  <2>1. /\ Len(s) + k \in 0..(Len(s \o t) - 1) /\ k + 1 \in 1..Len(t)
        /\ (Len(s) + k) + 1 = Len(s) + (k + 1)
        /\ ptr + (Len(s) + k) = (ptr + Len(s)) + k
    BY <1>1
  <2>2. p[ptr + (Len(s) + k)] = (s \o t)[Len(s) + (k + 1)]
    BY <2>1 DEF Holds
  <2> QED
    BY <1>1, <2>1, <2>2
<1> QED
  BY <1>2, <1>3 DEF Holds

-----------------------------------------------------------------------------
(* The sequences of a list, one after the other.                           *)

\* off leads to the end of each of the first n sequences of seqs.
Ends(off, seqs, n) ==
    /\ off \in [0..n -> Nat]
    /\ off[0] = 0
    /\ \A j \in 1..n : off[j] = off[j - 1] + Len(seqs[j])

IsList(seqs, n) ==
    /\ n \in Nat
    /\ seqs = [j \in 1..n |-> seqs[j]]
    /\ \A j \in 1..n : IsSeq(seqs[j])

\* The ends come one after the other.
LEMMA EndsRise ==
  ASSUME NEW n, NEW seqs, IsList(seqs, n), NEW off, Ends(off, seqs, n),
         NEW j \in 0..n, NEW m \in j..n
  PROVE  off[j] <= off[m]
<1> DEFINE T == {x \in Nat : j + x <= n => off[j] <= off[j + x]}
<1>0. n \in Nat
  BY DEF IsList
<1>1. 0 \in T
  BY <1>0 DEF Ends
<1>2. ASSUME NEW x \in Nat, x \in T
      PROVE  x + 1 \in T
  <2> SUFFICES ASSUME j + (x + 1) <= n
               PROVE  off[j] <= off[j + (x + 1)]
    OBVIOUS
  <2>1. /\ j + (x + 1) \in 1..n /\ (j + (x + 1)) - 1 = j + x
        /\ j + x <= n /\ j + x \in 0..n
    BY <1>0
  <2>2. off[j] <= off[j + x]
    BY <1>2, <2>1
  <2>3. off[j + (x + 1)] = off[j + x] + Len(seqs[j + (x + 1)])
    BY <2>1 DEF Ends
  <2>4. Len(seqs[j + (x + 1)]) \in Nat
    BY <2>1, SeqCells DEF IsList
  <2>5. off[j] \in Nat /\ off[j + x] \in Nat
    BY <2>1 DEF Ends
  <2> QED
    BY <2>2, <2>3, <2>4, <2>5
<1>3. \A x \in Nat : x \in T
  <2> HIDE DEF T
  <2> QED
    BY <1>1, <1>2, NumberInduction
<1>4. m - j \in Nat /\ j + (m - j) = m /\ m <= n
  BY <1>0
<1>5. m - j \in T
  BY <1>3, <1>4
<1> QED
  BY <1>4, <1>5

\* The ends of lists whose elements have one length.
Pitch(seqs, n, c) == \A j \in 1..n : Len(seqs[j]) = c

\* Elements of equal length end at its multiples.
LEMMA EndsOfPitch ==
  ASSUME NEW n \in Nat, NEW seqs, NEW off, Ends(off, seqs, n), NEW c \in Nat,
         Pitch(seqs, n, c)
  PROVE  \A j \in 0..n : off[j] = c * j
<1> DEFINE g == [j \in Nat |-> c * j]
<1>1. off[0] = g[0]
  BY DEF Ends
<1>2. \A j \in 1..n : off[j - 1] = g[j - 1] => off[j] = g[j]
  <2> SUFFICES ASSUME NEW j \in 1..n, off[j - 1] = g[j - 1]
               PROVE  off[j] = g[j]
    OBVIOUS
  <2>1. off[j] = off[j - 1] + c
    BY DEF Ends, Pitch
  <2>2. j - 1 \in Nat /\ j \in Nat
    OBVIOUS
  <2>3. c * j = c * (j - 1) + c
    BY <2>2
  <2>4. g[j - 1] = c * (j - 1) /\ g[j] = c * j
    BY <2>2
  <2> HIDE DEF g
  <2> QED
    BY <2>1, <2>3, <2>4
<1>3. InStride(off, g, n)
  BY <1>1, <1>2 DEF InStride
<1>4. \A j \in 0..n : off[j] = g[j]
  <2> HIDE DEF g
  <2> QED
    BY <1>3, RecursionUnique
<1> QED
  BY <1>4

\* flat collects them, one after the other.
Flattens(flat, seqs, n) ==
    flat = [j \in 1..n |-> IF j = 1 THEN seqs[j] ELSE flat[j - 1] \o seqs[j]]

\* One more element flattened (FlattenSeq recurses from the end).
LEMMA Flattening ==
  ASSUME NEW n \in Nat \ {0}, NEW seqs, IsList(seqs, n),
         NEW flat, Flattens(flat, seqs, n)
  PROVE  /\ flat[1] = seqs[1]
         /\ \A j \in 2..n : flat[j] = flat[j - 1] \o seqs[j]
         /\ \A j \in 1..n : IsSeq(flat[j])
<1> DEFINE T == {j \in Nat : j + 1 <= n => IsSeq(flat[j + 1])}
<1>0. \A j \in 1..n : flat[j] = IF j = 1 THEN seqs[j] ELSE flat[j - 1] \o seqs[j]
  BY Zenon DEF Flattens
<1>a. flat[1] = seqs[1]
  BY <1>0
<1>b. ASSUME NEW j \in 2..n
      PROVE  flat[j] = flat[j - 1] \o seqs[j]
  <2>1. j \in 1..n /\ j # 1
    OBVIOUS
  <2> QED
    BY <1>0, <2>1, Zenon
<1>1. 0 \in T
  BY <1>a DEF IsList
<1>2. ASSUME NEW j \in Nat, j \in T
      PROVE  j + 1 \in T
  <2> SUFFICES ASSUME (j + 1) + 1 <= n
               PROVE  IsSeq(flat[(j + 1) + 1])
    OBVIOUS
  <2>1. /\ (j + 1) + 1 \in 2..n /\ (j + 1) + 1 \in 1..n
        /\ ((j + 1) + 1) - 1 = j + 1 /\ j + 1 <= n
    OBVIOUS
  <2>2. flat[(j + 1) + 1] = flat[((j + 1) + 1) - 1] \o seqs[(j + 1) + 1]
    BY <1>b, <2>1
  <2>3. IsSeq(flat[j + 1])
    BY <1>2, <2>1
  <2>4. IsSeq(seqs[(j + 1) + 1])
    BY <2>1 DEF IsList
  <2> QED
    BY <2>1, <2>2, <2>3, <2>4, Cat
<1>3. \A j \in Nat : j \in T
  <2> HIDE DEF T
  <2> QED
    BY <1>1, <1>2, NumberInduction
<1>4. ASSUME NEW j \in 1..n
      PROVE  IsSeq(flat[j])
  <2>1. j - 1 \in Nat /\ (j - 1) + 1 = j /\ j <= n
    OBVIOUS
  <2>2. j - 1 \in T
    BY <1>3, <2>1
  <2> QED
    BY <2>1, <2>2
<1> QED
  BY <1>a, <1>b, <1>4

\* There is such a function, and so the definition of FlattenSeq picks one.
LEMMA FlattenExists ==
  ASSUME NEW n \in Nat \ {0}, NEW seqs, IsList(seqs, n)
  PROVE  \E flat : Flattens(flat, seqs, n)
<1> DEFINE S == UNION {{seqs[j][k] : k \in DOMAIN seqs[j]} : j \in 1..n}
           step == [m \in 1..(n - 1) |-> [v \in Seq(S) |-> v \o seqs[m + 1]]]
<1>1. ASSUME NEW j \in 1..n
      PROVE  seqs[j] \in Seq(S)
  <2>1. {seqs[j][k] : k \in DOMAIN seqs[j]} \subseteq S
    OBVIOUS
  <2> HIDE DEF S
  <2> QED
    BY <2>1, SeqMonotonic DEF IsList, IsSeq
<1> HIDE DEF S
<1>2. \A v \in Seq(S) : \A m \in 1..(n - 1) : v \o seqs[m + 1] \in Seq(S)
  <2> SUFFICES ASSUME NEW v \in Seq(S), NEW m \in 1..(n - 1)
               PROVE  v \o seqs[m + 1] \in Seq(S)
    OBVIOUS
  <2>1. m + 1 \in 1..n
    OBVIOUS
  <2> QED
    BY <1>1, <2>1, ConcatProperties
<1>3. step \in [1..(n - 1) -> [Seq(S) -> Seq(S)]]
  BY <1>2
<1>4. seqs[1] \in Seq(S) /\ n - 1 \in Nat
  BY <1>1
<1>5. PICK f \in [0..(n - 1) -> Seq(S)] : Follows(f, n - 1, seqs[1], step)
  <2> HIDE DEF step
  <2> QED
    BY <1>3, <1>4, RecursionExists
<1>6. f = [m \in 0..(n - 1) |-> IF m = 0 THEN seqs[1] ELSE step[m][f[m - 1]]]
  BY <1>5 DEF Follows
<1>7. \A m \in 0..(n - 1) : f[m] = IF m = 0 THEN seqs[1] ELSE step[m][f[m - 1]]
  BY <1>6, Zenon
<1>8. \A m \in 1..(n - 1) : f[m] = f[m - 1] \o seqs[m + 1]
  <2> SUFFICES ASSUME NEW m \in 1..(n - 1)
               PROVE  f[m] = f[m - 1] \o seqs[m + 1]
    OBVIOUS
  <2>1. f[m] = step[m][f[m - 1]]
    <3> HIDE DEF step
    <3> QED
      BY <1>7
  <2>2. f[m - 1] \in Seq(S)
    OBVIOUS
  <2> QED
    BY <2>1, <2>2
<1> DEFINE flat == [j \in 1..n |-> f[j - 1]]
<1>9. ASSUME NEW j \in 1..n
      PROVE  flat[j] = IF j = 1 THEN seqs[j] ELSE flat[j - 1] \o seqs[j]
  <2>1. CASE j = 1
    <3>1. 0 \in 0..(n - 1) /\ flat[j] = f[0]
      BY <2>1
    <3>2. f[0] = seqs[1]
      BY <1>7, <3>1
    <3> QED
      BY <2>1, <3>1, <3>2
  <2>2. CASE j # 1
    <3>1. j - 1 \in 1..(n - 1) /\ (j - 1) + 1 = j /\ (j - 1) \in 1..n
      BY <2>2
    <3>2. flat[j] = f[j - 1] /\ flat[j - 1] = f[(j - 1) - 1]
      BY <3>1
    <3> HIDE DEF flat
    <3> QED
      BY <1>8, <2>2, <3>1, <3>2
  <2> QED
    BY <2>1, <2>2
<1>10. flat = [j \in 1..n |-> flat[j]]
  OBVIOUS
<1> HIDE DEF flat
<1>11. Flattens(flat, seqs, n)
  BY <1>9, <1>10 DEF Flattens
<1> QED
  BY <1>11

\* Where the cells of each sequence of the list are.
LEMMA Flattened ==
  ASSUME NEW n, NEW seqs, IsList(seqs, n)
  PROVE  \E off : /\ Ends(off, seqs, n)
                  /\ IsSeq(FlattenSeq(seqs))
                  /\ Len(FlattenSeq(seqs)) = off[n]
                  /\ \A j \in 1..n : \A k \in 1..Len(seqs[j]) :
                        FlattenSeq(seqs)[off[j - 1] + k] = seqs[j][k]
<1>1. Len(seqs) = n /\ n \in Nat
  BY ArraySeq DEF IsList
<1>2. CASE n = 0
  <2>1. FlattenSeq(seqs) = seqs
    BY <1>1, <1>2 DEF FlattenSeq
  <2>2. IsSeq(seqs)
    BY ArraySeq DEF IsList
  <2>3. Ends([j \in 0..0 |-> 0], seqs, n)
    BY <1>2 DEF Ends
  <2> QED
    BY <1>1, <1>2, <2>1, <2>2, <2>3
<1>3. CASE n # 0
  <2>1. n \in Nat \ {0}
    BY <1>1, <1>3
  <2>2. PICK flat : Flattens(flat, seqs, n) /\ FlattenSeq(seqs) = flat[n]
    <3> DEFINE flat == CHOOSE flat : Flattens(flat, seqs, n)
    <3>1. Flattens(flat, seqs, n)
      BY <2>1, FlattenExists
    <3>2. FlattenSeq(seqs) = flat[n]
      BY <1>1, <1>3, Zenon DEF FlattenSeq, Flattens
    <3> HIDE DEF flat
    <3> QED
      BY <3>1, <3>2
  <2>3. /\ flat[1] = seqs[1]
        /\ \A j \in 2..n : flat[j] = flat[j - 1] \o seqs[j]
        /\ \A j \in 1..n : IsSeq(flat[j])
    BY <2>1, <2>2, Flattening
  <2> DEFINE off == [j \in 0..n |-> IF j = 0 THEN 0 ELSE Len(flat[j])]
  <2>4. off \in [0..n -> Nat] /\ off[0] = 0 /\ off[n] = Len(flat[n])
    BY <2>1, <2>3, SeqCells
  <2>5. \A j \in 1..n : off[j] = Len(flat[j])
    OBVIOUS
  <2> HIDE DEF off
  <2>6. ASSUME NEW j \in 1..n
        PROVE  /\ off[j] = off[j - 1] + Len(seqs[j])
               /\ \A k \in 1..off[j - 1] : j # 1 /\ flat[j][k] = flat[j - 1][k]
               /\ \A k \in 1..Len(seqs[j]) : flat[j][off[j - 1] + k] = seqs[j][k]
    <3>0. IsSeq(seqs[j]) /\ Len(seqs[j]) \in Nat
      BY SeqCells DEF IsList
    <3>1. CASE j = 1
      <4>1. flat[j] = seqs[j] /\ off[j - 1] = 0 /\ off[j] = Len(seqs[j])
        BY <2>3, <2>4, <2>5, <3>1
      <4> QED
        BY <3>0, <4>1
    <3>2. CASE j # 1
      <4>1. j \in 2..n /\ j - 1 \in 1..n
        BY <1>1, <3>2
      <4>2. flat[j] = flat[j - 1] \o seqs[j] /\ IsSeq(flat[j - 1])
        BY <2>3, <4>1
      <4>3. off[j - 1] = Len(flat[j - 1]) /\ off[j] = Len(flat[j])
        BY <2>5, <4>1
      <4> QED
        <5>1. /\ Len(flat[j]) = Len(flat[j - 1]) + Len(seqs[j])
              /\ \A k \in 1..Len(flat[j - 1]) : flat[j][k] = flat[j - 1][k]
              /\ \A k \in 1..Len(seqs[j]) : flat[j][Len(flat[j - 1]) + k] = seqs[j][k]
          <6> DEFINE a == flat[j - 1]
                     b == seqs[j]
          <6>1. IsSeq(a) /\ IsSeq(b) /\ flat[j] = a \o b
            BY <3>0, <4>2
          <6> HIDE DEF a, b
          <6>2. /\ Len(a \o b) = Len(a) + Len(b)
                /\ \A k \in 1..Len(a) : (a \o b)[k] = a[k]
                /\ \A k \in 1..Len(b) : (a \o b)[Len(a) + k] = b[k]
            BY <6>1, Cat
          <6>3. /\ Len(flat[j]) = Len(a) + Len(b)
                /\ \A k \in 1..Len(a) : flat[j][k] = a[k]
                /\ \A k \in 1..Len(b) : flat[j][Len(a) + k] = b[k]
            BY <6>1, <6>2
          <6> QED
            BY <6>3 DEF a, b
        <5> QED
          BY <3>2, <4>3, <5>1
    <3> QED
      BY <3>1, <3>2
  <2>7. Ends(off, seqs, n)
    BY <2>4, <2>6 DEF Ends
  <2> DEFINE T == {m \in Nat : m <= n =>
                     \A j \in 1..m : \A k \in 1..Len(seqs[j]) :
                        flat[m][off[j - 1] + k] = seqs[j][k]}
  <2>8. 0 \in T
    OBVIOUS
  <2>9. ASSUME NEW m \in Nat, m \in T
        PROVE  m + 1 \in T
    <3> SUFFICES ASSUME m + 1 <= n, NEW j \in 1..(m + 1), NEW k \in 1..Len(seqs[j])
                 PROVE  flat[m + 1][off[j - 1] + k] = seqs[j][k]
      OBVIOUS
    <3>1. m + 1 \in 1..n /\ (m + 1) - 1 = m /\ j \in 1..n
      BY <1>1
    <3>2. CASE j = m + 1
      BY <2>6, <3>1, <3>2
    <3>3. CASE j # m + 1
      <4>1. j \in 1..m /\ m <= n
        BY <1>1, <3>3
      <4>2. flat[m][off[j - 1] + k] = seqs[j][k]
        BY <2>9, <4>1
      <4>3. off[j] <= off[m] /\ off[j] = off[j - 1] + Len(seqs[j]) /\ off[j - 1] \in Nat
        <5>6. off[j] <= off[m]
          <6>1. j \in 0..n /\ m \in j..n
            BY <1>1, <4>1
          <6> QED
            BY <2>7, <6>1, EndsRise
        <5>7. off[j] = off[j - 1] + Len(seqs[j])
          BY <2>6, <3>1
        <5>8. off[j - 1] \in Nat
          BY <1>1, <2>4, <3>1
        <5> QED
          BY <5>6, <5>7, <5>8
      <4>4. off[m] \in Nat /\ Len(seqs[j]) \in Nat
        BY <2>4, <3>1, SeqCells DEF IsList
      <4>5. off[j - 1] + k \in 1..off[m]
        BY <4>3, <4>4
      <4>6. flat[m + 1][off[j - 1] + k] = flat[m][off[j - 1] + k]
        BY <2>6, <3>1, <4>5
      <4> QED
        BY <4>2, <4>6
    <3> QED
      BY <3>2, <3>3
  <2>10. n \in T
    <3> HIDE DEF T
    <3> QED
      BY <1>1, <2>8, <2>9, NumberInduction
  <2>11. /\ IsSeq(FlattenSeq(seqs))
         /\ Len(FlattenSeq(seqs)) = off[n]
         /\ \A j \in 1..n : \A k \in 1..Len(seqs[j]) :
               FlattenSeq(seqs)[off[j - 1] + k] = seqs[j][k]
    <3>1. n \in 1..n
      BY <2>1
    <3>2. \A j \in 1..n : \A k \in 1..Len(seqs[j]) :
             flat[n][off[j - 1] + k] = seqs[j][k]
      BY <1>1, <2>10
    <3> QED
      BY <2>2, <2>3, <2>4, <3>1, <3>2
  <2> QED
    BY <2>7, <2>11
<1> QED
  BY <1>2, <1>3
\* Every sequence of a list stands in p where the ones before it end.
LEMMA HoldsList ==
  ASSUME NEW n, NEW seqs, IsList(seqs, n), NEW p, NEW ptr \in Nat,
         Holds(p, ptr, FlattenSeq(seqs))
  PROVE  \E off : /\ Ends(off, seqs, n)
                  /\ Len(FlattenSeq(seqs)) = off[n]
                  /\ \A j \in 1..n : Holds(p, ptr + off[j - 1], seqs[j])
<1> DEFINE flat == FlattenSeq(seqs)
<1>1. PICK off : /\ Ends(off, seqs, n)
                 /\ Len(flat) = off[n]
                 /\ \A j \in 1..n : \A k \in 1..Len(seqs[j]) :
                       flat[off[j - 1] + k] = seqs[j][k]
  BY Flattened
<1> HIDE DEF flat
<1>2. ASSUME NEW j \in 1..n, NEW k \in 0..(Len(seqs[j]) - 1)
      PROVE  p[(ptr + off[j - 1]) + k] = seqs[j][k + 1]
  <2>1. n \in Nat /\ Len(seqs[j]) \in Nat
    BY SeqCells DEF IsList
  <2>2. off[j - 1] \in Nat /\ off[n] \in Nat /\ off[j] = off[j - 1] + Len(seqs[j])
    BY <1>1, <2>1 DEF Ends
  <2>3. off[j] <= off[n]
    <3>1. j \in 0..n /\ n \in j..n
      BY <2>1
    <3> QED
      BY <1>1, <3>1, EndsRise
  <2>4. /\ off[j - 1] + k \in 0..(Len(flat) - 1) /\ k + 1 \in 1..Len(seqs[j])
        /\ (off[j - 1] + k) + 1 = off[j - 1] + (k + 1)
        /\ ptr + (off[j - 1] + k) = (ptr + off[j - 1]) + k
    <3> DEFINE b == off[j - 1]
               l == Len(seqs[j])
               m == Len(flat)
    <3>1. b \in Nat /\ l \in Nat /\ m \in Nat /\ b + l <= m /\ k \in 0..(l - 1)
      BY <1>1, <2>1, <2>2, <2>3
    <3> HIDE DEF b, l, m
    <3>2. /\ b + k \in 0..(m - 1) /\ k + 1 \in 1..l
          /\ (b + k) + 1 = b + (k + 1)
          /\ ptr + (b + k) = (ptr + b) + k
      BY <3>1
    <3> QED
      BY <3>2 DEF b, l, m
  <2>5. p[ptr + (off[j - 1] + k)] = flat[(off[j - 1] + k) + 1]
    BY <2>4 DEF Holds, flat
  <2>6. flat[off[j - 1] + (k + 1)] = seqs[j][k + 1]
    BY <1>1, <2>4
  <2> QED
    BY <2>4, <2>5, <2>6
<1>3. \A j \in 1..n : Holds(p, ptr + off[j - 1], seqs[j])
  BY <1>2 DEF Holds
<1> QED
  BY <1>1, <1>3 DEF flat

-----------------------------------------------------------------------------
(* What the pieces of a packet are made of.                                *)

\* A single cell.
LEMMA One ==
  ASSUME NEW c
  PROVE  /\ IsSeq(<<c>>) /\ Len(<<c>>) = 1
         /\ \A p : \A ptr \in Nat : Holds(p, ptr, <<c>>) => p[ptr] = c
<1>1. <<c>> = [k \in 1..1 |-> <<c>>[k]]
  OBVIOUS
<1>2. IsSeq(<<c>>) /\ Len(<<c>>) = 1
  BY <1>1, ArraySeq
<1>3. ASSUME NEW p, NEW ptr \in Nat, Holds(p, ptr, <<c>>)
      PROVE  p[ptr] = c
  <2>1. 0 \in 0..(Len(<<c>>) - 1) /\ ptr + 0 = ptr /\ <<c>>[0 + 1] = c
    BY <1>2
  <2> QED
    BY <1>3, <2>1 DEF Holds
<1> QED
  BY <1>2, <1>3

\* Two cells.
LEMMA Two ==
  ASSUME NEW a, NEW b
  PROVE  /\ IsSeq(<<a, b>>) /\ Len(<<a, b>>) = 2
         /\ \A p : \A ptr \in Nat :
               Holds(p, ptr, <<a, b>>) => p[ptr] = a /\ p[ptr + 1] = b
<1>1. <<a, b>> = [k \in 1..2 |-> <<a, b>>[k]]
  OBVIOUS
<1>2. IsSeq(<<a, b>>) /\ Len(<<a, b>>) = 2
  BY <1>1, ArraySeq
<1>3. ASSUME NEW p, NEW ptr \in Nat, Holds(p, ptr, <<a, b>>)
      PROVE  p[ptr] = a /\ p[ptr + 1] = b
  <2>1. 0 \in 0..(Len(<<a, b>>) - 1) /\ ptr + 0 = ptr /\ <<a, b>>[0 + 1] = a
    BY <1>2
  <2>2. 1 \in 0..(Len(<<a, b>>) - 1) /\ <<a, b>>[1 + 1] = b
    BY <1>2
  <2> QED
    BY <1>3, <2>1, <2>2 DEF Holds
<1> QED
  BY <1>2, <1>3

\* The three fields of a position, read one by one.
LEMMA ThreeCells ==
  ASSUME NEW tag
  PROVE  /\ IsSeq(Cells3(tag)) /\ Len(Cells3(tag)) = 3
         /\ \A p : \A ptr \in Nat :
               Holds(p, ptr, Cells3(tag))
                  => <<p[ptr], p[ptr + 1], p[ptr + 2]>> = Cells3(tag)
<1> DEFINE c == Cells3(tag)
<1>1. PICK x, y, z : c = <<x, y, z>>
  BY DEF Cells3
<1> HIDE DEF c
<1>2. c = [k \in 1..3 |-> c[k]]
  BY <1>1
<1>3. IsSeq(c) /\ Len(c) = 3
  BY <1>2, ArraySeq
<1>4. ASSUME NEW p, NEW ptr \in Nat, Holds(p, ptr, c)
      PROVE  <<p[ptr], p[ptr + 1], p[ptr + 2]>> = c
  <2>1. \A k \in 0..2 : p[ptr + k] = c[k + 1]
    BY <1>3, <1>4 DEF Holds
  <2>2. p[ptr + 0] = c[0 + 1] /\ p[ptr + 1] = c[1 + 1] /\ p[ptr + 2] = c[2 + 1]
    BY <2>1
  <2>3. ptr + 0 = ptr /\ c[0 + 1] = x /\ c[1 + 1] = y /\ c[2 + 1] = z
    BY <1>1
  <2> QED
    BY <1>1, <2>2, <2>3
<1> QED
  BY <1>3, <1>4 DEF c

\* A list of positions: n triples.
ArePositions(seqs, n) ==
    /\ n \in Nat
    /\ seqs = [j \in 1..n |-> seqs[j]]
    /\ \A j \in 1..n : \E tag : seqs[j] = Cells3(tag)

\* A list of positions: three cells each.
LEMMA Triples ==
  ASSUME NEW n, NEW seqs, ArePositions(seqs, n)
  PROVE  /\ IsList(seqs, n)
         /\ IsSeq(FlattenSeq(seqs)) /\ Len(FlattenSeq(seqs)) = 3 * n
         /\ \A p : \A ptr \in Nat :
               Holds(p, ptr, FlattenSeq(seqs))
                  => \A k \in 1..n : marker(p, ptr, k - 1) = seqs[k]
<1>1. n \in Nat
  BY DEF ArePositions
<1>2. \A j \in 1..n : IsSeq(seqs[j]) /\ Len(seqs[j]) = 3
  BY ThreeCells DEF ArePositions
<1>3. IsList(seqs, n)
  BY <1>2 DEF IsList, ArePositions
<1>4. Pitch(seqs, n, 3)
  BY <1>2 DEF Pitch
<1>5. \A off : Ends(off, seqs, n) => \A j \in 0..n : off[j] = 3 * j
  BY <1>1, <1>4, EndsOfPitch
<1>6. IsSeq(FlattenSeq(seqs)) /\ Len(FlattenSeq(seqs)) = 3 * n
  <2>1. PICK off : /\ Ends(off, seqs, n) /\ IsSeq(FlattenSeq(seqs))
                   /\ Len(FlattenSeq(seqs)) = off[n]
    BY <1>3, Flattened
  <2>2. off[n] = 3 * n
    BY <1>1, <1>5, <2>1
  <2> QED
    BY <2>1, <2>2
<1>7. ASSUME NEW p, NEW ptr \in Nat, Holds(p, ptr, FlattenSeq(seqs)), NEW k \in 1..n
      PROVE  marker(p, ptr, k - 1) = seqs[k]
  <2>1. PICK off : /\ Ends(off, seqs, n)
                   /\ \A j \in 1..n : Holds(p, ptr + off[j - 1], seqs[j])
    BY <1>3, <1>7, HoldsList
  <2>2. k - 1 \in 0..n /\ k - 1 \in Nat
    BY <1>1
  <2>3. off[k - 1] = 3 * (k - 1)
    BY <1>5, <2>1, <2>2
  <2> DEFINE at == ptr + 3 * (k - 1)
  <2>4. at \in Nat /\ Holds(p, at, seqs[k])
    BY <2>1, <2>2, <2>3
  <2>5. PICK tag : seqs[k] = Cells3(tag)
    BY DEF ArePositions
  <2>6. <<p[at], p[at + 1], p[at + 2]>> = seqs[k]
    <3> HIDE DEF at
    <3> QED
      BY <2>4, <2>5, ThreeCells
  <2> QED
    BY <2>6 DEF marker
<1> QED
  BY <1>3, <1>6, <1>7
\* An array of n cells.
LEMMA Row ==
  ASSUME NEW n \in Nat, NEW s, s = [k \in 1..n |-> s[k]]
  PROVE  /\ IsSeq(s) /\ Len(s) = n
         /\ \A p : \A ptr \in Nat :
               Holds(p, ptr, s) => \A k \in 1..n : p[ptr + (k - 1)] = s[k]
<1>1. IsSeq(s) /\ Len(s) = n
  BY ArraySeq
<1>2. ASSUME NEW p, NEW ptr \in Nat, Holds(p, ptr, s), NEW k \in 1..n
      PROVE  p[ptr + (k - 1)] = s[k]
  <2>1. k - 1 \in 0..(n - 1) /\ (k - 1) + 1 = k
    OBVIOUS
  <2> QED
    BY <1>1, <1>2, <2>1 DEF Holds
<1> QED
  BY <1>1, <1>2

-----------------------------------------------------------------------------
(* A body: a rigid body, or one of a skeleton.                             *)

BodyMarkers(tag, n) == [j \in 1..n |-> Cells3(tag \o <<"marker", j>>)]
BodyIds(tag, n)     == [j \in 1..n |-> tag \o <<"marker", j, "id">>]
BodySizes(tag, n)   == [j \in 1..n |-> tag \o <<"marker", j, "size">>]
Quaternion(tag)     == [k \in 1..4 |-> tag \o <<"q", k>>]

\* A body stands in p from ptr on.
BodyAt(p, ptr, tag, n) ==
    /\ p[ptr] = tag \o <<"id">>
    /\ marker(p, ptr + 1, 0) = Cells3(tag)
    /\ \A k \in 1..4 : p[(ptr + 4) + (k - 1)] = tag \o <<"q", k>>
    /\ p[ptr + 8] = n
    /\ \A k \in 1..n : /\ marker(p, ptr + 9, k - 1) = Cells3(tag \o <<"marker", k>>)
                       /\ p[(ptr + 9 + 3 * n) + (k - 1)] = tag \o <<"marker", k, "id">>
                       /\ p[(ptr + 9 + 4 * n) + (k - 1)] = tag \o <<"marker", k, "size">>
    /\ p[ptr + 9 + 5 * n] = tag \o <<"error">>

\* BodyCells puts the cells of a body where BodyAt has them.
LEMMA BodyLayout ==
  ASSUME NEW tag, NEW n \in Nat
  PROVE  /\ IsSeq(BodyCells(tag, n)) /\ Len(BodyCells(tag, n)) = 10 + 5 * n
         /\ \A p : \A ptr \in Nat :
               Holds(p, ptr, BodyCells(tag, n)) => BodyAt(p, ptr, tag, n)
<1> DEFINE c1 == << tag \o <<"id">> >>
           c2 == Cells3(tag)
           c3 == Quaternion(tag)
           c4 == <<n>>
           c5 == FlattenSeq(BodyMarkers(tag, n))
           c6 == BodyIds(tag, n)
           c7 == BodySizes(tag, n)
           c8 == << tag \o <<"error">> >>
           a2 == c1 \o c2
           a3 == a2 \o c3
           a4 == a3 \o c4
           a5 == a4 \o c5
           a6 == a5 \o c6
           a7 == a6 \o c7
<1>1. BodyCells(tag, n) = a7 \o c8
  BY DEF BodyCells, Each, Quaternion, BodyMarkers, BodyIds, BodySizes
<1>2. /\ IsSeq(c1) /\ Len(c1) = 1
      /\ \A p : \A ptr \in Nat : Holds(p, ptr, c1) => p[ptr] = tag \o <<"id">>
  BY One
<1>3. /\ IsSeq(c2) /\ Len(c2) = 3
      /\ \A p : \A ptr \in Nat : Holds(p, ptr, c2) => marker(p, ptr, 0) = Cells3(tag)
  <2>1. \A p : \A ptr \in Nat : marker(p, ptr, 0) = <<p[ptr], p[ptr + 1], p[ptr + 2]>>
    BY DEF marker
  <2> QED
    BY <2>1, ThreeCells
<1>4. /\ IsSeq(c3) /\ Len(c3) = 4
      /\ \A p : \A ptr \in Nat :
            Holds(p, ptr, c3) => \A k \in 1..4 : p[ptr + (k - 1)] = tag \o <<"q", k>>
  <2>1. c3 = [k \in 1..4 |-> c3[k]] /\ \A k \in 1..4 : c3[k] = tag \o <<"q", k>>
    BY Zenon DEF Quaternion
  <2> HIDE DEF c3
  <2>2. /\ IsSeq(c3) /\ Len(c3) = 4
        /\ \A p : \A ptr \in Nat :
              Holds(p, ptr, c3) => \A k \in 1..4 : p[ptr + (k - 1)] = c3[k]
    <3>1. 4 \in Nat
      OBVIOUS
    <3> QED
      BY <2>1, <3>1, Row
  <2> QED
    BY <2>1, <2>2
<1>5. /\ IsSeq(c4) /\ Len(c4) = 1
      /\ \A p : \A ptr \in Nat : Holds(p, ptr, c4) => p[ptr] = n
  BY One
<1>6. /\ IsSeq(c5) /\ Len(c5) = 3 * n
      /\ \A p : \A ptr \in Nat :
            Holds(p, ptr, c5)
               => \A k \in 1..n : marker(p, ptr, k - 1) = Cells3(tag \o <<"marker", k>>)
  <2>1. ArePositions(BodyMarkers(tag, n), n)
    <3>1. \A j \in 1..n : BodyMarkers(tag, n)[j] = Cells3(tag \o <<"marker", j>>)
      BY Zenon DEF BodyMarkers
    <3>2. BodyMarkers(tag, n) = [j \in 1..n |-> BodyMarkers(tag, n)[j]]
      BY Zenon DEF BodyMarkers
    <3> QED
      BY <3>1, <3>2 DEF ArePositions
  <2>2. \A j \in 1..n : BodyMarkers(tag, n)[j] = Cells3(tag \o <<"marker", j>>)
    BY Zenon DEF BodyMarkers
  <2> QED
    BY <2>1, <2>2, Triples
<1>7. /\ IsSeq(c6) /\ Len(c6) = n
      /\ \A p : \A ptr \in Nat :
            Holds(p, ptr, c6)
               => \A k \in 1..n : p[ptr + (k - 1)] = tag \o <<"marker", k, "id">>
  <2>1. c6 = [k \in 1..n |-> c6[k]] /\ \A k \in 1..n : c6[k] = tag \o <<"marker", k, "id">>
    BY Zenon DEF BodyIds
  <2> HIDE DEF c6
  <2>2. /\ IsSeq(c6) /\ Len(c6) = n
        /\ \A p : \A ptr \in Nat :
              Holds(p, ptr, c6) => \A k \in 1..n : p[ptr + (k - 1)] = c6[k]
    BY <2>1, Row
  <2> QED
    BY <2>1, <2>2
<1>8. /\ IsSeq(c7) /\ Len(c7) = n
      /\ \A p : \A ptr \in Nat :
            Holds(p, ptr, c7)
               => \A k \in 1..n : p[ptr + (k - 1)] = tag \o <<"marker", k, "size">>
  <2>1. c7 = [k \in 1..n |-> c7[k]] /\ \A k \in 1..n : c7[k] = tag \o <<"marker", k, "size">>
    BY Zenon DEF BodySizes
  <2> HIDE DEF c7
  <2>2. /\ IsSeq(c7) /\ Len(c7) = n
        /\ \A p : \A ptr \in Nat :
              Holds(p, ptr, c7) => \A k \in 1..n : p[ptr + (k - 1)] = c7[k]
    BY <2>1, Row
  <2> QED
    BY <2>1, <2>2
<1>9. /\ IsSeq(c8) /\ Len(c8) = 1
      /\ \A p : \A ptr \in Nat : Holds(p, ptr, c8) => p[ptr] = tag \o <<"error">>
  BY One
<1> HIDE DEF c1, c2, c3, c4, c5, c6, c7, c8
<1>0. /\ IsSeq(c1) /\ IsSeq(c2) /\ IsSeq(c3) /\ IsSeq(c4)
      /\ IsSeq(c5) /\ IsSeq(c6) /\ IsSeq(c7) /\ IsSeq(c8)
      /\ Len(c1) = 1 /\ Len(c2) = 3 /\ Len(c3) = 4 /\ Len(c4) = 1
      /\ Len(c5) = 3 * n /\ Len(c6) = n /\ Len(c7) = n /\ Len(c8) = 1
  BY <1>2, <1>3, <1>4, <1>5, <1>6, <1>7, <1>8, <1>9, Zenon
<1>10. IsSeq(a2) /\ Len(a2) = 4
  <2>1. IsSeq(c1 \o c2) /\ Len(c1 \o c2) = Len(c1) + Len(c2)
    BY <1>0, CatLen
  <2> QED
    BY <1>0, <2>1
<1> HIDE DEF a2
<1>11. IsSeq(a3) /\ Len(a3) = 8
  <2>1. IsSeq(a2 \o c3) /\ Len(a2 \o c3) = Len(a2) + Len(c3)
    BY <1>0, <1>10, CatLen
  <2> QED
    BY <1>0, <1>10, <2>1
<1> HIDE DEF a3
<1>12. IsSeq(a4) /\ Len(a4) = 9
  <2>1. IsSeq(a3 \o c4) /\ Len(a3 \o c4) = Len(a3) + Len(c4)
    BY <1>0, <1>11, CatLen
  <2> QED
    BY <1>0, <1>11, <2>1
<1> HIDE DEF a4
<1>13. IsSeq(a5) /\ Len(a5) = 9 + 3 * n
  <2>1. IsSeq(a4 \o c5) /\ Len(a4 \o c5) = Len(a4) + Len(c5)
    BY <1>0, <1>12, CatLen
  <2> QED
    BY <1>0, <1>12, <2>1
<1> HIDE DEF a5
<1>14. IsSeq(a6) /\ Len(a6) = 9 + 4 * n
  <2>1. IsSeq(a5 \o c6) /\ Len(a5 \o c6) = Len(a5) + Len(c6)
    BY <1>0, <1>13, CatLen
  <2> QED
    BY <1>0, <1>13, <2>1
<1> HIDE DEF a6
<1>15. IsSeq(a7) /\ Len(a7) = 9 + 5 * n
  <2>1. IsSeq(a6 \o c7) /\ Len(a6 \o c7) = Len(a6) + Len(c7)
    BY <1>0, <1>14, CatLen
  <2> QED
    BY <1>0, <1>14, <2>1
<1> HIDE DEF a7
<1>16. IsSeq(a7 \o c8) /\ Len(a7 \o c8) = 10 + 5 * n
  <2>1. IsSeq(a7 \o c8) /\ Len(a7 \o c8) = Len(a7) + Len(c8)
    BY <1>0, <1>15, CatLen
  <2> QED
    BY <1>0, <1>15, <2>1
<1>17. ASSUME NEW p, NEW ptr \in Nat, Holds(p, ptr, a7 \o c8)
       PROVE  BodyAt(p, ptr, tag, n)
  <2>1. Holds(p, ptr, a7) /\ Holds(p, ptr + Len(a7), c8)
    BY <1>15, <1>9, <1>17, HoldsCat
  <2>2. Holds(p, ptr, a6) /\ Holds(p, ptr + Len(a6), c7)
    BY <1>14, <1>8, <2>1, HoldsCat DEF a7
  <2>3. Holds(p, ptr, a5) /\ Holds(p, ptr + Len(a5), c6)
    BY <1>13, <1>7, <2>2, HoldsCat DEF a6
  <2>4. Holds(p, ptr, a4) /\ Holds(p, ptr + Len(a4), c5)
    BY <1>12, <1>6, <2>3, HoldsCat DEF a5
  <2>5. Holds(p, ptr, a3) /\ Holds(p, ptr + Len(a3), c4)
    BY <1>11, <1>5, <2>4, HoldsCat DEF a4
  <2>6. Holds(p, ptr, a2) /\ Holds(p, ptr + Len(a2), c3)
    BY <1>10, <1>4, <2>5, HoldsCat DEF a3
  <2>7. Holds(p, ptr, c1) /\ Holds(p, ptr + Len(c1), c2)
    BY <1>2, <1>3, <2>6, HoldsCat DEF a2
  <2>8. p[ptr] = tag \o <<"id">>
    BY <1>2, <2>7
  <2>9. marker(p, ptr + 1, 0) = Cells3(tag)
    <3>1. ptr + 1 \in Nat /\ Holds(p, ptr + 1, c2)
      BY <1>2, <2>7
    <3> QED
      BY <1>3, <3>1
  <2>10. \A k \in 1..4 : p[(ptr + 4) + (k - 1)] = tag \o <<"q", k>>
    <3>1. ptr + 4 \in Nat /\ Holds(p, ptr + 4, c3)
      BY <1>10, <2>6
    <3> QED
      BY <1>4, <3>1
  <2>11. p[ptr + 8] = n
    <3>1. ptr + 8 \in Nat /\ Holds(p, ptr + 8, c4)
      BY <1>11, <2>5
    <3> QED
      BY <1>5, <3>1
  <2>12. \A k \in 1..n : marker(p, ptr + 9, k - 1) = Cells3(tag \o <<"marker", k>>)
    <3>1. ptr + 9 \in Nat /\ Holds(p, ptr + 9, c5)
      BY <1>12, <2>4
    <3> QED
      BY <1>6, <3>1
  <2>13. \A k \in 1..n : p[(ptr + 9 + 3 * n) + (k - 1)] = tag \o <<"marker", k, "id">>
    <3>1. ptr + 9 + 3 * n \in Nat /\ ptr + (9 + 3 * n) = ptr + 9 + 3 * n
      OBVIOUS
    <3>2. Holds(p, ptr + 9 + 3 * n, c6)
      BY <1>13, <2>3, <3>1
    <3> QED
      BY <1>7, <3>1, <3>2
  <2>14. \A k \in 1..n : p[(ptr + 9 + 4 * n) + (k - 1)] = tag \o <<"marker", k, "size">>
    <3>1. ptr + 9 + 4 * n \in Nat /\ ptr + (9 + 4 * n) = ptr + 9 + 4 * n
      OBVIOUS
    <3>2. Holds(p, ptr + 9 + 4 * n, c7)
      BY <1>14, <2>2, <3>1
    <3> QED
      BY <1>8, <3>1, <3>2
  <2>15. p[ptr + 9 + 5 * n] = tag \o <<"error">>
    <3>1. ptr + 9 + 5 * n \in Nat /\ ptr + (9 + 5 * n) = ptr + 9 + 5 * n
      OBVIOUS
    <3>2. Holds(p, ptr + 9 + 5 * n, c8)
      BY <1>15, <2>1, <3>1
    <3> QED
      BY <1>9, <3>1, <3>2
  <2>16. \A k \in 1..n :
            /\ marker(p, ptr + 9, k - 1) = Cells3(tag \o <<"marker", k>>)
            /\ p[(ptr + 9 + 3 * n) + (k - 1)] = tag \o <<"marker", k, "id">>
            /\ p[(ptr + 9 + 4 * n) + (k - 1)] = tag \o <<"marker", k, "size">>
    BY <2>12, <2>13, <2>14
  <2> QED
    BY <2>8, <2>9, <2>10, <2>11, <2>15, <2>16, Zenon DEF BodyAt
<1> QED
  BY <1>1, <1>16, <1>17, Zenon
-----------------------------------------------------------------------------
(* Skipping leads from one element to the next, whatever they are.         *)

\* skip_markerSets.
LEMMA SkipSets ==
  ASSUME NEW p, NEW ptr \in Nat, NEW n \in Nat, NEW off \in [0..n -> Nat], off[0] = 0,
         \A j \in 1..n : skip_markerSet(p, ptr + off[j - 1]) = ptr + off[j],
         NEW m \in 0..n
  PROVE  skip_markerSets(p, ptr, m) = ptr + off[m]
<1> DEFINE Walk(after) ==
             after = [k \in 0..m |-> IF k = 0 THEN ptr ELSE skip_markerSet(p, after[k - 1])]
           g == [k \in 0..m |-> ptr + off[k]]
           after == CHOOSE after : Walk(after)
<1>1. Walk(g)
  <2>1. \A k \in 0..m : g[k] = IF k = 0 THEN ptr ELSE skip_markerSet(p, g[k - 1])
    <3> SUFFICES ASSUME NEW k \in 0..m
                 PROVE  g[k] = IF k = 0 THEN ptr ELSE skip_markerSet(p, g[k - 1])
      OBVIOUS
    <3>1. CASE k = 0
      BY <3>1
    <3>2. CASE k # 0
      <4>1. k \in 1..n /\ k - 1 \in 0..m
        BY <3>2
      <4>2. g[k - 1] = ptr + off[k - 1] /\ g[k] = ptr + off[k]
        BY <4>1
      <4>3. skip_markerSet(p, ptr + off[k - 1]) = ptr + off[k]
        BY <4>1
      <4> HIDE DEF g
      <4> QED
        BY <3>2, <4>2, <4>3
    <3> QED
      BY <3>1, <3>2
  <2>2. g = [k \in 0..m |-> g[k]]
    OBVIOUS
  <2> HIDE DEF g
  <2> QED
    BY <2>1, <2>2
<1>2. Walk(after)
  <2> HIDE DEF Walk, g
  <2> QED
    BY <1>1 DEF after
<1>3. skip_markerSets(p, ptr, m) = after[m]
  BY Zenon DEF skip_markerSets, SkipAll
<1> HIDE DEF after
<1>4. \A k \in 0..m : after[k] = IF k = 0 THEN ptr ELSE skip_markerSet(p, after[k - 1])
  BY <1>2, Zenon
<1> HIDE DEF Walk
<1>5. after[0] = g[0]
  <2>1. 0 \in 0..m
    OBVIOUS
  <2> QED
    BY <1>4, <2>1
<1>6. ASSUME NEW k \in 1..m, after[k - 1] = g[k - 1]
      PROVE  after[k] = g[k]
  <2>1. k \in 0..m /\ k # 0 /\ k - 1 \in 0..m /\ k \in 1..n
    OBVIOUS
  <2>2. after[k] = skip_markerSet(p, after[k - 1])
    BY <1>4, <2>1, Zenon
  <2>3. g[k - 1] = ptr + off[k - 1] /\ g[k] = ptr + off[k]
    BY <2>1
  <2>4. skip_markerSet(p, ptr + off[k - 1]) = ptr + off[k]
    BY <2>1
  <2> HIDE DEF g
  <2> QED
    BY <1>6, <2>2, <2>3, <2>4
<1>7. InStride(after, g, m)
  BY <1>5, <1>6 DEF InStride
<1>8. m \in Nat /\ m \in 0..m /\ g[m] = ptr + off[m]
  OBVIOUS
<1> HIDE DEF g
<1>9. \A k \in 0..m : after[k] = g[k]
  BY <1>7, <1>8, RecursionUnique
<1> QED
  BY <1>3, <1>8, <1>9

\* skip_rigidBodies.
LEMMA SkipBodies ==
  ASSUME NEW p, NEW ptr \in Nat, NEW n \in Nat, NEW off \in [0..n -> Nat], off[0] = 0,
         \A j \in 1..n : skip_rigidBody(p, ptr + off[j - 1]) = ptr + off[j],
         NEW m \in 0..n
  PROVE  skip_rigidBodies(p, ptr, m) = ptr + off[m]
<1> DEFINE Walk(after) ==
             after = [k \in 0..m |-> IF k = 0 THEN ptr ELSE skip_rigidBody(p, after[k - 1])]
           g == [k \in 0..m |-> ptr + off[k]]
           after == CHOOSE after : Walk(after)
<1>1. Walk(g)
  <2>1. \A k \in 0..m : g[k] = IF k = 0 THEN ptr ELSE skip_rigidBody(p, g[k - 1])
    <3> SUFFICES ASSUME NEW k \in 0..m
                 PROVE  g[k] = IF k = 0 THEN ptr ELSE skip_rigidBody(p, g[k - 1])
      OBVIOUS
    <3>1. CASE k = 0
      BY <3>1
    <3>2. CASE k # 0
      <4>1. k \in 1..n /\ k - 1 \in 0..m
        BY <3>2
      <4>2. g[k - 1] = ptr + off[k - 1] /\ g[k] = ptr + off[k]
        BY <4>1
      <4>3. skip_rigidBody(p, ptr + off[k - 1]) = ptr + off[k]
        BY <4>1
      <4> HIDE DEF g
      <4> QED
        BY <3>2, <4>2, <4>3
    <3> QED
      BY <3>1, <3>2
  <2>2. g = [k \in 0..m |-> g[k]]
    OBVIOUS
  <2> HIDE DEF g
  <2> QED
    BY <2>1, <2>2
<1>2. Walk(after)
  <2> HIDE DEF Walk, g
  <2> QED
    BY <1>1 DEF after
<1>3. skip_rigidBodies(p, ptr, m) = after[m]
  BY Zenon DEF skip_rigidBodies, SkipAll
<1> HIDE DEF after
<1>4. \A k \in 0..m : after[k] = IF k = 0 THEN ptr ELSE skip_rigidBody(p, after[k - 1])
  BY <1>2, Zenon
<1> HIDE DEF Walk
<1>5. after[0] = g[0]
  <2>1. 0 \in 0..m
    OBVIOUS
  <2> QED
    BY <1>4, <2>1
<1>6. ASSUME NEW k \in 1..m, after[k - 1] = g[k - 1]
      PROVE  after[k] = g[k]
  <2>1. k \in 0..m /\ k # 0 /\ k - 1 \in 0..m /\ k \in 1..n
    OBVIOUS
  <2>2. after[k] = skip_rigidBody(p, after[k - 1])
    BY <1>4, <2>1, Zenon
  <2>3. g[k - 1] = ptr + off[k - 1] /\ g[k] = ptr + off[k]
    BY <2>1
  <2>4. skip_rigidBody(p, ptr + off[k - 1]) = ptr + off[k]
    BY <2>1
  <2> HIDE DEF g
  <2> QED
    BY <1>6, <2>2, <2>3, <2>4
<1>7. InStride(after, g, m)
  BY <1>5, <1>6 DEF InStride
<1>8. m \in Nat /\ m \in 0..m /\ g[m] = ptr + off[m]
  OBVIOUS
<1> HIDE DEF g
<1>9. \A k \in 0..m : after[k] = g[k]
  BY <1>7, <1>8, RecursionUnique
<1> QED
  BY <1>3, <1>8, <1>9

\* skip_skeletons.
LEMMA SkipSkeletons ==
  ASSUME NEW p, NEW ptr \in Nat, NEW n \in Nat, NEW off \in [0..n -> Nat], off[0] = 0,
         \A j \in 1..n : skip_skeleton(p, ptr + off[j - 1]) = ptr + off[j],
         NEW m \in 0..n
  PROVE  skip_skeletons(p, ptr, m) = ptr + off[m]
<1> DEFINE Walk(after) ==
             after = [k \in 0..m |-> IF k = 0 THEN ptr ELSE skip_skeleton(p, after[k - 1])]
           g == [k \in 0..m |-> ptr + off[k]]
           after == CHOOSE after : Walk(after)
<1>1. Walk(g)
  <2>1. \A k \in 0..m : g[k] = IF k = 0 THEN ptr ELSE skip_skeleton(p, g[k - 1])
    <3> SUFFICES ASSUME NEW k \in 0..m
                 PROVE  g[k] = IF k = 0 THEN ptr ELSE skip_skeleton(p, g[k - 1])
      OBVIOUS
    <3>1. CASE k = 0
      BY <3>1
    <3>2. CASE k # 0
      <4>1. k \in 1..n /\ k - 1 \in 0..m
        BY <3>2
      <4>2. g[k - 1] = ptr + off[k - 1] /\ g[k] = ptr + off[k]
        BY <4>1
      <4>3. skip_skeleton(p, ptr + off[k - 1]) = ptr + off[k]
        BY <4>1
      <4> HIDE DEF g
      <4> QED
        BY <3>2, <4>2, <4>3
    <3> QED
      BY <3>1, <3>2
  <2>2. g = [k \in 0..m |-> g[k]]
    OBVIOUS
  <2> HIDE DEF g
  <2> QED
    BY <2>1, <2>2
<1>2. Walk(after)
  <2> HIDE DEF Walk, g
  <2> QED
    BY <1>1 DEF after
<1>3. skip_skeletons(p, ptr, m) = after[m]
  BY Zenon DEF skip_skeletons, SkipAll
<1> HIDE DEF after
<1>4. \A k \in 0..m : after[k] = IF k = 0 THEN ptr ELSE skip_skeleton(p, after[k - 1])
  BY <1>2, Zenon
<1> HIDE DEF Walk
<1>5. after[0] = g[0]
  <2>1. 0 \in 0..m
    OBVIOUS
  <2> QED
    BY <1>4, <2>1
<1>6. ASSUME NEW k \in 1..m, after[k - 1] = g[k - 1]
      PROVE  after[k] = g[k]
  <2>1. k \in 0..m /\ k # 0 /\ k - 1 \in 0..m /\ k \in 1..n
    OBVIOUS
  <2>2. after[k] = skip_skeleton(p, after[k - 1])
    BY <1>4, <2>1, Zenon
  <2>3. g[k - 1] = ptr + off[k - 1] /\ g[k] = ptr + off[k]
    BY <2>1
  <2>4. skip_skeleton(p, ptr + off[k - 1]) = ptr + off[k]
    BY <2>1
  <2> HIDE DEF g
  <2> QED
    BY <1>6, <2>2, <2>3, <2>4
<1>7. InStride(after, g, m)
  BY <1>5, <1>6 DEF InStride
<1>8. m \in Nat /\ m \in 0..m /\ g[m] = ptr + off[m]
  OBVIOUS
<1> HIDE DEF g
<1>9. \A k \in 0..m : after[k] = g[k]
  BY <1>7, <1>8, RecursionUnique
<1> QED
  BY <1>3, <1>8, <1>9

\* skip_labeledMarkers.
LEMMA SkipLabeled ==
  ASSUME NEW p, NEW ptr \in Nat, NEW n \in Nat, NEW off \in [0..n -> Nat], off[0] = 0,
         \A j \in 1..n : skip_labeledMarker(p, ptr + off[j - 1]) = ptr + off[j],
         NEW m \in 0..n
  PROVE  skip_labeledMarkers(p, ptr, m) = ptr + off[m]
<1> DEFINE Walk(after) ==
             after = [k \in 0..m |-> IF k = 0 THEN ptr ELSE skip_labeledMarker(p, after[k - 1])]
           g == [k \in 0..m |-> ptr + off[k]]
           after == CHOOSE after : Walk(after)
<1>1. Walk(g)
  <2>1. \A k \in 0..m : g[k] = IF k = 0 THEN ptr ELSE skip_labeledMarker(p, g[k - 1])
    <3> SUFFICES ASSUME NEW k \in 0..m
                 PROVE  g[k] = IF k = 0 THEN ptr ELSE skip_labeledMarker(p, g[k - 1])
      OBVIOUS
    <3>1. CASE k = 0
      BY <3>1
    <3>2. CASE k # 0
      <4>1. k \in 1..n /\ k - 1 \in 0..m
        BY <3>2
      <4>2. g[k - 1] = ptr + off[k - 1] /\ g[k] = ptr + off[k]
        BY <4>1
      <4>3. skip_labeledMarker(p, ptr + off[k - 1]) = ptr + off[k]
        BY <4>1
      <4> HIDE DEF g
      <4> QED
        BY <3>2, <4>2, <4>3
    <3> QED
      BY <3>1, <3>2
  <2>2. g = [k \in 0..m |-> g[k]]
    OBVIOUS
  <2> HIDE DEF g
  <2> QED
    BY <2>1, <2>2
<1>2. Walk(after)
  <2> HIDE DEF Walk, g
  <2> QED
    BY <1>1 DEF after
<1>3. skip_labeledMarkers(p, ptr, m) = after[m]
  BY Zenon DEF skip_labeledMarkers, SkipAll
<1> HIDE DEF after
<1>4. \A k \in 0..m : after[k] = IF k = 0 THEN ptr ELSE skip_labeledMarker(p, after[k - 1])
  BY <1>2, Zenon
<1> HIDE DEF Walk
<1>5. after[0] = g[0]
  <2>1. 0 \in 0..m
    OBVIOUS
  <2> QED
    BY <1>4, <2>1
<1>6. ASSUME NEW k \in 1..m, after[k - 1] = g[k - 1]
      PROVE  after[k] = g[k]
  <2>1. k \in 0..m /\ k # 0 /\ k - 1 \in 0..m /\ k \in 1..n
    OBVIOUS
  <2>2. after[k] = skip_labeledMarker(p, after[k - 1])
    BY <1>4, <2>1, Zenon
  <2>3. g[k - 1] = ptr + off[k - 1] /\ g[k] = ptr + off[k]
    BY <2>1
  <2>4. skip_labeledMarker(p, ptr + off[k - 1]) = ptr + off[k]
    BY <2>1
  <2> HIDE DEF g
  <2> QED
    BY <1>6, <2>2, <2>3, <2>4
<1>7. InStride(after, g, m)
  BY <1>5, <1>6 DEF InStride
<1>8. m \in Nat /\ m \in 0..m /\ g[m] = ptr + off[m]
  OBVIOUS
<1> HIDE DEF g
<1>9. \A k \in 0..m : after[k] = g[k]
  BY <1>7, <1>8, RecursionUnique
<1> QED
  BY <1>3, <1>8, <1>9

\* skip_skeleton: from body to body.
LEMMA SkipSkeletonBodies ==
  ASSUME NEW p, NEW head \in Nat, NEW n \in Nat, NEW off \in [0..n -> Nat], off[0] = 0,
         \A j \in 1..n : LET ptr == (head + 2) + off[j - 1]
                         IN  ptr + 9 + 5 * p[ptr + 8] + 1 = (head + 2) + off[j],
         p[head + 1] \in 0..n
  PROVE  skip_skeleton(p, head) = (head + 2) + off[p[head + 1]]
<1> DEFINE ptr == head + 2
           m == p[head + 1]
           Skip(at) == at + 9 + 5 * p[at + 8] + 1
           Walk(after) ==
                after = [k \in 0..m |-> IF k = 0 THEN ptr ELSE Skip(after[k - 1])]
           g == [k \in 0..m |-> ptr + off[k]]
           after == CHOOSE after : Walk(after)
<1>3. skip_skeleton(p, head) = after[m]
  BY Zenon DEF skip_skeleton, SkipAll
<1>0. /\ ptr \in Nat /\ m \in 0..n
      /\ \A j \in 1..n : Skip(ptr + off[j - 1]) = ptr + off[j]
  OBVIOUS
<1> HIDE DEF ptr, m, Skip
<1>1. Walk(g)
  <2>1. \A k \in 0..m : g[k] = IF k = 0 THEN ptr ELSE Skip(g[k - 1])
    <3> SUFFICES ASSUME NEW k \in 0..m
                 PROVE  g[k] = IF k = 0 THEN ptr ELSE Skip(g[k - 1])
      OBVIOUS
    <3>1. CASE k = 0
      BY <1>0, <3>1
    <3>2. CASE k # 0
      <4>1. k \in 1..n /\ k - 1 \in 0..m
        BY <1>0, <3>2
      <4>2. g[k - 1] = ptr + off[k - 1] /\ g[k] = ptr + off[k]
        BY <4>1
      <4>3. Skip(ptr + off[k - 1]) = ptr + off[k]
        BY <1>0, <4>1
      <4> HIDE DEF g
      <4> QED
        BY <3>2, <4>2, <4>3
    <3> QED
      BY <3>1, <3>2
  <2>2. g = [k \in 0..m |-> g[k]]
    OBVIOUS
  <2> HIDE DEF g
  <2> QED
    BY <2>1, <2>2
<1>2. Walk(after)
  <2> HIDE DEF Walk, g
  <2> QED
    BY <1>1 DEF after
<1> HIDE DEF after
<1>4. \A k \in 0..m : after[k] = IF k = 0 THEN ptr ELSE Skip(after[k - 1])
  BY <1>2, Zenon
<1> HIDE DEF Walk
<1>5. after[0] = g[0]
  <2>1. 0 \in 0..m /\ g[0] = ptr
    BY <1>0
  <2> QED
    BY <1>4, <2>1
<1>6. ASSUME NEW k \in 1..m, after[k - 1] = g[k - 1]
      PROVE  after[k] = g[k]
  <2>1. k \in 0..m /\ k # 0 /\ k - 1 \in 0..m /\ k \in 1..n
    BY <1>0
  <2>2. after[k] = Skip(after[k - 1])
    BY <1>4, <2>1, Zenon
  <2>3. g[k - 1] = ptr + off[k - 1] /\ g[k] = ptr + off[k]
    BY <2>1
  <2>4. Skip(ptr + off[k - 1]) = ptr + off[k]
    BY <1>0, <2>1
  <2> HIDE DEF g
  <2> QED
    BY <1>6, <2>2, <2>3, <2>4
<1>7. InStride(after, g, m)
  BY <1>5, <1>6 DEF InStride
<1>8. m \in Nat /\ m \in 0..m /\ g[m] = ptr + off[m]
  BY <1>0
<1> HIDE DEF g
<1>9. \A k \in 0..m : after[k] = g[k]
  BY <1>7, <1>8, RecursionUnique
<1> QED
  BY <1>3, <1>8, <1>9 DEF ptr, m
-----------------------------------------------------------------------------
(* The lists of a frame.                                                   *)

SetCells(f, j) ==
    << <<"set", j, "name">>, f.markerSets[j]>>
    \o FlattenSeq([k \in 1..f.markerSets[j] |-> Cells3(<<"set", j, k>>)])
SkeletonCells(f, j) ==
    << <<"skeleton", j>>, Len(f.skeletons[j])>>
    \o FlattenSeq([k \in 1..Len(f.skeletons[j]) |->
                      BodyCells(<<"skeleton", j, k>>, f.skeletons[j][k])])
LabeledCells(j) ==
    << <<"labeled", j, "id">> >> \o Cells3(<<"labeled", j>>) \o << <<"labeled", j, "size">> >>

Sets(f)      == [j \in 1..Len(f.markerSets) |-> SetCells(f, j)]
Others(f)    == [j \in 1..f.otherMarkers |-> Cells3(<<"other", j>>)]
Bodies(f)    == [j \in 1..Len(f.rigidBodies) |-> BodyCells(<<"body", j>>, f.rigidBodies[j])]
Skeletons(f) == [j \in 1..Len(f.skeletons) |-> SkeletonCells(f, j)]
Labeled(f)   == [j \in 1..f.labeledMarkers |-> LabeledCells(j)]

\* Counts are lists of numbers.
LEMMA CountsAreNumbers ==
  ASSUME NEW c \in Counts
  PROVE  Len(c) \in Nat /\ \A j \in 1..Len(c) : c[j] \in Nat
<1>1. PICK n \in 0..MaxSets : c \in [1..n -> 0..MaxMarkers]
  BY DEF Counts
<1>2. n \in Nat /\ 0..MaxMarkers \subseteq Nat
  BY BoundsAssumption
<1>3. c \in [1..n -> Nat]
  BY <1>1, <1>2
<1>4. c = [j \in 1..n |-> c[j]]
  BY <1>1
<1>5. Len(c) = n
  BY <1>2, <1>4, ArraySeq
<1> QED
  BY <1>2, <1>3, <1>5

\* All that a frame counts is a number.
LEMMA FrameCounts ==
  ASSUME NEW f \in Frames
  PROVE  /\ Len(f.markerSets) \in Nat
         /\ \A j \in 1..Len(f.markerSets) : f.markerSets[j] \in Nat
         /\ f.otherMarkers \in Nat
         /\ Len(f.rigidBodies) \in Nat
         /\ \A j \in 1..Len(f.rigidBodies) : f.rigidBodies[j] \in Nat
         /\ Len(f.skeletons) \in Nat
         /\ \A j \in 1..Len(f.skeletons) :
               /\ Len(f.skeletons[j]) \in Nat
               /\ \A k \in 1..Len(f.skeletons[j]) : f.skeletons[j][k] \in Nat
         /\ f.labeledMarkers \in Nat
<1>1. /\ f.markerSets \in Counts /\ f.rigidBodies \in Counts
      /\ f.otherMarkers \in 0..MaxSets /\ f.labeledMarkers \in 0..MaxSets
      /\ f.skeletons \in UNION {[1..n -> Counts] : n \in 0..MaxSkeletons}
  BY DEF Frames
<1>2. f.otherMarkers \in Nat /\ f.labeledMarkers \in Nat
  BY <1>1, BoundsAssumption
<1>3. PICK n \in 0..MaxSkeletons : f.skeletons \in [1..n -> Counts]
  BY <1>1
<1> DEFINE s == f.skeletons
<1>4. n \in Nat /\ s = [j \in 1..n |-> s[j]] /\ \A j \in 1..n : s[j] \in Counts
  BY <1>3, BoundsAssumption
<1> HIDE DEF s
<1>5. Len(s) = n
  BY <1>4, ArraySeq
<1>6. /\ Len(s) \in Nat
      /\ \A j \in 1..Len(s) : /\ Len(s[j]) \in Nat
                              /\ \A k \in 1..Len(s[j]) : s[j][k] \in Nat
  BY <1>4, <1>5, CountsAreNumbers
<1>7. /\ Len(f.markerSets) \in Nat
      /\ \A j \in 1..Len(f.markerSets) : f.markerSets[j] \in Nat
      /\ Len(f.rigidBodies) \in Nat
      /\ \A j \in 1..Len(f.rigidBodies) : f.rigidBodies[j] \in Nat
  BY <1>1, CountsAreNumbers
<1> QED
  BY <1>2, <1>6, <1>7 DEF s

\* A marker set stands in p from ptr on.
SetAt(p, ptr, f, j) ==
    /\ p[ptr] = <<"set", j, "name">>
    /\ p[ptr + 1] = f.markerSets[j]
    /\ \A k \in 1..f.markerSets[j] :
          marker(p, ptr + 2, k - 1) = Cells3(<<"set", j, k>>)

\* SetCells puts the cells of a marker set where SetAt has them.
LEMMA SetLayout ==
  ASSUME NEW f \in Frames, NEW j \in 1..Len(f.markerSets)
  PROVE  /\ IsSeq(SetCells(f, j))
         /\ Len(SetCells(f, j)) = 2 + 3 * f.markerSets[j]
         /\ \A p : \A ptr \in Nat :
               Holds(p, ptr, SetCells(f, j)) => SetAt(p, ptr, f, j)
<1> DEFINE n == f.markerSets[j]
           head == << <<"set", j, "name">>, n>>
           seqs == [k \in 1..n |-> Cells3(<<"set", j, k>>)]
           flat == FlattenSeq(seqs)
<1>1. n \in Nat
  BY FrameCounts
<1>2. SetCells(f, j) = head \o flat
  BY DEF SetCells
<1>3. /\ IsSeq(head) /\ Len(head) = 2
      /\ \A p : \A ptr \in Nat :
            Holds(p, ptr, head) => p[ptr] = <<"set", j, "name">> /\ p[ptr + 1] = n
  BY Two
<1> HIDE DEF head, n
<1>4. \A k \in 1..n : seqs[k] = Cells3(<<"set", j, k>>)
  OBVIOUS
<1>5. ArePositions(seqs, n)
  BY <1>1, <1>4 DEF ArePositions
<1> HIDE DEF seqs
<1>6. /\ IsSeq(flat) /\ Len(flat) = 3 * n
      /\ \A p : \A ptr \in Nat :
            Holds(p, ptr, flat) => \A k \in 1..n : marker(p, ptr, k - 1) = seqs[k]
  BY <1>5, Triples
<1> HIDE DEF flat
<1>7. IsSeq(head \o flat) /\ Len(head \o flat) = 2 + 3 * n
  <2>1. IsSeq(head \o flat) /\ Len(head \o flat) = Len(head) + Len(flat)
    BY <1>3, <1>6, CatLen
  <2> QED
    BY <1>3, <1>6, <2>1
<1>8. ASSUME NEW p, NEW ptr \in Nat, Holds(p, ptr, head \o flat)
      PROVE  SetAt(p, ptr, f, j)
  <2>1. Holds(p, ptr, head) /\ Holds(p, ptr + Len(head), flat)
    BY <1>3, <1>6, <1>8, HoldsCat
  <2>2. ptr + 2 \in Nat /\ Holds(p, ptr + 2, flat)
    BY <1>3, <2>1
  <2>3. p[ptr] = <<"set", j, "name">> /\ p[ptr + 1] = n
    BY <1>3, <2>1
  <2>4. \A k \in 1..n : marker(p, ptr + 2, k - 1) = Cells3(<<"set", j, k>>)
    BY <1>4, <1>6, <2>2
  <2> QED
    BY <2>3, <2>4, Zenon DEF SetAt, n
<1> QED
  BY <1>2, <1>7, <1>8, Zenon DEF n

\* Reading and skipping the marker sets.
LEMMA SetsRead ==
  ASSUME NEW f \in Frames, NEW p, NEW ptr \in Nat, Holds(p, ptr, FlattenSeq(Sets(f)))
  PROVE  /\ IsSeq(FlattenSeq(Sets(f))) /\ Len(FlattenSeq(Sets(f))) \in Nat
         /\ skip_markerSets(p, ptr, Len(f.markerSets)) = ptr + Len(FlattenSeq(Sets(f)))
         /\ \A j \in 1..Len(f.markerSets) :
               SetAt(p, skip_markerSets(p, ptr, j - 1), f, j)
<1> DEFINE n == Len(f.markerSets)
           seqs == Sets(f)
<1>1. n \in Nat /\ \A j \in 1..n : f.markerSets[j] \in Nat
  BY FrameCounts
<1>2. \A j \in 1..n : seqs[j] = SetCells(f, j)
  BY Zenon DEF Sets
<1>3. IsList(seqs, n)
  <2>1. seqs = [j \in 1..n |-> seqs[j]]
    BY Zenon DEF Sets
  <2> HIDE DEF seqs
  <2> QED
    BY <1>1, <1>2, <2>1, SetLayout DEF IsList
<1> HIDE DEF seqs
<1>4. PICK off : /\ Ends(off, seqs, n)
                 /\ Len(FlattenSeq(seqs)) = off[n]
                 /\ \A j \in 1..n : Holds(p, ptr + off[j - 1], seqs[j])
  BY <1>3, HoldsList DEF seqs
<1>5. IsSeq(FlattenSeq(seqs))
  BY <1>3, Flattened
<1>6. /\ off \in [0..n -> Nat] /\ off[0] = 0
      /\ \A j \in 1..n : off[j] = off[j - 1] + Len(seqs[j])
  BY <1>4 DEF Ends
<1>7. ASSUME NEW j \in 1..n
      PROVE  /\ SetAt(p, ptr + off[j - 1], f, j)
             /\ skip_markerSet(p, ptr + off[j - 1]) = ptr + off[j]
  <2> DEFINE at == ptr + off[j - 1]
             c == f.markerSets[j]
  <2>1. j - 1 \in 0..n /\ c \in Nat
    BY <1>1
  <2>2. off[j - 1] \in Nat
    BY <1>6, <2>1
  <2>3. Holds(p, at, SetCells(f, j))
    BY <1>2, <1>4
  <2>4. Len(seqs[j]) = 2 + 3 * c
    BY <1>2, SetLayout
  <2>5. off[j] = off[j - 1] + (2 + 3 * c)
    BY <1>6, <2>4
  <2>6. at \in Nat /\ ptr + off[j] = at + 2 + 3 * c
    <3> HIDE DEF c
    <3> QED
      BY <2>1, <2>2, <2>5
  <2> HIDE DEF at
  <2>7. SetAt(p, at, f, j)
    BY <2>3, <2>6, SetLayout
  <2>8. skip_markerSet(p, at) = at + 2 + 3 * c
    BY <2>7 DEF skip_markerSet, SetAt
  <2> QED
    BY <2>6, <2>7, <2>8 DEF at
<1>8. \A m \in 0..n : skip_markerSets(p, ptr, m) = ptr + off[m]
  <2>1. \A j \in 1..n : skip_markerSet(p, ptr + off[j - 1]) = ptr + off[j]
    BY <1>7
  <2> HIDE DEF n
  <2> QED
    BY <1>1, <1>6, <2>1, SkipSets
<1>9. skip_markerSets(p, ptr, n) = ptr + Len(FlattenSeq(seqs))
  BY <1>1, <1>4, <1>8
<1>10. Len(FlattenSeq(seqs)) \in Nat
  BY <1>1, <1>4, <1>6
<1>11. \A j \in 1..n : j - 1 \in 0..n /\ skip_markerSets(p, ptr, j - 1) = ptr + off[j - 1]
  BY <1>1, <1>8
<1> QED
  BY <1>5, <1>7, <1>9, <1>10, <1>11 DEF seqs

\* A list of bodies, of whatever tags, with c markers.
AreBodies(seqs, c, n) ==
    /\ n \in Nat
    /\ seqs = [j \in 1..n |-> seqs[j]]
    /\ \A j \in 1..n : c[j] \in Nat /\ \E tag : seqs[j] = BodyCells(tag, c[j])

\* A list of bodies by its elements.
LEMMA BodyList ==
  ASSUME NEW n, NEW seqs, NEW c, AreBodies(seqs, c, n)
  PROVE  IsList(seqs, n) /\ \A j \in 1..n : Len(seqs[j]) = 10 + 5 * c[j]
<1>1. \A j \in 1..n : IsSeq(seqs[j]) /\ Len(seqs[j]) = 10 + 5 * c[j]
  BY BodyLayout DEF AreBodies
<1> QED
  BY <1>1 DEF IsList, AreBodies

\* From body to body.
LEMMA BodiesWalk ==
  ASSUME NEW n, NEW seqs, NEW c, AreBodies(seqs, c, n),
         NEW p, NEW ptr \in Nat, Holds(p, ptr, FlattenSeq(seqs))
  PROVE  \E off \in [0..n -> Nat] :
            /\ off[0] = 0
            /\ Len(FlattenSeq(seqs)) = off[n]
            /\ \A j \in 1..n :
                  /\ off[j] = off[j - 1] + (10 + 5 * c[j])
                  /\ p[(ptr + off[j - 1]) + 8] = c[j]
                  /\ Holds(p, ptr + off[j - 1], seqs[j])
<1>1. n \in Nat /\ \A j \in 1..n : c[j] \in Nat
  BY DEF AreBodies
<1>2. IsList(seqs, n) /\ \A j \in 1..n : Len(seqs[j]) = 10 + 5 * c[j]
  BY BodyList
<1>3. PICK off : /\ Ends(off, seqs, n)
                 /\ Len(FlattenSeq(seqs)) = off[n]
                 /\ \A j \in 1..n : Holds(p, ptr + off[j - 1], seqs[j])
  BY <1>2, HoldsList
<1>4. /\ off \in [0..n -> Nat] /\ off[0] = 0
      /\ \A j \in 1..n : off[j] = off[j - 1] + Len(seqs[j])
  BY <1>3 DEF Ends
<1>5. ASSUME NEW j \in 1..n
      PROVE  p[(ptr + off[j - 1]) + 8] = c[j]
  <2> DEFINE at == ptr + off[j - 1]
  <2>1. PICK tag : seqs[j] = BodyCells(tag, c[j])
    BY DEF AreBodies
  <2>2. j - 1 \in 0..n
    BY <1>1
  <2>3. at \in Nat /\ Holds(p, at, BodyCells(tag, c[j]))
    BY <1>3, <1>4, <2>1, <2>2
  <2> HIDE DEF at
  <2>4. BodyAt(p, at, tag, c[j])
    BY <1>1, <2>3, BodyLayout
  <2>5. p[at + 8] = c[j]
    BY <2>4 DEF BodyAt
  <2> QED
    BY <2>5 DEF at
<1>6. \A j \in 1..n : off[j] = off[j - 1] + (10 + 5 * c[j])
  BY <1>2, <1>4
<1> QED
  BY <1>3, <1>4, <1>5, <1>6

\* Reading and skipping the rigid bodies.
LEMMA BodiesRead ==
  ASSUME NEW f \in Frames, NEW p, NEW ptr \in Nat, Holds(p, ptr, FlattenSeq(Bodies(f)))
  PROVE  /\ Len(FlattenSeq(Bodies(f))) \in Nat
         /\ skip_rigidBodies(p, ptr, Len(f.rigidBodies)) = ptr + Len(FlattenSeq(Bodies(f)))
         /\ \A j \in 1..Len(f.rigidBodies) :
               LET at == skip_rigidBodies(p, ptr, j - 1)
               IN  at \in Nat /\ BodyAt(p, at, <<"body", j>>, f.rigidBodies[j])
<1> DEFINE n == Len(f.rigidBodies)
           c == f.rigidBodies
           seqs == Bodies(f)
<1>1. n \in Nat /\ \A j \in 1..n : c[j] \in Nat
  BY FrameCounts
<1>2. seqs = [j \in 1..n |-> seqs[j]] /\ \A j \in 1..n : seqs[j] = BodyCells(<<"body", j>>, c[j])
  BY Zenon DEF Bodies
<1> HIDE DEF seqs
<1>3. AreBodies(seqs, c, n)
  BY <1>1, <1>2 DEF AreBodies
<1>4. PICK off \in [0..n -> Nat] :
            /\ off[0] = 0
            /\ Len(FlattenSeq(seqs)) = off[n]
            /\ \A j \in 1..n :
                  /\ off[j] = off[j - 1] + (10 + 5 * c[j])
                  /\ p[(ptr + off[j - 1]) + 8] = c[j]
                  /\ Holds(p, ptr + off[j - 1], seqs[j])
  <2>1. Holds(p, ptr, FlattenSeq(seqs))
    BY DEF seqs
  <2> HIDE DEF n, c
  <2> QED
    BY <1>3, <2>1, BodiesWalk
<1>5. ASSUME NEW j \in 1..n
      PROVE  /\ ptr + off[j - 1] \in Nat
             /\ BodyAt(p, ptr + off[j - 1], <<"body", j>>, c[j])
             /\ skip_rigidBody(p, ptr + off[j - 1]) = ptr + off[j]
  <2> DEFINE at == ptr + off[j - 1]
             k == c[j]
  <2>1. j - 1 \in 0..n /\ k \in Nat
    BY <1>1
  <2>2. off[j - 1] \in Nat
    BY <2>1
  <2>3. Holds(p, at, BodyCells(<<"body", j>>, k))
    BY <1>2, <1>4
  <2>4. off[j] = off[j - 1] + (10 + 5 * k) /\ p[at + 8] = k
    BY <1>4
  <2> HIDE DEF k
  <2>5. at \in Nat /\ ptr + off[j] = at + (10 + 5 * k)
    BY <2>1, <2>2, <2>4
  <2> HIDE DEF at
  <2>6. BodyAt(p, at, <<"body", j>>, k)
    BY <2>1, <2>3, <2>5, BodyLayout
  <2>7. skip_rigidBody(p, at) = at + (10 + 5 * k)
    BY <2>1, <2>4, <2>5
       DEF skip_rigidBody, skip_rigidMarkers, skip_rigidMarkers_markers,
           skip_rigidMarkers_marker_ids, skip_rigidMarkers_marker_sizes
  <2> QED
    BY <2>5, <2>6, <2>7 DEF at, k
<1>6. \A m \in 0..n : skip_rigidBodies(p, ptr, m) = ptr + off[m]
  <2>1. \A j \in 1..n : skip_rigidBody(p, ptr + off[j - 1]) = ptr + off[j]
    BY <1>5
  <2>2. off[0] = 0
    BY <1>4
  <2> HIDE DEF n
  <2> QED
    BY <1>1, <2>1, <2>2, SkipBodies
<1>7. skip_rigidBodies(p, ptr, n) = ptr + Len(FlattenSeq(seqs))
  <2>1. n \in 0..n /\ Len(FlattenSeq(seqs)) = off[n]
    BY <1>1, <1>4
  <2> QED
    BY <1>6, <2>1
<1>8. Len(FlattenSeq(seqs)) \in Nat
  BY <1>1, <1>4
<1>9. \A j \in 1..n : skip_rigidBodies(p, ptr, j - 1) = ptr + off[j - 1]
  BY <1>1, <1>6
<1> QED
  BY <1>5, <1>7, <1>8, <1>9 DEF seqs

\* A skeleton, which is skipped body by body.
LEMMA SkeletonLayout ==
  ASSUME NEW f \in Frames, NEW j \in 1..Len(f.skeletons)
  PROVE  /\ IsSeq(SkeletonCells(f, j))
         /\ \A p : \A ptr \in Nat :
               Holds(p, ptr, SkeletonCells(f, j))
                  => skip_skeleton(p, ptr) = ptr + Len(SkeletonCells(f, j))
<1> DEFINE c == f.skeletons[j]
           n == Len(c)
           head == << <<"skeleton", j>>, n>>
           seqs == [k \in 1..n |-> BodyCells(<<"skeleton", j, k>>, c[k])]
           flat == FlattenSeq(seqs)
<1>1. n \in Nat /\ \A k \in 1..n : c[k] \in Nat
  BY FrameCounts
<1>2. SkeletonCells(f, j) = head \o flat
  BY DEF SkeletonCells
<1>3. /\ IsSeq(head) /\ Len(head) = 2
      /\ \A p : \A ptr \in Nat : Holds(p, ptr, head) => p[ptr + 1] = n
  BY Two
<1> HIDE DEF head, n, c
<1>4. seqs = [k \in 1..n |-> seqs[k]]
      /\ \A k \in 1..n : seqs[k] = BodyCells(<<"skeleton", j, k>>, c[k])
  BY Zenon
<1> HIDE DEF seqs
<1>5. AreBodies(seqs, c, n)
  BY <1>1, <1>4 DEF AreBodies
<1>6. IsSeq(flat)
  BY <1>5, BodyList, Flattened
<1>7. IsSeq(head \o flat) /\ Len(head \o flat) = Len(head) + Len(flat)
  BY <1>3, <1>6, CatLen
<1>8. ASSUME NEW p, NEW ptr \in Nat, Holds(p, ptr, head \o flat)
      PROVE  skip_skeleton(p, ptr) = ptr + Len(head \o flat)
  <2>1. Holds(p, ptr, head) /\ Holds(p, ptr + Len(head), flat)
    BY <1>3, <1>6, <1>8, HoldsCat
  <2>2. ptr + 2 \in Nat /\ Holds(p, ptr + 2, flat) /\ p[ptr + 1] = n
    BY <1>3, <2>1
  <2>3. PICK off \in [0..n -> Nat] :
            /\ off[0] = 0
            /\ Len(flat) = off[n]
            /\ \A k \in 1..n :
                  /\ off[k] = off[k - 1] + (10 + 5 * c[k])
                  /\ p[((ptr + 2) + off[k - 1]) + 8] = c[k]
                  /\ Holds(p, (ptr + 2) + off[k - 1], seqs[k])
    BY <1>5, <2>2, BodiesWalk
  <2>4. \A k \in 1..n : LET at == (ptr + 2) + off[k - 1]
                        IN  at + 9 + 5 * p[at + 8] + 1 = (ptr + 2) + off[k]
    <3> SUFFICES ASSUME NEW k \in 1..n
                 PROVE  LET at == (ptr + 2) + off[k - 1]
                        IN  at + 9 + 5 * p[at + 8] + 1 = (ptr + 2) + off[k]
      OBVIOUS
    <3> DEFINE m == c[k]
               b == off[k - 1]
    <3>1. k - 1 \in 0..n /\ m \in Nat
      BY <1>1
    <3>2. b \in Nat
      BY <3>1
    <3>3. off[k] = b + (10 + 5 * m) /\ p[((ptr + 2) + b) + 8] = m
      BY <2>3
    <3> HIDE DEF m, b
    <3>4. ((ptr + 2) + b) + 9 + 5 * m + 1 = (ptr + 2) + (b + (10 + 5 * m))
      BY <3>1, <3>2
    <3> QED
      BY <3>3, <3>4 DEF b
  <2>5. p[ptr + 1] \in 0..n /\ off[0] = 0
    BY <1>1, <2>2, <2>3
  <2>6. skip_skeleton(p, ptr) = (ptr + 2) + off[p[ptr + 1]]
    BY <1>1, <2>4, <2>5, SkipSkeletonBodies
  <2>7. off[n] \in Nat
    BY <1>1
  <2> QED
    <3>1. Len(head \o flat) = 2 + off[n]
      BY <1>3, <1>7, <2>3
    <3>2. skip_skeleton(p, ptr) = (ptr + 2) + off[n]
      BY <2>2, <2>6
    <3>3. (ptr + 2) + off[n] = ptr + (2 + off[n])
      BY <2>7
    <3> QED
      BY <3>1, <3>2, <3>3
<1> QED
  BY <1>2, <1>7, <1>8, Zenon

\* Skipping the skeletons.
LEMMA SkeletonsSkipped ==
  ASSUME NEW f \in Frames, NEW p, NEW ptr \in Nat, Holds(p, ptr, FlattenSeq(Skeletons(f)))
  PROVE  /\ Len(FlattenSeq(Skeletons(f))) \in Nat
         /\ skip_skeletons(p, ptr, Len(f.skeletons)) = ptr + Len(FlattenSeq(Skeletons(f)))
<1> DEFINE n == Len(f.skeletons)
           seqs == Skeletons(f)
<1>1. n \in Nat
  BY FrameCounts
<1>2. seqs = [j \in 1..n |-> seqs[j]] /\ \A j \in 1..n : seqs[j] = SkeletonCells(f, j)
  BY Zenon DEF Skeletons
<1> HIDE DEF seqs
<1>3. IsList(seqs, n)
  BY <1>1, <1>2, SkeletonLayout DEF IsList
<1>4. PICK off : /\ Ends(off, seqs, n)
                 /\ Len(FlattenSeq(seqs)) = off[n]
                 /\ \A j \in 1..n : Holds(p, ptr + off[j - 1], seqs[j])
  BY <1>3, HoldsList DEF seqs
<1>5. /\ off \in [0..n -> Nat] /\ off[0] = 0
      /\ \A j \in 1..n : off[j] = off[j - 1] + Len(seqs[j])
  BY <1>4 DEF Ends
<1>6. ASSUME NEW j \in 1..n
      PROVE  skip_skeleton(p, ptr + off[j - 1]) = ptr + off[j]
  <2> DEFINE at == ptr + off[j - 1]
             l == Len(seqs[j])
  <2>1. j - 1 \in 0..n /\ l \in Nat
    BY <1>1, <1>3, SeqCells DEF IsList
  <2>2. off[j - 1] \in Nat
    BY <1>5, <2>1
  <2>3. Holds(p, at, SkeletonCells(f, j)) /\ l = Len(SkeletonCells(f, j))
    BY <1>2, <1>4
  <2>4. off[j] = off[j - 1] + l
    BY <1>5
  <2> HIDE DEF l
  <2>5. at \in Nat /\ ptr + off[j] = at + l
    BY <2>1, <2>2, <2>4
  <2> HIDE DEF at
  <2>6. skip_skeleton(p, at) = at + l
    BY <2>3, <2>5, SkeletonLayout
  <2> QED
    BY <2>5, <2>6 DEF at
<1>7. skip_skeletons(p, ptr, n) = ptr + off[n]
  <2>1. \A j \in 1..n : skip_skeleton(p, ptr + off[j - 1]) = ptr + off[j]
    BY <1>6
  <2>2. n \in 0..n
    BY <1>1
  <2> HIDE DEF n
  <2> QED
    BY <1>1, <1>5, <2>1, <2>2, SkipSkeletons
<1>8. off[n] \in Nat
  BY <1>1, <1>5
<1> QED
  BY <1>4, <1>7, <1>8 DEF seqs

\* A labeled marker.
LabeledAt(p, ptr, j) ==
    /\ p[ptr] = <<"labeled", j, "id">>
    /\ marker(p, ptr + 1, 0) = Cells3(<<"labeled", j>>)
    /\ p[ptr + 4] = <<"labeled", j, "size">>

\* LabeledCells puts the cells of a labeled marker where LabeledAt has them.
LEMMA LabeledLayout ==
  ASSUME NEW j
  PROVE  /\ IsSeq(LabeledCells(j)) /\ Len(LabeledCells(j)) = 5
         /\ \A p : \A ptr \in Nat : Holds(p, ptr, LabeledCells(j)) => LabeledAt(p, ptr, j)
<1> DEFINE c1 == << <<"labeled", j, "id">> >>
           c2 == Cells3(<<"labeled", j>>)
           c3 == << <<"labeled", j, "size">> >>
           a2 == c1 \o c2
<1>1. LabeledCells(j) = a2 \o c3
  BY DEF LabeledCells
<1>2. /\ IsSeq(c1) /\ Len(c1) = 1
      /\ \A p : \A ptr \in Nat : Holds(p, ptr, c1) => p[ptr] = <<"labeled", j, "id">>
  BY One
<1>3. /\ IsSeq(c2) /\ Len(c2) = 3
      /\ \A p : \A ptr \in Nat :
            Holds(p, ptr, c2) => marker(p, ptr, 0) = Cells3(<<"labeled", j>>)
  <2>1. \A p : \A ptr \in Nat : marker(p, ptr, 0) = <<p[ptr], p[ptr + 1], p[ptr + 2]>>
    BY DEF marker
  <2> QED
    BY <2>1, ThreeCells
<1>4. /\ IsSeq(c3) /\ Len(c3) = 1
      /\ \A p : \A ptr \in Nat : Holds(p, ptr, c3) => p[ptr] = <<"labeled", j, "size">>
  BY One
<1> HIDE DEF c1, c2, c3
<1>5. IsSeq(a2) /\ Len(a2) = 4
  <2>1. IsSeq(c1 \o c2) /\ Len(c1 \o c2) = Len(c1) + Len(c2)
    BY <1>2, <1>3, CatLen
  <2> QED
    BY <1>2, <1>3, <2>1
<1> HIDE DEF a2
<1>6. IsSeq(a2 \o c3) /\ Len(a2 \o c3) = 5
  <2>1. IsSeq(a2 \o c3) /\ Len(a2 \o c3) = Len(a2) + Len(c3)
    BY <1>4, <1>5, CatLen
  <2> QED
    BY <1>4, <1>5, <2>1
<1>7. ASSUME NEW p, NEW ptr \in Nat, Holds(p, ptr, a2 \o c3)
      PROVE  LabeledAt(p, ptr, j)
  <2>1. Holds(p, ptr, a2) /\ Holds(p, ptr + Len(a2), c3)
    BY <1>4, <1>5, <1>7, HoldsCat
  <2>2. Holds(p, ptr, c1) /\ Holds(p, ptr + Len(c1), c2)
    BY <1>2, <1>3, <2>1, HoldsCat DEF a2
  <2>3. ptr + 1 \in Nat /\ ptr + 4 \in Nat /\ Holds(p, ptr + 1, c2) /\ Holds(p, ptr + 4, c3)
    BY <1>2, <1>5, <2>1, <2>2
  <2>4. /\ p[ptr] = <<"labeled", j, "id">>
        /\ marker(p, ptr + 1, 0) = Cells3(<<"labeled", j>>)
        /\ p[ptr + 4] = <<"labeled", j, "size">>
    BY <1>2, <1>3, <1>4, <2>2, <2>3
  <2> QED
    BY <2>4, Zenon DEF LabeledAt
<1> QED
  BY <1>1, <1>6, <1>7, Zenon

\* Reading and skipping the labeled markers.
LEMMA LabeledRead ==
  ASSUME NEW f \in Frames, NEW p, NEW ptr \in Nat, Holds(p, ptr, FlattenSeq(Labeled(f)))
  PROVE  /\ skip_labeledMarkers(p, ptr, f.labeledMarkers) = ptr + Len(FlattenSeq(Labeled(f)))
         /\ \A j \in 1..f.labeledMarkers :
               LabeledAt(p, skip_labeledMarkers(p, ptr, j - 1), j)
<1> DEFINE n == f.labeledMarkers
           seqs == Labeled(f)
<1>1. n \in Nat
  BY FrameCounts
<1>2. seqs = [j \in 1..n |-> seqs[j]] /\ \A j \in 1..n : seqs[j] = LabeledCells(j)
  BY Zenon DEF Labeled
<1> HIDE DEF seqs
<1>3. IsList(seqs, n)
  BY <1>1, <1>2, LabeledLayout DEF IsList
<1>4. PICK off : /\ Ends(off, seqs, n)
                 /\ Len(FlattenSeq(seqs)) = off[n]
                 /\ \A j \in 1..n : Holds(p, ptr + off[j - 1], seqs[j])
  BY <1>3, HoldsList DEF seqs
<1>5. /\ off \in [0..n -> Nat] /\ off[0] = 0
      /\ \A j \in 1..n : off[j] = off[j - 1] + Len(seqs[j])
  BY <1>4 DEF Ends
<1>6. ASSUME NEW j \in 1..n
      PROVE  /\ skip_labeledMarker(p, ptr + off[j - 1]) = ptr + off[j]
             /\ LabeledAt(p, ptr + off[j - 1], j)
  <2> DEFINE at == ptr + off[j - 1]
  <2>1. j - 1 \in 0..n
    BY <1>1
  <2>2. off[j - 1] \in Nat
    BY <1>5, <2>1
  <2>3. Holds(p, at, LabeledCells(j)) /\ Len(seqs[j]) = 5
    BY <1>2, <1>4, LabeledLayout
  <2>4. at \in Nat /\ ptr + off[j] = at + 5
    <3>1. off[j] = off[j - 1] + 5
      BY <1>5, <2>3
    <3> QED
      BY <2>2, <3>1
  <2> HIDE DEF at
  <2>5. LabeledAt(p, at, j) /\ skip_labeledMarker(p, at) = at + 5
    BY <2>3, <2>4, LabeledLayout DEF skip_labeledMarker
  <2> QED
    BY <2>4, <2>5 DEF at
<1>7. \A m \in 0..n : skip_labeledMarkers(p, ptr, m) = ptr + off[m]
  <2>1. \A j \in 1..n : skip_labeledMarker(p, ptr + off[j - 1]) = ptr + off[j]
    BY <1>6
  <2> HIDE DEF n
  <2> QED
    BY <1>1, <1>5, <2>1, SkipLabeled
<1>8. skip_labeledMarkers(p, ptr, n) = ptr + Len(FlattenSeq(seqs))
  <2>1. n \in 0..n /\ Len(FlattenSeq(seqs)) = off[n]
    BY <1>1, <1>4
  <2> QED
    BY <1>7, <2>1
<1>9. \A j \in 1..n : skip_labeledMarkers(p, ptr, j - 1) = ptr + off[j - 1]
  BY <1>1, <1>7
<1> QED
  BY <1>6, <1>8, <1>9 DEF seqs

\* Every list is a sequence of cells; that of the other markers is read as it is.
LEMMA Lists ==
  ASSUME NEW f \in Frames
  PROVE  /\ IsSeq(FlattenSeq(Sets(f))) /\ IsSeq(FlattenSeq(Others(f)))
         /\ IsSeq(FlattenSeq(Bodies(f))) /\ IsSeq(FlattenSeq(Skeletons(f)))
         /\ IsSeq(FlattenSeq(Labeled(f)))
<1>1. IsSeq(FlattenSeq(Sets(f)))
  <2>1. \A j \in 1..Len(f.markerSets) : Sets(f)[j] = SetCells(f, j)
    BY Zenon DEF Sets
  <2>2. Sets(f) = [j \in 1..Len(f.markerSets) |-> Sets(f)[j]]
    BY Zenon DEF Sets
  <2>3. IsList(Sets(f), Len(f.markerSets))
    BY <2>1, <2>2, FrameCounts, SetLayout DEF IsList
  <2> QED
    BY <2>3, Flattened
<1>2. IsSeq(FlattenSeq(Bodies(f)))
  <2>1. \A j \in 1..Len(f.rigidBodies) : Bodies(f)[j] = BodyCells(<<"body", j>>, f.rigidBodies[j])
    BY Zenon DEF Bodies
  <2>2. Bodies(f) = [j \in 1..Len(f.rigidBodies) |-> Bodies(f)[j]]
    BY Zenon DEF Bodies
  <2>3. IsList(Bodies(f), Len(f.rigidBodies))
    BY <2>1, <2>2, FrameCounts, BodyLayout DEF IsList
  <2> QED
    BY <2>3, Flattened
<1>3. IsSeq(FlattenSeq(Skeletons(f)))
  <2>1. \A j \in 1..Len(f.skeletons) : Skeletons(f)[j] = SkeletonCells(f, j)
    BY Zenon DEF Skeletons
  <2>2. Skeletons(f) = [j \in 1..Len(f.skeletons) |-> Skeletons(f)[j]]
    BY Zenon DEF Skeletons
  <2>3. IsList(Skeletons(f), Len(f.skeletons))
    BY <2>1, <2>2, FrameCounts, SkeletonLayout DEF IsList
  <2> QED
    BY <2>3, Flattened
<1>4. IsSeq(FlattenSeq(Labeled(f)))
  <2>1. \A j \in 1..f.labeledMarkers : Labeled(f)[j] = LabeledCells(j)
    BY Zenon DEF Labeled
  <2>2. Labeled(f) = [j \in 1..f.labeledMarkers |-> Labeled(f)[j]]
    BY Zenon DEF Labeled
  <2>3. IsList(Labeled(f), f.labeledMarkers)
    BY <2>1, <2>2, FrameCounts, LabeledLayout DEF IsList
  <2> QED
    BY <2>3, Flattened
<1>5. IsSeq(FlattenSeq(Others(f)))
  <2>1. \A j \in 1..f.otherMarkers : Others(f)[j] = Cells3(<<"other", j>>)
    BY Zenon DEF Others
  <2>2. Others(f) = [j \in 1..f.otherMarkers |-> Others(f)[j]]
    BY Zenon DEF Others
  <2>3. ArePositions(Others(f), f.otherMarkers)
    BY <2>1, <2>2, FrameCounts DEF ArePositions
  <2> QED
    BY <2>3, Triples
<1> QED
  BY <1>1, <1>2, <1>3, <1>4, <1>5

\* The markers that belong to no body, and what they take.
LEMMA OthersRead ==
  ASSUME NEW f \in Frames, NEW p, NEW ptr \in Nat, Holds(p, ptr, FlattenSeq(Others(f)))
  PROVE  /\ skip_otherMarkers(p, ptr, f.otherMarkers) = ptr + Len(FlattenSeq(Others(f)))
         /\ \A j \in 1..f.otherMarkers : marker(p, ptr, j - 1) = Cells3(<<"other", j>>)
<1>1. \A j \in 1..f.otherMarkers : Others(f)[j] = Cells3(<<"other", j>>)
  BY Zenon DEF Others
<1>2. Others(f) = [j \in 1..f.otherMarkers |-> Others(f)[j]]
  BY Zenon DEF Others
<1>3. ArePositions(Others(f), f.otherMarkers)
  BY <1>1, <1>2, FrameCounts DEF ArePositions
<1>4. /\ Len(FlattenSeq(Others(f))) = 3 * f.otherMarkers
      /\ \A k \in 1..f.otherMarkers : marker(p, ptr, k - 1) = Others(f)[k]
  BY <1>3, Triples
<1> QED
  BY <1>1, <1>4 DEF skip_otherMarkers

-----------------------------------------------------------------------------
(* The packet of a frame.                                                  *)

AtOthers(f)    == 4 + Len(FlattenSeq(Sets(f)))
AtBodies(f)    == AtOthers(f) + 1 + Len(FlattenSeq(Others(f)))
AtSkeletons(f) == AtBodies(f) + 1 + Len(FlattenSeq(Bodies(f)))
AtLabeled(f)   == AtSkeletons(f) + 1 + Len(FlattenSeq(Skeletons(f)))
AtLatency(f)   == AtLabeled(f) + 1 + Len(FlattenSeq(Labeled(f)))

\* The counts and the lists, each where the ones before it end.
FrameAt(p, f) ==
    /\ p[1] = MOCAP_DATA /\ p[2] = "frame_nr"
    /\ p[3] = Len(f.markerSets)
    /\ Holds(p, 4, FlattenSeq(Sets(f)))
    /\ p[AtOthers(f)] = f.otherMarkers
    /\ Holds(p, AtOthers(f) + 1, FlattenSeq(Others(f)))
    /\ p[AtBodies(f)] = Len(f.rigidBodies)
    /\ Holds(p, AtBodies(f) + 1, FlattenSeq(Bodies(f)))
    /\ p[AtSkeletons(f)] = Len(f.skeletons)
    /\ Holds(p, AtSkeletons(f) + 1, FlattenSeq(Skeletons(f)))
    /\ p[AtLabeled(f)] = f.labeledMarkers
    /\ Holds(p, AtLabeled(f) + 1, FlattenSeq(Labeled(f)))
    /\ p[AtLatency(f)] = "latency" /\ p[AtLatency(f) + 3] = "endOfData"

\* The lists of a packet start at numbers.
LEMMA Positions ==
  ASSUME NEW f \in Frames
  PROVE  /\ AtOthers(f) \in Nat /\ AtBodies(f) \in Nat /\ AtSkeletons(f) \in Nat
         /\ AtLabeled(f) \in Nat /\ AtLatency(f) \in Nat
<1>1. /\ Len(FlattenSeq(Sets(f))) \in Nat /\ Len(FlattenSeq(Others(f))) \in Nat
      /\ Len(FlattenSeq(Bodies(f))) \in Nat /\ Len(FlattenSeq(Skeletons(f))) \in Nat
      /\ Len(FlattenSeq(Labeled(f))) \in Nat
  BY Lists, SeqCells
<1>2. AtOthers(f) \in Nat
  BY <1>1 DEF AtOthers
<1>3. AtBodies(f) \in Nat
  BY <1>1, <1>2 DEF AtBodies
<1>4. AtSkeletons(f) \in Nat
  BY <1>1, <1>3 DEF AtSkeletons
<1>5. AtLabeled(f) \in Nat
  BY <1>1, <1>4 DEF AtLabeled
<1>6. AtLatency(f) \in Nat
  BY <1>1, <1>5 DEF AtLatency
<1> QED
  BY <1>2, <1>3, <1>4, <1>5, <1>6

\* Packet puts the lists where FrameAt has them.
LEMMA PacketLayout ==
  ASSUME NEW f \in Frames
  PROVE  FrameAt(Packet(f), f)
<1> DEFINE p == Packet(f)
           c1  == <<MOCAP_DATA, "frame_nr", Len(f.markerSets)>>
           c2  == FlattenSeq(Sets(f))
           c3  == <<f.otherMarkers>>
           c4  == FlattenSeq(Others(f))
           c5  == <<Len(f.rigidBodies)>>
           c6  == FlattenSeq(Bodies(f))
           c7  == <<Len(f.skeletons)>>
           c8  == FlattenSeq(Skeletons(f))
           c9  == <<f.labeledMarkers>>
           c10 == FlattenSeq(Labeled(f))
           c11 == <<"latency", "timecode", "timecodeSub", "endOfData">>
           a2  == c1 \o c2
           a3  == a2 \o c3
           a4  == a3 \o c4
           a5  == a4 \o c5
           a6  == a5 \o c6
           a7  == a6 \o c7
           a8  == a7 \o c8
           a9  == a8 \o c9
           a10 == a9 \o c10
<1>1. p = a10 \o c11
  BY DEF Packet, Each, Sets, SetCells, Others, Bodies, Skeletons, SkeletonCells,
         Labeled, LabeledCells
<1>2. /\ IsSeq(c1) /\ Len(c1) = 3
      /\ \A q : Holds(q, 1, c1) => /\ q[1] = MOCAP_DATA /\ q[2] = "frame_nr"
                                   /\ q[3] = Len(f.markerSets)
  <2>1. c1 = [k \in 1..3 |-> c1[k]] /\ 3 \in Nat /\ 1 \in Nat
    OBVIOUS
  <2>2. /\ IsSeq(c1) /\ Len(c1) = 3
        /\ \A q : \A ptr \in Nat : Holds(q, ptr, c1) => \A k \in 1..3 : q[ptr + (k - 1)] = c1[k]
    <3> HIDE DEF c1
    <3> QED
      BY <2>1, Row
  <2>3. ASSUME NEW q, Holds(q, 1, c1)
        PROVE  q[1] = MOCAP_DATA /\ q[2] = "frame_nr" /\ q[3] = Len(f.markerSets)
    <3>1. \A k \in 1..3 : q[1 + (k - 1)] = c1[k]
      BY <2>1, <2>2, <2>3
    <3>2. q[1 + (1 - 1)] = c1[1] /\ q[1 + (2 - 1)] = c1[2] /\ q[1 + (3 - 1)] = c1[3]
      BY <3>1
    <3>3. 1 + (1 - 1) = 1 /\ 1 + (2 - 1) = 2 /\ 1 + (3 - 1) = 3
      OBVIOUS
    <3> QED
      BY <3>2, <3>3
  <2> QED
    BY <2>2, <2>3
<1>3. /\ IsSeq(c2) /\ IsSeq(c4) /\ IsSeq(c6) /\ IsSeq(c8) /\ IsSeq(c10)
      /\ Len(c2) \in Nat /\ Len(c4) \in Nat /\ Len(c6) \in Nat /\ Len(c8) \in Nat
      /\ Len(c10) \in Nat
  BY Lists, SeqCells
<1>4. /\ IsSeq(c3) /\ IsSeq(c5) /\ IsSeq(c7) /\ IsSeq(c9)
      /\ Len(c3) = 1 /\ Len(c5) = 1 /\ Len(c7) = 1 /\ Len(c9) = 1
      /\ \A q : \A ptr \in Nat : /\ Holds(q, ptr, c3) => q[ptr] = f.otherMarkers
                                 /\ Holds(q, ptr, c5) => q[ptr] = Len(f.rigidBodies)
                                 /\ Holds(q, ptr, c7) => q[ptr] = Len(f.skeletons)
                                 /\ Holds(q, ptr, c9) => q[ptr] = f.labeledMarkers
  BY One
<1>5. /\ IsSeq(c11) /\ Len(c11) = 4
      /\ \A q : \A ptr \in Nat :
            Holds(q, ptr, c11) => q[ptr] = "latency" /\ q[ptr + 3] = "endOfData"
  <2>1. c11 = [k \in 1..4 |-> c11[k]] /\ 4 \in Nat
    OBVIOUS
  <2>2. /\ IsSeq(c11) /\ Len(c11) = 4
        /\ \A q : \A ptr \in Nat :
              Holds(q, ptr, c11) => \A k \in 1..4 : q[ptr + (k - 1)] = c11[k]
    <3> HIDE DEF c11
    <3> QED
      BY <2>1, Row
  <2>3. ASSUME NEW q, NEW ptr \in Nat, Holds(q, ptr, c11)
        PROVE  q[ptr] = "latency" /\ q[ptr + 3] = "endOfData"
    <3>1. \A k \in 1..4 : q[ptr + (k - 1)] = c11[k]
      BY <2>2, <2>3
    <3>2. q[ptr + (1 - 1)] = c11[1] /\ q[ptr + (4 - 1)] = c11[4]
      BY <3>1
    <3>3. ptr + (1 - 1) = ptr /\ ptr + (4 - 1) = ptr + 3
      OBVIOUS
    <3> QED
      BY <3>2, <3>3
  <2> QED
    BY <2>2, <2>3
<1>6. /\ AtOthers(f) = 4 + Len(c2)
      /\ AtBodies(f) = AtOthers(f) + 1 + Len(c4)
      /\ AtSkeletons(f) = AtBodies(f) + 1 + Len(c6)
      /\ AtLabeled(f) = AtSkeletons(f) + 1 + Len(c8)
      /\ AtLatency(f) = AtLabeled(f) + 1 + Len(c10)
  BY DEF AtOthers, AtBodies, AtSkeletons, AtLabeled, AtLatency
<1> DEFINE om == AtOthers(f)
           rb == AtBodies(f)
           sk == AtSkeletons(f)
           lm == AtLabeled(f)
           la == AtLatency(f)
<1>7. om \in Nat /\ rb \in Nat /\ sk \in Nat /\ lm \in Nat /\ la \in Nat
  BY Positions
<1> HIDE DEF p, c1, c2, c3, c4, c5, c6, c7, c8, c9, c10, c11, om, rb, sk, lm, la
<1>8. om = 4 + Len(c2) /\ rb = om + 1 + Len(c4) /\ sk = rb + 1 + Len(c6)
      /\ lm = sk + 1 + Len(c8) /\ la = lm + 1 + Len(c10)
  BY <1>6 DEF om, rb, sk, lm, la
<1>9. /\ IsSeq(c1) /\ IsSeq(c2) /\ IsSeq(c3) /\ IsSeq(c4) /\ IsSeq(c5) /\ IsSeq(c6)
      /\ IsSeq(c7) /\ IsSeq(c8) /\ IsSeq(c9) /\ IsSeq(c10) /\ IsSeq(c11)
      /\ Len(c1) = 3 /\ Len(c3) = 1 /\ Len(c5) = 1 /\ Len(c7) = 1 /\ Len(c9) = 1
      /\ Len(c2) \in Nat /\ Len(c4) \in Nat /\ Len(c6) \in Nat /\ Len(c8) \in Nat
      /\ Len(c10) \in Nat
  BY <1>2, <1>3, <1>4, <1>5, Zenon
<1>12. IsSeq(a2) /\ Len(a2) = om - 1
  <2>1. IsSeq(c1 \o c2) /\ Len(c1 \o c2) = Len(c1) + Len(c2)
    BY <1>9, CatLen
  <2> QED
    BY <1>7, <1>8, <1>9, <2>1
<1> HIDE DEF a2
<1>13. IsSeq(a3) /\ Len(a3) = om
  <2>1. IsSeq(a2 \o c3) /\ Len(a2 \o c3) = Len(a2) + Len(c3)
    BY <1>9, <1>12, CatLen
  <2> QED
    BY <1>7, <1>8, <1>9, <1>12, <2>1
<1> HIDE DEF a3
<1>14. IsSeq(a4) /\ Len(a4) = rb - 1
  <2>1. IsSeq(a3 \o c4) /\ Len(a3 \o c4) = Len(a3) + Len(c4)
    BY <1>9, <1>13, CatLen
  <2> QED
    BY <1>7, <1>8, <1>9, <1>13, <2>1
<1> HIDE DEF a4
<1>15. IsSeq(a5) /\ Len(a5) = rb
  <2>1. IsSeq(a4 \o c5) /\ Len(a4 \o c5) = Len(a4) + Len(c5)
    BY <1>9, <1>14, CatLen
  <2> QED
    BY <1>7, <1>8, <1>9, <1>14, <2>1
<1> HIDE DEF a5
<1>16. IsSeq(a6) /\ Len(a6) = sk - 1
  <2>1. IsSeq(a5 \o c6) /\ Len(a5 \o c6) = Len(a5) + Len(c6)
    BY <1>9, <1>15, CatLen
  <2> QED
    BY <1>7, <1>8, <1>9, <1>15, <2>1
<1> HIDE DEF a6
<1>17. IsSeq(a7) /\ Len(a7) = sk
  <2>1. IsSeq(a6 \o c7) /\ Len(a6 \o c7) = Len(a6) + Len(c7)
    BY <1>9, <1>16, CatLen
  <2> QED
    BY <1>7, <1>8, <1>9, <1>16, <2>1
<1> HIDE DEF a7
<1>18. IsSeq(a8) /\ Len(a8) = lm - 1
  <2>1. IsSeq(a7 \o c8) /\ Len(a7 \o c8) = Len(a7) + Len(c8)
    BY <1>9, <1>17, CatLen
  <2> QED
    BY <1>7, <1>8, <1>9, <1>17, <2>1
<1> HIDE DEF a8
<1>19. IsSeq(a9) /\ Len(a9) = lm
  <2>1. IsSeq(a8 \o c9) /\ Len(a8 \o c9) = Len(a8) + Len(c9)
    BY <1>9, <1>18, CatLen
  <2> QED
    BY <1>7, <1>8, <1>9, <1>18, <2>1
<1> HIDE DEF a9
<1>20. IsSeq(a10) /\ Len(a10) = la - 1
  <2>1. IsSeq(a9 \o c10) /\ Len(a9 \o c10) = Len(a9) + Len(c10)
    BY <1>9, <1>19, CatLen
  <2> QED
    BY <1>7, <1>8, <1>9, <1>19, <2>1
<1> HIDE DEF a10
<1>30. Holds(p, 1, p)
  <2>1. \A k \in 0..(Len(p) - 1) : 1 + k = k + 1
    <3>1. Len(p) \in Nat
      BY <1>1, <1>20, <1>5, Cat, SeqCells
    <3> QED
      BY <3>1
  <2> QED
    BY <2>1 DEF Holds
<1>50. Holds(p, 1, a10) /\ Holds(p, la, c11)
  <2>1. Holds(p, 1, a10 \o c11) /\ 1 \in Nat
    BY <1>1, <1>30
  <2>2. Holds(p, 1, a10) /\ Holds(p, 1 + Len(a10), c11)
    BY <1>9, <1>20, <2>1, HoldsCat
  <2>3. 1 + Len(a10) = la
    BY <1>7, <1>8, <1>9, <1>20
  <2> QED
    BY <2>2, <2>3
<1>51. Holds(p, 1, a9) /\ Holds(p, lm + 1, c10)
  <2>1. Holds(p, 1, a9 \o c10) /\ 1 \in Nat
    BY <1>50 DEF a10
  <2>2. Holds(p, 1, a9) /\ Holds(p, 1 + Len(a9), c10)
    BY <1>9, <1>19, <2>1, HoldsCat
  <2>3. 1 + Len(a9) = lm + 1
    BY <1>7, <1>8, <1>9, <1>19
  <2> QED
    BY <2>2, <2>3
<1>52. Holds(p, 1, a8) /\ Holds(p, lm, c9)
  <2>1. Holds(p, 1, a8 \o c9) /\ 1 \in Nat
    BY <1>51 DEF a9
  <2>2. Holds(p, 1, a8) /\ Holds(p, 1 + Len(a8), c9)
    BY <1>9, <1>18, <2>1, HoldsCat
  <2>3. 1 + Len(a8) = lm
    BY <1>7, <1>8, <1>9, <1>18
  <2> QED
    BY <2>2, <2>3
<1>53. Holds(p, 1, a7) /\ Holds(p, sk + 1, c8)
  <2>1. Holds(p, 1, a7 \o c8) /\ 1 \in Nat
    BY <1>52 DEF a8
  <2>2. Holds(p, 1, a7) /\ Holds(p, 1 + Len(a7), c8)
    BY <1>9, <1>17, <2>1, HoldsCat
  <2>3. 1 + Len(a7) = sk + 1
    BY <1>7, <1>8, <1>9, <1>17
  <2> QED
    BY <2>2, <2>3
<1>54. Holds(p, 1, a6) /\ Holds(p, sk, c7)
  <2>1. Holds(p, 1, a6 \o c7) /\ 1 \in Nat
    BY <1>53 DEF a7
  <2>2. Holds(p, 1, a6) /\ Holds(p, 1 + Len(a6), c7)
    BY <1>9, <1>16, <2>1, HoldsCat
  <2>3. 1 + Len(a6) = sk
    BY <1>7, <1>8, <1>9, <1>16
  <2> QED
    BY <2>2, <2>3
<1>55. Holds(p, 1, a5) /\ Holds(p, rb + 1, c6)
  <2>1. Holds(p, 1, a5 \o c6) /\ 1 \in Nat
    BY <1>54 DEF a6
  <2>2. Holds(p, 1, a5) /\ Holds(p, 1 + Len(a5), c6)
    BY <1>9, <1>15, <2>1, HoldsCat
  <2>3. 1 + Len(a5) = rb + 1
    BY <1>7, <1>8, <1>9, <1>15
  <2> QED
    BY <2>2, <2>3
<1>56. Holds(p, 1, a4) /\ Holds(p, rb, c5)
  <2>1. Holds(p, 1, a4 \o c5) /\ 1 \in Nat
    BY <1>55 DEF a5
  <2>2. Holds(p, 1, a4) /\ Holds(p, 1 + Len(a4), c5)
    BY <1>9, <1>14, <2>1, HoldsCat
  <2>3. 1 + Len(a4) = rb
    BY <1>7, <1>8, <1>9, <1>14
  <2> QED
    BY <2>2, <2>3
<1>57. Holds(p, 1, a3) /\ Holds(p, om + 1, c4)
  <2>1. Holds(p, 1, a3 \o c4) /\ 1 \in Nat
    BY <1>56 DEF a4
  <2>2. Holds(p, 1, a3) /\ Holds(p, 1 + Len(a3), c4)
    BY <1>9, <1>13, <2>1, HoldsCat
  <2>3. 1 + Len(a3) = om + 1
    BY <1>7, <1>8, <1>9, <1>13
  <2> QED
    BY <2>2, <2>3
<1>58. Holds(p, 1, a2) /\ Holds(p, om, c3)
  <2>1. Holds(p, 1, a2 \o c3) /\ 1 \in Nat
    BY <1>57 DEF a3
  <2>2. Holds(p, 1, a2) /\ Holds(p, 1 + Len(a2), c3)
    BY <1>9, <1>12, <2>1, HoldsCat
  <2>3. 1 + Len(a2) = om
    BY <1>7, <1>8, <1>9, <1>12
  <2> QED
    BY <2>2, <2>3
<1>59. Holds(p, 1, c1) /\ Holds(p, 4, c2)
  <2>1. Holds(p, 1, c1 \o c2) /\ 1 \in Nat
    BY <1>58 DEF a2
  <2>2. Holds(p, 1, c1) /\ Holds(p, 1 + Len(c1), c2)
    BY <1>9, <2>1, HoldsCat
  <2>3. 1 + Len(c1) = 4
    BY <1>7, <1>8, <1>9
  <2> QED
    BY <2>2, <2>3
<1>60. /\ Holds(p, 4, c2) /\ Holds(p, om + 1, c4) /\ Holds(p, rb + 1, c6)
       /\ Holds(p, sk + 1, c8) /\ Holds(p, lm + 1, c10)
       /\ p[om] = f.otherMarkers /\ p[rb] = Len(f.rigidBodies)
       /\ p[sk] = Len(f.skeletons) /\ p[lm] = f.labeledMarkers
       /\ p[la] = "latency" /\ p[la + 3] = "endOfData"
       /\ p[1] = MOCAP_DATA /\ p[2] = "frame_nr" /\ p[3] = Len(f.markerSets)
  BY <1>2, <1>4, <1>5, <1>7, <1>50, <1>51, <1>52, <1>53, <1>54, <1>55, <1>56, <1>57,
     <1>58, <1>59
<1> QED
  BY <1>60, Zenon DEF FrameAt, p, c2, c4, c6, c8, c10, om, rb, sk, lm, la

\* What np_packet_unpack_mocap_data makes of it.
Unpacked(f) ==
    [frame_nr       |-> "frame_nr",
     nMarkerSets    |-> Len(f.markerSets),  markerSets     |-> 4,
     nOtherMarkers  |-> f.otherMarkers,     otherMarkers   |-> AtOthers(f) + 1,
     nRigidBodies   |-> Len(f.rigidBodies), rigidBodies    |-> AtBodies(f) + 1,
     nSkeletons     |-> Len(f.skeletons),   skeletons      |-> AtSkeletons(f) + 1,
     nLabeledMarkers |-> f.labeledMarkers,  labeledMarkers |-> AtLabeled(f) + 1,
     latency        |-> "latency",
     endOfData      |-> "endOfData"]

\* np_packet_unpack_mocap_data finds every list and every count.
LEMMA Unpacking ==
  ASSUME NEW f \in Frames, NEW p, FrameAt(p, f)
  PROVE  unpack_mocap_data(p) = Unpacked(f)
<1> DEFINE om == AtOthers(f)
           rb == AtBodies(f)
           sk == AtSkeletons(f)
           lm == AtLabeled(f)
           la == AtLatency(f)
<1>1. om \in Nat /\ rb \in Nat /\ sk \in Nat /\ lm \in Nat /\ la \in Nat
  BY Positions
<1>2. 4 \in Nat /\ om + 1 \in Nat /\ rb + 1 \in Nat /\ sk + 1 \in Nat /\ lm + 1 \in Nat
  BY <1>1
<1>3. 3 + 1 = 4
  OBVIOUS
<1>4. skip_markerSets(p, 3 + 1, p[3]) = om
  <2>1. Holds(p, 4, FlattenSeq(Sets(f))) /\ p[3] = Len(f.markerSets)
    BY DEF FrameAt
  <2>2. skip_markerSets(p, 4, Len(f.markerSets)) = 4 + Len(FlattenSeq(Sets(f)))
    BY <1>2, <2>1, SetsRead
  <2> QED
    BY <1>3, <2>1, <2>2 DEF AtOthers
<1>5. skip_otherMarkers(p, om + 1, p[om]) = rb
  <2>1. Holds(p, om + 1, FlattenSeq(Others(f))) /\ p[om] = f.otherMarkers
    BY DEF FrameAt
  <2>2. skip_otherMarkers(p, om + 1, f.otherMarkers) = (om + 1) + Len(FlattenSeq(Others(f)))
    BY <1>2, <2>1, OthersRead
  <2> QED
    BY <2>1, <2>2 DEF AtBodies
<1>6. skip_rigidBodies(p, rb + 1, p[rb]) = sk
  <2>1. Holds(p, rb + 1, FlattenSeq(Bodies(f))) /\ p[rb] = Len(f.rigidBodies)
    BY DEF FrameAt
  <2>2. skip_rigidBodies(p, rb + 1, Len(f.rigidBodies)) = (rb + 1) + Len(FlattenSeq(Bodies(f)))
    BY <1>2, <2>1, BodiesRead
  <2> QED
    BY <2>1, <2>2 DEF AtSkeletons
<1>7. skip_skeletons(p, sk + 1, p[sk]) = lm
  <2>1. Holds(p, sk + 1, FlattenSeq(Skeletons(f))) /\ p[sk] = Len(f.skeletons)
    BY DEF FrameAt
  <2>2. skip_skeletons(p, sk + 1, Len(f.skeletons)) = (sk + 1) + Len(FlattenSeq(Skeletons(f)))
    BY <1>2, <2>1, SkeletonsSkipped
  <2> QED
    BY <2>1, <2>2 DEF AtLabeled
<1>8. skip_labeledMarkers(p, lm + 1, p[lm]) = la
  <2>1. Holds(p, lm + 1, FlattenSeq(Labeled(f))) /\ p[lm] = f.labeledMarkers
    BY DEF FrameAt
  <2>2. skip_labeledMarkers(p, lm + 1, f.labeledMarkers) = (lm + 1) + Len(FlattenSeq(Labeled(f)))
    BY <1>2, <2>1, LabeledRead
  <2> QED
    BY <2>1, <2>2 DEF AtLatency
<1>9. /\ p[2] = "frame_nr" /\ p[3] = Len(f.markerSets)
      /\ p[om] = f.otherMarkers /\ p[rb] = Len(f.rigidBodies)
      /\ p[sk] = Len(f.skeletons) /\ p[lm] = f.labeledMarkers
      /\ p[la] = "latency" /\ p[la + 3] = "endOfData"
  BY DEF FrameAt
<1> HIDE DEF om, rb, sk, lm, la
<1>10. unpack_mocap_data(p) =
         [frame_nr       |-> p[2],
          nMarkerSets    |-> p[3],  markerSets     |-> 3 + 1,
          nOtherMarkers  |-> p[om], otherMarkers   |-> om + 1,
          nRigidBodies   |-> p[rb], rigidBodies    |-> rb + 1,
          nSkeletons     |-> p[sk], skeletons      |-> sk + 1,
          nLabeledMarkers |-> p[lm], labeledMarkers |-> lm + 1,
          latency        |-> p[la],
          endOfData      |-> p[la + 3]]
  BY <1>4, <1>5, <1>6, <1>7, <1>8, Zenon DEF unpack_mocap_data
<1> QED
  BY <1>3, <1>9, <1>10, Zenon DEF Unpacked, om, rb, sk, lm

-----------------------------------------------------------------------------
(* What the handlers read of it.                                           *)

\* The marker set at an index.
LEMMA SetRead ==
  ASSUME NEW f \in Frames, NEW p, FrameAt(p, f), NEW j \in 1..Len(f.markerSets)
  PROVE  LET ms == markerSet(p, Unpacked(f), j - 1)
         IN  /\ ms.name = <<"set", j, "name">>
             /\ ms.nMarkers = f.markerSets[j]
             /\ \A k \in 1..f.markerSets[j] :
                   marker(p, ms.markers, k - 1) = Cells3(<<"set", j, k>>)
<1> DEFINE at == skip_markerSets(p, 4, j - 1)
           ms == markerSet(p, Unpacked(f), j - 1)
<1>1. Holds(p, 4, FlattenSeq(Sets(f))) /\ 4 \in Nat
  BY DEF FrameAt
<1>2. SetAt(p, at, f, j)
  BY <1>1, SetsRead
<1>3. Unpacked(f).markerSets = 4
  BY DEF Unpacked
<1>4. ms.name = p[at] /\ ms.nMarkers = p[at + 1] /\ ms.markers = at + 2
  BY <1>3 DEF markerSet
<1> HIDE DEF at, ms
<1>5. /\ ms.name = <<"set", j, "name">>
      /\ ms.nMarkers = f.markerSets[j]
      /\ \A k \in 1..f.markerSets[j] :
            marker(p, ms.markers, k - 1) = Cells3(<<"set", j, k>>)
  BY <1>2, <1>4 DEF SetAt
<1> QED
  BY <1>5 DEF ms

\* How the rigid body j of f is read in p.
BodyReads(f, p, j) ==
    LET b == rigidBody(p, Unpacked(f), j - 1)
        tag == <<"body", j>>
    IN  /\ b.rb.id = tag \o <<"id">>
        /\ b.rb.pos = Cells3(tag)
        /\ b.rb.q = [k \in 1..4 |-> tag \o <<"q", k>>]
        /\ b.rb.nRigidMarkers = f.rigidBodies[j]
        /\ b.meanError = tag \o <<"error">>
        /\ \A k \in 1..f.rigidBodies[j] :
              rigidMarker(p, b.rb, k - 1) =
                 [m    |-> Cells3(tag \o <<"marker", k>>),
                  id   |-> tag \o <<"marker", k, "id">>,
                  size |-> tag \o <<"marker", k, "size">>]

\* The rigid body at an index, its markers and what comes behind them.
LEMMA BodyRead ==
  ASSUME NEW f \in Frames, NEW p, FrameAt(p, f), NEW j \in 1..Len(f.rigidBodies)
  PROVE  BodyReads(f, p, j)
<1> DEFINE at == skip_rigidBodies(p, AtBodies(f) + 1, j - 1)
           b == rigidBody(p, Unpacked(f), j - 1)
           tag == <<"body", j>>
           n == f.rigidBodies[j]
<1>1. Holds(p, AtBodies(f) + 1, FlattenSeq(Bodies(f))) /\ AtBodies(f) + 1 \in Nat
  BY Positions DEF FrameAt
<1>2. at \in Nat /\ BodyAt(p, at, tag, n)
  BY <1>1, BodiesRead
<1>3. n \in Nat
  BY FrameCounts
<1>4. Unpacked(f).rigidBodies = AtBodies(f) + 1
  BY DEF Unpacked
<1> DEFINE From(ptr) == [index         |-> j - 1,
                         id            |-> p[ptr],
                         pos           |-> marker(p, ptr + 1, 0),
                         q             |-> SubSeq(p, ptr + 4, ptr + 7),
                         nRigidMarkers |-> p[ptr + 8],
                         rigidMarkers  |-> ptr + 9]
           rb == From(at)
<1>5. b = [rb |-> rb, meanError |-> rigidBody_mean_error(p, rb)]
  <2> DEFINE ptr == skip_rigidBodies(p, Unpacked(f).rigidBodies, j - 1)
  <2>1. b = [rb |-> From(ptr), meanError |-> rigidBody_mean_error(p, From(ptr))]
    BY Zenon DEF rigidBody
  <2>2. ptr = at
    BY <1>4
  <2> HIDE DEF at, ptr, From, b
  <2>3. From(ptr) = From(at)
    BY <2>2, Zenon
  <2> QED
    BY <2>1, <2>3, Zenon
<1>6. b.rb = rb /\ b.meanError = rigidBody_mean_error(p, rb)
  <2> HIDE DEF b, rb
  <2> QED
    BY <1>5
<1> HIDE DEF at, b, n
<1>7. /\ rb.id = p[at] /\ rb.pos = marker(p, at + 1, 0) /\ rb.q = SubSeq(p, at + 4, at + 7)
      /\ rb.nRigidMarkers = p[at + 8] /\ rb.rigidMarkers = at + 9
  OBVIOUS
<1> HIDE DEF rb, tag
<1>8. /\ rb.id = tag \o <<"id">> /\ rb.pos = Cells3(tag)
      /\ rb.nRigidMarkers = n
  BY <1>2, <1>7 DEF BodyAt
<1>9. rb.q = [k \in 1..4 |-> tag \o <<"q", k>>]
  <2>1. \A k \in 1..4 : p[(at + 4) + (k - 1)] = tag \o <<"q", k>>
    BY <1>2 DEF BodyAt
  <2>2. SubSeq(p, at + 4, at + 7) = [k \in 1..4 |-> p[(at + 4) + (k - 1)]]
    <3>1. SubSeq(p, at + 4, at + 7) = [k \in 1..((at + 7) - (at + 4) + 1) |-> p[k + (at + 4) - 1]]
      BY <1>2
    <3>2. (at + 7) - (at + 4) + 1 = 4 /\ \A k \in 1..4 : k + (at + 4) - 1 = (at + 4) + (k - 1)
      BY <1>2
    <3> QED
      BY <3>1, <3>2
  <2> QED
    BY <1>7, <2>1, <2>2
<1>10. rigidBody_mean_error(p, rb) = tag \o <<"error">>
  <2>1. p[at + 9 + 5 * n] = tag \o <<"error">>
    BY <1>2 DEF BodyAt
  <2>2. rigidBody_mean_error(p, rb) = p[(((at + 9) + 3 * n) + n) + n]
    BY <1>7, <1>8 DEF rigidBody_mean_error, skip_rigidMarkers_marker_sizes,
                      skip_rigidMarkers_marker_ids, skip_rigidMarkers_markers
  <2>3. (((at + 9) + 3 * n) + n) + n = at + 9 + 5 * n
    BY <1>2, <1>3
  <2> QED
    BY <2>1, <2>2, <2>3
<1>11. ASSUME NEW k \in 1..n
       PROVE  rigidMarker(p, rb, k - 1) = [m    |-> Cells3(tag \o <<"marker", k>>),
                                           id   |-> tag \o <<"marker", k, "id">>,
                                           size |-> tag \o <<"marker", k, "size">>]
  <2>1. /\ marker(p, at + 9, k - 1) = Cells3(tag \o <<"marker", k>>)
        /\ p[(at + 9 + 3 * n) + (k - 1)] = tag \o <<"marker", k, "id">>
        /\ p[(at + 9 + 4 * n) + (k - 1)] = tag \o <<"marker", k, "size">>
    BY <1>2 DEF BodyAt
  <2>2. rigidMarker_marker_id(p, rb, k - 1) = p[((at + 9) + 3 * n) + (k - 1)]
    BY <1>7, <1>8 DEF rigidMarker_marker_id, skip_rigidMarkers_markers
  <2>3. rigidMarker_marker_size(p, rb, k - 1) = p[(((at + 9) + 3 * n) + n) + (k - 1)]
    BY <1>7, <1>8 DEF rigidMarker_marker_size, skip_rigidMarkers_marker_ids,
                      skip_rigidMarkers_markers
  <2>4. (((at + 9) + 3 * n) + n) + (k - 1) = (at + 9 + 4 * n) + (k - 1)
    BY <1>2, <1>3
  <2>5. marker(p, rb.rigidMarkers, k - 1) = Cells3(tag \o <<"marker", k>>)
    BY <1>7, <2>1
  <2>6. rigidMarker_marker_id(p, rb, k - 1) = tag \o <<"marker", k, "id">>
    BY <2>1, <2>2
  <2>7. rigidMarker_marker_size(p, rb, k - 1) = tag \o <<"marker", k, "size">>
    BY <2>1, <2>3, <2>4
  <2> QED
    BY <2>5, <2>6, <2>7, Zenon DEF rigidMarker
<1>12. /\ b.rb.id = tag \o <<"id">>
       /\ b.rb.pos = Cells3(tag)
       /\ b.rb.q = [k \in 1..4 |-> tag \o <<"q", k>>]
       /\ b.rb.nRigidMarkers = n
       /\ b.meanError = tag \o <<"error">>
       /\ \A k \in 1..n :
             rigidMarker(p, b.rb, k - 1) =
                [m    |-> Cells3(tag \o <<"marker", k>>),
                 id   |-> tag \o <<"marker", k, "id">>,
                 size |-> tag \o <<"marker", k, "size">>]
  BY <1>6, <1>8, <1>9, <1>10, <1>11
<1> QED
  BY <1>12, Zenon DEF b, tag, n, BodyReads

\* The markers of the two lists that no handler is invoked for.
LEMMA OthersAndLabeledRead ==
  ASSUME NEW f \in Frames, NEW p, FrameAt(p, f)
  PROVE  /\ \A k \in 1..f.otherMarkers :
               otherMarker(p, Unpacked(f), k - 1) = Cells3(<<"other", k>>)
         /\ \A k \in 1..f.labeledMarkers :
               labeledMarker(p, Unpacked(f), k - 1) =
                  [id   |-> <<"labeled", k, "id">>,
                   m    |-> Cells3(<<"labeled", k>>),
                   size |-> <<"labeled", k, "size">>]
<1>1. ASSUME NEW k \in 1..f.otherMarkers
      PROVE  otherMarker(p, Unpacked(f), k - 1) = Cells3(<<"other", k>>)
  <2>1. Holds(p, AtOthers(f) + 1, FlattenSeq(Others(f))) /\ AtOthers(f) + 1 \in Nat
    BY Positions DEF FrameAt
  <2>2. marker(p, AtOthers(f) + 1, k - 1) = Cells3(<<"other", k>>)
    BY <2>1, OthersRead
  <2>3. Unpacked(f).otherMarkers = AtOthers(f) + 1
    BY DEF Unpacked
  <2> QED
    BY <2>2, <2>3 DEF otherMarker
<1>2. ASSUME NEW k \in 1..f.labeledMarkers
      PROVE  labeledMarker(p, Unpacked(f), k - 1) =
                [id   |-> <<"labeled", k, "id">>,
                 m    |-> Cells3(<<"labeled", k>>),
                 size |-> <<"labeled", k, "size">>]
  <2> DEFINE at == skip_labeledMarkers(p, AtLabeled(f) + 1, k - 1)
  <2>1. Holds(p, AtLabeled(f) + 1, FlattenSeq(Labeled(f))) /\ AtLabeled(f) + 1 \in Nat
    BY Positions DEF FrameAt
  <2>2. LabeledAt(p, at, k)
    BY <2>1, LabeledRead
  <2>3. Unpacked(f).labeledMarkers = AtLabeled(f) + 1
    BY DEF Unpacked
  <2>4. labeledMarker(p, Unpacked(f), k - 1)
           = [id |-> p[at], m |-> marker(p, at + 1, 0), size |-> p[at + 4]]
    BY <2>3, Zenon DEF labeledMarker
  <2> QED
    BY <2>2, <2>4, Zenon DEF LabeledAt
<1> QED
  BY <1>1, <1>2

-----------------------------------------------------------------------------
(* The handlers.                                                           *)

\* The first m of the calls there should be.
Told(m) == [k \in 1..m |-> Expected[k]]

NpInv ==
    /\ frame \in Frames
    /\ packet = Packet(frame) \/ packet[1] # MOCAP_DATA
    /\ pc \in {"unpack", "markerSets", "rigidBodies", "done"}
    /\ pc = "unpack" => calls = <<>> /\ i = 0
    /\ packet[1] # MOCAP_DATA => calls = <<>> /\ pc \in {"unpack", "done"}
    /\ pc \in {"markerSets", "rigidBodies"} => md = Unpacked(frame)
    /\ pc = "markerSets" => /\ i \in 0..Len(frame.markerSets)
                            /\ calls = Told(1 + i)
    /\ pc = "rigidBodies" => /\ i \in 0..Len(frame.rigidBodies)
                             /\ calls = Told(1 + Len(frame.markerSets) + i)
    /\ pc = "done" /\ packet[1] = MOCAP_DATA => calls = Expected

\* Three sequences in a row.
InARow(c1, c2, c3) ==
    /\ IsSeq((c1 \o c2) \o c3)
    /\ Len((c1 \o c2) \o c3) = Len(c1) + Len(c2) + Len(c3)
    /\ \A k \in 1..Len(c1) : ((c1 \o c2) \o c3)[k] = c1[k]
    /\ \A k \in 1..Len(c2) : ((c1 \o c2) \o c3)[Len(c1) + k] = c2[k]
    /\ \A k \in 1..Len(c3) : ((c1 \o c2) \o c3)[Len(c1) + Len(c2) + k] = c3[k]

\* Three sequences in a row, by two and two.
LEMMA CatThree ==
  ASSUME NEW c1, NEW c2, NEW c3, IsSeq(c1), IsSeq(c2), IsSeq(c3)
  PROVE  InARow(c1, c2, c3)
<1> DEFINE a2 == c1 \o c2
<1>1. /\ Len(c1) \in Nat /\ Len(c2) \in Nat
  BY SeqCells
<1>2. IsSeq(a2) /\ Len(a2) = Len(c1) + Len(c2)
  BY CatLen
<1>3. /\ Len(a2) = Len(c1) + Len(c2)
      /\ \A k \in 1..Len(c1) : a2[k] = c1[k]
      /\ \A k \in 1..Len(c2) : a2[Len(c1) + k] = c2[k]
  BY Cat
<1> HIDE DEF a2
<1>5. IsSeq(a2 \o c3) /\ Len(a2 \o c3) = Len(a2) + Len(c3)
  BY <1>2, CatLen
<1>6. /\ Len(a2 \o c3) = Len(a2) + Len(c3)
      /\ \A k \in 1..Len(a2) : (a2 \o c3)[k] = a2[k]
      /\ \A k \in 1..Len(c3) : (a2 \o c3)[Len(a2) + k] = c3[k]
  BY <1>2, Cat
<1>8. /\ \A k \in 1..Len(c1) : k \in 1..Len(a2)
      /\ \A k \in 1..Len(c2) : Len(c1) + k \in 1..Len(a2)
  BY <1>1, <1>2
<1>9. \A k \in 1..Len(c1) : (a2 \o c3)[k] = c1[k]
  BY <1>3, <1>6, <1>8
<1>10. \A k \in 1..Len(c2) : (a2 \o c3)[Len(c1) + k] = c2[k]
  BY <1>3, <1>6, <1>8, Zenon
<1>11. \A k \in 1..Len(c3) : (a2 \o c3)[Len(c1) + Len(c2) + k] = c3[k]
  BY <1>2, <1>6, Zenon
<1>12. Len(a2 \o c3) = Len(c1) + Len(c2) + Len(c3)
  BY <1>2, <1>5
<1> QED
  BY <1>5, <1>9, <1>10, <1>11, <1>12, Zenon DEF a2, InARow

\* The calls there should be, one by one.
LEMMA ExpectedCalls ==
  ASSUME frame \in Frames
  PROVE  LET s == Len(frame.markerSets)
             b == Len(frame.rigidBodies)
         IN  /\ s \in Nat /\ b \in Nat
             /\ IsSeq(Expected) /\ Len(Expected) = 1 + s + b
             /\ Expected[1] = <<"mocap_data", "frame_nr", "latency", "endOfData">>
             /\ \A j \in 1..s : Expected[1 + j] = SetCall(j)
             /\ \A j \in 1..b : Expected[(1 + s) + j] = BodyCall(j)
<1> DEFINE s == Len(frame.markerSets)
           b == Len(frame.rigidBodies)
           first == <<"mocap_data", "frame_nr", "latency", "endOfData">>
           c1 == <<first>>
           c2 == [j \in 1..s |-> SetCall(j)]
           c3 == [j \in 1..b |-> BodyCall(j)]
<1>1. s \in Nat /\ b \in Nat
  BY FrameCounts
<1>2. Expected = (c1 \o c2) \o c3
  BY Zenon DEF Expected
<1>3. c1[1] = first
  BY Zenon
<1>4. c2 = [j \in 1..s |-> c2[j]] /\ \A j \in 1..s : c2[j] = SetCall(j)
  BY Zenon
<1>5. c3 = [j \in 1..b |-> c3[j]] /\ \A j \in 1..b : c3[j] = BodyCall(j)
  BY Zenon
<1> HIDE DEF first
<1>6. IsSeq(c1) /\ Len(c1) = 1
  BY One
<1> HIDE DEF s, b, c1, c2, c3
<1>7. IsSeq(c2) /\ Len(c2) = s
  BY <1>1, <1>4, ArraySeq
<1>8. IsSeq(c3) /\ Len(c3) = b
  BY <1>1, <1>5, ArraySeq
<1>9. InARow(c1, c2, c3)
  BY <1>6, <1>7, <1>8, CatThree
<1>10. 1 \in 1..1
  OBVIOUS
<1>11. /\ IsSeq(Expected) /\ Len(Expected) = 1 + s + b
       /\ Expected[1] = first
       /\ \A j \in 1..s : Expected[1 + j] = SetCall(j)
       /\ \A j \in 1..b : Expected[(1 + s) + j] = BodyCall(j)
  <2>1. /\ IsSeq(Expected) /\ Len(Expected) = 1 + s + b
        /\ \A k \in 1..1 : Expected[k] = c1[k]
        /\ \A k \in 1..s : Expected[1 + k] = c2[k]
        /\ \A k \in 1..b : Expected[1 + s + k] = c3[k]
    BY <1>2, <1>6, <1>7, <1>8, <1>9, Zenon DEF InARow
  <2>2. Expected[1] = first
    BY <1>3, <1>10, <2>1, Zenon
  <2> QED
    BY <1>4, <1>5, <2>1, <2>2, Zenon
<1> QED
  BY <1>1, <1>11, Zenon DEF s, b, first

\* One more call.
LEMMA OneMore ==
  ASSUME NEW m \in Nat
  PROVE  Append(Told(m), Expected[m + 1]) = Told(m + 1)
<1> DEFINE t == Told(m)
           e == Expected[m + 1]
           S == {t[k] : k \in 1..m} \cup {e}
<1>1. t = [k \in 1..m |-> t[k]] /\ \A k \in 1..m : t[k] = Expected[k]
  BY Zenon DEF Told
<1> HIDE DEF t, e
<1>2. Len(t) = m
  BY <1>1, ArraySeq
<1>3. t \in Seq(S) /\ e \in S
  <2>1. t \in [1..m -> S]
    BY <1>1
  <2> QED
    BY <2>1, SeqDef
<1> HIDE DEF S
<1>4. /\ Append(t, e) \in Seq(S)
      /\ Len(Append(t, e)) = Len(t) + 1
      /\ \A k \in 1..Len(t) : Append(t, e)[k] = t[k]
      /\ Append(t, e)[Len(t) + 1] = e
  BY <1>3, AppendProperties
<1>5. Append(t, e) = [k \in 1..(m + 1) |-> Append(t, e)[k]]
  BY <1>2, <1>4, LenProperties
<1>6. ASSUME NEW k \in 1..(m + 1)
      PROVE  Append(t, e)[k] = Expected[k]
  <2>1. CASE k = m + 1
    BY <1>2, <1>4, <2>1 DEF e
  <2>2. CASE k # m + 1
    <3>1. k \in 1..m
      BY <2>2
    <3> QED
      BY <1>1, <1>2, <1>4, <3>1
  <2> QED
    BY <2>1, <2>2
<1>7. Append(t, e) = [k \in 1..(m + 1) |-> Expected[k]]
  BY <1>5, <1>6
<1> QED
  BY <1>7 DEF t, e, Told

\* np_conn_parse_packet begins with nothing told.
LEMMA InitNp == Init => NpInv
<1> SUFFICES ASSUME Init
             PROVE  NpInv
  OBVIOUS
<1>1. packet = Packet(frame) \/ packet[1] # MOCAP_DATA
  BY DEF Init, MOCAP_DATA
<1> QED
  BY <1>1 DEF Init, NpInv

\* The packet is unpacked and the mocap data handlers are told.
LEMMA UnpackStep == NpInv /\ Unpack => NpInv'
<1> SUFFICES ASSUME NpInv, Unpack
             PROVE  NpInv'
  OBVIOUS
<1>1. UNCHANGED <<frame, packet, i>> /\ i = 0 /\ calls = <<>> /\ frame \in Frames
  BY DEF Unpack, NpInv
<1>2. Told(1)' = Told(1) /\ Expected' = Expected
  BY <1>1 DEF Told, Expected, SetCall, BodyCall
<1>3. CASE packet[1] # MOCAP_DATA
  BY <1>1, <1>3 DEF Unpack, NpInv
<1>4. CASE packet[1] = MOCAP_DATA
  <2>1. packet = Packet(frame)
    BY <1>4 DEF NpInv
  <2>2. md' = Unpacked(frame)
    <3>1. FrameAt(packet, frame)
      BY <1>1, <2>1, PacketLayout
    <3> QED
      BY <1>1, <1>4, <3>1, Unpacking DEF Unpack
  <2>3. /\ pc' = "markerSets"
        /\ calls' = << <<"mocap_data", md'.frame_nr, md'.latency, md'.endOfData>> >>
    BY <1>4 DEF Unpack
  <2>4. calls' = << <<"mocap_data", "frame_nr", "latency", "endOfData">> >>
    BY <2>2, <2>3 DEF Unpacked
  <2>5. calls' = Told(1)
    <3>1. Expected[1] = <<"mocap_data", "frame_nr", "latency", "endOfData">>
      BY <1>1, ExpectedCalls
    <3> DEFINE e == Expected[1]
    <3>2. calls' = <<e>> /\ Told(1) = [k \in 1..1 |-> Expected[k]]
      BY <2>4, <3>1 DEF Told
    <3>3. Told(1) = [k \in 1..1 |-> e]
      BY <3>2
    <3> HIDE DEF e
    <3>4. <<e>> = [k \in 1..1 |-> e]
      OBVIOUS
    <3> QED
      BY <3>2, <3>3, <3>4
  <2>6. 0 \in 0..Len(frame.markerSets) /\ 1 + 0 = 1
    BY <1>1, FrameCounts
  <2>7. Unpacked(frame)' = Unpacked(frame) /\ Packet(frame)' = Packet(frame)
        /\ Told(1 + i)' = Told(1)
    BY <1>1, <1>2, <2>6
  <2> QED
    BY <1>1, <1>4, <2>1, <2>2, <2>3, <2>5, <2>6, <2>7 DEF NpInv
<1> QED
  BY <1>3, <1>4

\* The marker set handlers are told the next set.
LEMMA SetStep == NpInv /\ InvokeMarkerSetHandlers => NpInv'
<1> SUFFICES ASSUME NpInv, InvokeMarkerSetHandlers
             PROVE  NpInv'
  OBVIOUS
<1> DEFINE s == Len(frame.markerSets)
           ms == markerSet(packet, md, i)
<1>1. /\ UNCHANGED <<frame, packet, md, pc>> /\ pc = "markerSets" /\ i' = i + 1
      /\ i < md.nMarkerSets
      /\ calls' = Append(calls, <<"marker_set", ms.name,
                          Array(LAMBDA k : marker(packet, ms.markers, k), ms.nMarkers)>>)
  BY Zenon DEF InvokeMarkerSetHandlers
<1>2. /\ frame \in Frames /\ packet = Packet(frame) /\ md = Unpacked(frame)
      /\ i \in 0..s /\ calls = Told(1 + i)
  BY <1>1 DEF NpInv
<1>3. s \in Nat /\ md.nMarkerSets = s
  BY <1>2, FrameCounts DEF Unpacked
<1>4. i + 1 \in 1..s /\ (i + 1) - 1 = i /\ i \in Nat /\ 1 + i \in Nat
  BY <1>1, <1>2, <1>3
<1>5. FrameAt(packet, frame)
  BY <1>2, PacketLayout
<1>6. /\ ms.name = <<"set", i + 1, "name">>
      /\ ms.nMarkers = frame.markerSets[i + 1]
      /\ \A k \in 1..frame.markerSets[i + 1] :
            marker(packet, ms.markers, k - 1) = Cells3(<<"set", i + 1, k>>)
  <2>1. LET m == markerSet(packet, Unpacked(frame), (i + 1) - 1)
        IN  /\ m.name = <<"set", i + 1, "name">>
            /\ m.nMarkers = frame.markerSets[i + 1]
            /\ \A k \in 1..frame.markerSets[i + 1] :
                  marker(packet, m.markers, k - 1) = Cells3(<<"set", i + 1, k>>)
    <3> DEFINE j == i + 1
    <3>1. j \in 1..Len(frame.markerSets)
      BY <1>4
    <3> HIDE DEF j
    <3>2. LET m == markerSet(packet, Unpacked(frame), j - 1)
          IN  /\ m.name = <<"set", j, "name">>
              /\ m.nMarkers = frame.markerSets[j]
              /\ \A k \in 1..frame.markerSets[j] :
                    marker(packet, m.markers, k - 1) = Cells3(<<"set", j, k>>)
      BY <1>2, <1>5, <3>1, SetRead
    <3> QED
      BY <3>2 DEF j
  <2>2. markerSet(packet, Unpacked(frame), (i + 1) - 1) = ms
    BY <1>2, <1>4
  <2> HIDE DEF ms
  <2> QED
    BY <2>1, <2>2, Zenon
<1>7. Array(LAMBDA k : marker(packet, ms.markers, k), ms.nMarkers)
        = [k \in 1..frame.markerSets[i + 1] |-> Cells3(<<"set", i + 1, k>>)]
  <2>1. Array(LAMBDA k : marker(packet, ms.markers, k), ms.nMarkers)
          = [k \in 1..ms.nMarkers |-> marker(packet, ms.markers, k - 1)]
    BY Zenon DEF Array
  <2> HIDE DEF ms
  <2> QED
    BY <1>6, <2>1
<1>8. calls' = Append(calls, SetCall(i + 1))
  BY <1>1, <1>6, <1>7, Zenon DEF SetCall
<1>9. Expected[(1 + i) + 1] = SetCall(i + 1)
  <2>1. Expected[1 + (i + 1)] = SetCall(i + 1)
    BY <1>2, <1>4, ExpectedCalls
  <2>2. 1 + (i + 1) = (1 + i) + 1
    BY <1>4
  <2> QED
    BY <2>1, <2>2
<1>10. calls' = Told((1 + i) + 1)
  BY <1>2, <1>4, <1>8, <1>9, OneMore
<1>11. (1 + i) + 1 = 1 + (i + 1) /\ i' \in 0..s
  BY <1>1, <1>3, <1>4
<1>12. Told(1 + i)' = Told(1 + (i + 1))
  BY <1>1 DEF Told, Expected, SetCall, BodyCall
<1>13. Unpacked(frame)' = Unpacked(frame) /\ Packet(frame)' = Packet(frame)
  BY <1>1
<1>14. packet[1] = MOCAP_DATA
  BY <1>5 DEF FrameAt
<1> HIDE DEF ms
<1> QED
  BY <1>1, <1>2, <1>10, <1>11, <1>12, <1>13, <1>14 DEF NpInv

\* After the last marker set the bodies come.
LEMMA SetsDoneStep == NpInv /\ MarkerSetsDone => NpInv'
<1> SUFFICES ASSUME NpInv, MarkerSetsDone
             PROVE  NpInv'
  OBVIOUS
<1> DEFINE s == Len(frame.markerSets)
           b == Len(frame.rigidBodies)
<1>1. /\ UNCHANGED <<frame, packet, md, calls>> /\ pc = "markerSets" /\ i >= md.nMarkerSets
      /\ i' = 0 /\ pc' = "rigidBodies"
  BY DEF MarkerSetsDone
<1>2. /\ frame \in Frames /\ packet = Packet(frame) /\ md = Unpacked(frame)
      /\ i \in 0..s /\ calls = Told(1 + i) /\ packet[1] = MOCAP_DATA
  BY <1>1 DEF NpInv
<1>3. s \in Nat /\ b \in Nat /\ md.nMarkerSets = s
  BY <1>2, FrameCounts DEF Unpacked
<1>4. 0 \in 0..b /\ i = s /\ 1 + s + 0 = 1 + i
  BY <1>1, <1>2, <1>3
<1>5. Told(1 + Len(frame.markerSets) + i)' = Told(1 + s + 0)
  BY <1>1 DEF Told, Expected, SetCall, BodyCall
<1>6. Unpacked(frame)' = Unpacked(frame) /\ Packet(frame)' = Packet(frame)
  BY <1>1
<1> QED
  BY <1>1, <1>2, <1>4, <1>5, <1>6 DEF NpInv

\* The rigid body handlers are told the next body.
LEMMA BodyStep == NpInv /\ InvokeRigidBodyHandlers => NpInv'
<1> SUFFICES ASSUME NpInv, InvokeRigidBodyHandlers
             PROVE  NpInv'
  OBVIOUS
<1> DEFINE s == Len(frame.markerSets)
           n == Len(frame.rigidBodies)
           b == rigidBody(packet, md, i)
           j == i + 1
           c == frame.rigidBodies[j]
           tag == <<"body", j>>
<1>1. /\ UNCHANGED <<frame, packet, md, pc>> /\ pc = "rigidBodies" /\ i' = i + 1
      /\ i < md.nRigidBodies
      /\ calls' = Append(calls, <<"rigid_body", b.rb.id, b.rb.pos, b.rb.q, b.meanError,
                          Array(LAMBDA k : rigidMarker(packet, b.rb, k),
                                b.rb.nRigidMarkers)>>)
  BY Zenon DEF InvokeRigidBodyHandlers
<1>2. /\ frame \in Frames /\ packet = Packet(frame) /\ md = Unpacked(frame)
      /\ i \in 0..n /\ calls = Told(1 + s + i)
  BY <1>1 DEF NpInv
<1>3. s \in Nat /\ n \in Nat /\ md.nRigidBodies = n
  BY <1>2, FrameCounts DEF Unpacked
<1>4. j \in 1..n /\ j - 1 = i /\ i \in Nat /\ 1 + s + i \in Nat
  BY <1>1, <1>2, <1>3
<1>5. FrameAt(packet, frame)
  BY <1>2, PacketLayout
<1>6. /\ b.rb.id = tag \o <<"id">>
      /\ b.rb.pos = Cells3(tag)
      /\ b.rb.q = [k \in 1..4 |-> tag \o <<"q", k>>]
      /\ b.rb.nRigidMarkers = c
      /\ b.meanError = tag \o <<"error">>
      /\ \A k \in 1..c :
            rigidMarker(packet, b.rb, k - 1) =
               [m    |-> Cells3(tag \o <<"marker", k>>),
                id   |-> tag \o <<"marker", k, "id">>,
                size |-> tag \o <<"marker", k, "size">>]
  <2> DEFINE x == rigidBody(packet, Unpacked(frame), j - 1)
  <2>0. j \in 1..Len(frame.rigidBodies)
    BY <1>4
  <2>1. x = b
    BY <1>2, <1>4
  <2> HIDE DEF j
  <2>2. BodyReads(frame, packet, j)
    BY <1>2, <1>5, <2>0, BodyRead
  <2>3. /\ x.rb.id = tag \o <<"id">>
        /\ x.rb.pos = Cells3(tag)
        /\ x.rb.q = [k \in 1..4 |-> tag \o <<"q", k>>]
        /\ x.rb.nRigidMarkers = c
        /\ x.meanError = tag \o <<"error">>
        /\ \A k \in 1..c :
              rigidMarker(packet, x.rb, k - 1) =
                 [m    |-> Cells3(tag \o <<"marker", k>>),
                  id   |-> tag \o <<"marker", k, "id">>,
                  size |-> tag \o <<"marker", k, "size">>]
    BY <2>2, Zenon DEF BodyReads
  <2> HIDE DEF x, b, tag, c
  <2> QED
    BY <2>1, <2>3, Zenon
<1>7. Array(LAMBDA k : rigidMarker(packet, b.rb, k), b.rb.nRigidMarkers)
        = [k \in 1..c |->
             [m    |-> Cells3(tag \o <<"marker", k>>),
              id   |-> tag \o <<"marker", k, "id">>,
              size |-> tag \o <<"marker", k, "size">>]]
  <2>1. Array(LAMBDA k : rigidMarker(packet, b.rb, k), b.rb.nRigidMarkers)
          = [k \in 1..b.rb.nRigidMarkers |-> rigidMarker(packet, b.rb, k - 1)]
    BY Zenon DEF Array
  <2> HIDE DEF b, tag, c
  <2> QED
    BY <1>6, <2>1
<1>8. calls' = Append(calls, BodyCall(j))
  BY <1>1, <1>6, <1>7, Zenon DEF BodyCall
<1>9. Expected[(1 + s + i) + 1] = BodyCall(j)
  <2>1. Expected[(1 + s) + j] = BodyCall(j)
    <3> HIDE DEF j
    <3> QED
      BY <1>2, <1>4, ExpectedCalls
  <2>2. (1 + s) + j = (1 + s + i) + 1
    <3>1. s \in Nat /\ i \in Nat
      BY <1>3, <1>4
    <3> HIDE DEF s
    <3> QED
      BY <3>1
  <2> QED
    BY <2>1, <2>2
<1>10. calls' = Told((1 + s + i) + 1)
  BY <1>2, <1>4, <1>8, <1>9, OneMore
<1>11. (1 + s + i) + 1 = 1 + s + (i + 1) /\ i' \in 0..n
  <2>1. s \in Nat /\ n \in Nat /\ i \in Nat /\ i + 1 \in 1..n /\ i' = i + 1
    BY <1>1, <1>3, <1>4
  <2> HIDE DEF s, n
  <2> QED
    BY <2>1
<1>12. Told(1 + Len(frame.markerSets) + i)' = Told(1 + s + (i + 1))
  BY <1>1 DEF Told, Expected, SetCall, BodyCall
<1>13. Unpacked(frame)' = Unpacked(frame) /\ Packet(frame)' = Packet(frame)
  BY <1>1
<1>14. packet[1] = MOCAP_DATA
  BY <1>5 DEF FrameAt
<1> HIDE DEF b, tag, c
<1> QED
  BY <1>1, <1>2, <1>10, <1>11, <1>12, <1>13, <1>14 DEF NpInv

\* After the last body all is told.
LEMMA BodiesDoneStep == NpInv /\ RigidBodiesDone => NpInv'
<1> SUFFICES ASSUME NpInv, RigidBodiesDone
             PROVE  NpInv'
  OBVIOUS
<1> DEFINE s == Len(frame.markerSets)
           b == Len(frame.rigidBodies)
<1>1. /\ UNCHANGED <<frame, packet, md, i, calls>> /\ pc = "rigidBodies"
      /\ i >= md.nRigidBodies /\ pc' = "done"
  BY DEF RigidBodiesDone
<1>2. /\ frame \in Frames /\ packet = Packet(frame) /\ md = Unpacked(frame)
      /\ i \in 0..b /\ calls = Told(1 + s + i) /\ packet[1] = MOCAP_DATA
  BY <1>1 DEF NpInv
<1>3. s \in Nat /\ b \in Nat /\ md.nRigidBodies = b
  BY <1>2, FrameCounts DEF Unpacked
<1>4. i = b
  BY <1>1, <1>2, <1>3
<1>5. calls = Expected
  <2>1. IsSeq(Expected) /\ Len(Expected) = 1 + s + b
    BY <1>2, ExpectedCalls
  <2>2. Expected = [k \in 1..Len(Expected) |-> Expected[k]]
    BY <2>1, SeqCells
  <2>3. calls = Told(Len(Expected))
    BY <1>2, <1>4, <2>1
  <2> QED
    BY <2>2, <2>3 DEF Told
<1>6. Expected' = Expected
  BY <1>1 DEF Expected, SetCall, BodyCall
<1>7. Packet(frame)' = Packet(frame)
  BY <1>1
<1> QED
  BY <1>1, <1>2, <1>5, <1>6, <1>7 DEF NpInv

\* Every step of np_conn_parse_packet keeps NpInv.
LEMMA NpStep == NpInv /\ [Next]_vars => NpInv'
<1> SUFFICES ASSUME NpInv, [Next]_vars
             PROVE  NpInv'
  OBVIOUS
<1>1. CASE UNCHANGED vars
  <2>1. UNCHANGED <<frame, packet, md, pc, i, calls>>
    BY <1>1 DEF vars
  <2>2. /\ Expected' = Expected /\ Told(1 + i)' = Told(1 + i)
        /\ Told(1 + Len(frame.markerSets) + i)' = Told(1 + Len(frame.markerSets) + i)
    BY <2>1 DEF Told, Expected, SetCall, BodyCall
  <2>3. Unpacked(frame)' = Unpacked(frame) /\ Packet(frame)' = Packet(frame)
    BY <2>1
  <2> QED
    BY <2>1, <2>2, <2>3 DEF NpInv
<1>2. CASE Finished
  BY <1>1, <1>2 DEF Finished
<1> QED
  BY <1>1, <1>2, UnpackStep, SetStep, SetsDoneStep, BodyStep, BodiesDoneStep DEF Next

\* np_conn_parse_packet tells the handlers the next element, whatever is before it.
THEOREM NpInvariance == Spec => []NpInv
<1> QED
  BY InitNp, NpStep, PTL DEF Spec

\* What is told is the beginning of what should be told.
LEMMA ToldIsPrefix ==
  ASSUME frame \in Frames, NEW m \in 0..Len(Expected)
  PROVE  IsPrefix(Told(m), Expected)
<1>1. IsSeq(Expected) /\ Len(Expected) \in Nat /\ m \in Nat
  BY ExpectedCalls, SeqCells
<1> DEFINE t == Told(m)
           e == Expected
<1>2. t = [k \in 1..m |-> t[k]] /\ \A k \in 1..m : t[k] = e[k]
  BY Zenon DEF Told
<1> HIDE DEF t, e
<1>3. Len(t) = m
  BY <1>1, <1>2, ArraySeq
<1>4. m <= Len(e)
  BY <1>1 DEF e
<1>5. SubSeq(t, 1, m) = SubSeq(e, 1, m)
  <2>1. \A q : SubSeq(q, 1, m) = [k \in 1..m |-> q[k]]
    <3> TAKE q
    <3>1. SubSeq(q, 1, m) = [k \in 1..(m - 1 + 1) |-> q[k + 1 - 1]]
      BY <1>1
    <3>2. m - 1 + 1 = m /\ \A k \in 1..m : k + 1 - 1 = k
      BY <1>1
    <3> QED
      BY <3>1, <3>2
  <2> QED
    BY <1>2, <2>1
<1>6. IsPrefix(t, e)
  BY <1>3, <1>4, <1>5 DEF IsPrefix
<1> QED
  BY <1>6 DEF t, e

\* Handlers see the frame, element by element and nothing else, however many
\* lists of whatever lengths come before (np_conn_parse_packet, npoint_packet.c).
THEOREM HandlersSeeEveryFrame == Spec => []HandlersSeeFrame
<1>1. NpInv => HandlersSeeFrame
  <2> SUFFICES ASSUME NpInv
               PROVE  HandlersSeeFrame
    OBVIOUS
  <2> DEFINE s == Len(frame.markerSets)
             b == Len(frame.rigidBodies)
  <2>1. /\ frame \in Frames /\ s \in Nat /\ b \in Nat
        /\ IsSeq(Expected) /\ Len(Expected) = 1 + s + b
    BY ExpectedCalls DEF NpInv
  <2>2. \E m \in 0..Len(Expected) : calls = Told(m)
    <3> DEFINE e == Expected
    <3>0. Len(e) \in Nat /\ Len(e) = 1 + s + b /\ s \in Nat /\ b \in Nat
      <4>1. Len(e) = 1 + s + b /\ s \in Nat /\ b \in Nat
        BY <2>1, Zenon
      <4> HIDE DEF e, s, b
      <4> QED
        BY <4>1
    <3>1. CASE calls = <<>>
      <4>1. Told(0) = <<>>
        BY DEF Told
      <4>2. 0 \in 0..Len(e)
        <5>1. Len(e) \in Nat
          BY <3>0, Zenon
        <5> HIDE DEF e
        <5> QED
          BY <5>1
      <4> QED
        BY <3>1, <4>1, <4>2, Zenon
    <3>2. CASE pc = "markerSets"
      <4>1. calls = Told(1 + i) /\ i \in 0..s
        BY <3>2 DEF NpInv
      <4>2. 1 + i \in 0..Len(e)
        <5> HIDE DEF e, s, b
        <5> QED
          BY <3>0, <4>1
      <4> QED
        BY <4>1, <4>2, Zenon
    <3>3. CASE pc = "rigidBodies"
      <4>1. calls = Told(1 + s + i) /\ i \in 0..b
        BY <3>3 DEF NpInv
      <4>2. 1 + s + i \in 0..Len(e)
        <5> HIDE DEF e, s, b
        <5> QED
          BY <3>0, <4>1
      <4> QED
        BY <4>1, <4>2, Zenon
    <3>4. CASE calls = Expected
      <4>1. Expected = [k \in 1..Len(e) |-> Expected[k]]
        BY <2>1, SeqCells, Zenon
      <4>2. Expected = Told(Len(e))
        BY <4>1, Zenon DEF Told
      <4>3. Len(e) \in 0..Len(e)
        <5>1. Len(e) \in Nat
          BY <3>0, Zenon
        <5> HIDE DEF e
        <5> QED
          BY <5>1
      <4> QED
        BY <3>4, <4>2, <4>3, Zenon
    <3> QED
      BY <3>1, <3>2, <3>3, <3>4 DEF NpInv
  <2>3. IsPrefix(calls, Expected)
    BY <2>1, <2>2, ToldIsPrefix
  <2> QED
    BY <2>3 DEF NpInv, HandlersSeeFrame
<1> QED
  BY <1>1, NpInvariance, PTL

\* The lists that no handler is invoked for can be read, too, with the
\* skeletons in between (npoint_packet.c).
THEOREM AllListsReadable == Spec => []OtherListsReadable
<1>1. NpInv => OtherListsReadable
  <2> SUFFICES ASSUME NpInv, pc = "markerSets"
               PROVE  /\ Array(LAMBDA k : otherMarker(packet, md, k), md.nOtherMarkers)
                            = [k \in 1..frame.otherMarkers |-> Cells3(<<"other", k>>)]
                      /\ Array(LAMBDA k : labeledMarker(packet, md, k), md.nLabeledMarkers)
                            = [k \in 1..frame.labeledMarkers |->
                                 [id   |-> <<"labeled", k, "id">>,
                                  m    |-> Cells3(<<"labeled", k>>),
                                  size |-> <<"labeled", k, "size">>]]
    BY Zenon DEF OtherListsReadable
  <2>1. frame \in Frames /\ packet = Packet(frame) /\ md = Unpacked(frame)
    BY DEF NpInv
  <2>2. FrameAt(packet, frame)
    BY <2>1, PacketLayout
  <2>3. md.nOtherMarkers = frame.otherMarkers /\ md.nLabeledMarkers = frame.labeledMarkers
    BY <2>1 DEF Unpacked
  <2>4. /\ \A k \in 1..frame.otherMarkers :
              otherMarker(packet, md, k - 1) = Cells3(<<"other", k>>)
        /\ \A k \in 1..frame.labeledMarkers :
              labeledMarker(packet, md, k - 1) =
                 [id   |-> <<"labeled", k, "id">>,
                  m    |-> Cells3(<<"labeled", k>>),
                  size |-> <<"labeled", k, "size">>]
    BY <2>1, <2>2, OthersAndLabeledRead, Zenon
  <2>5. Array(LAMBDA k : otherMarker(packet, md, k), md.nOtherMarkers)
          = [k \in 1..md.nOtherMarkers |-> otherMarker(packet, md, k - 1)]
    BY Zenon DEF Array
  <2>6. Array(LAMBDA k : labeledMarker(packet, md, k), md.nLabeledMarkers)
          = [k \in 1..md.nLabeledMarkers |-> labeledMarker(packet, md, k - 1)]
    BY Zenon DEF Array
  <2>7. [k \in 1..md.nOtherMarkers |-> otherMarker(packet, md, k - 1)]
          = [k \in 1..frame.otherMarkers |-> Cells3(<<"other", k>>)]
    BY <2>3, <2>4
  <2>8. [k \in 1..md.nLabeledMarkers |-> labeledMarker(packet, md, k - 1)]
          = [k \in 1..frame.labeledMarkers |->
               [id   |-> <<"labeled", k, "id">>,
                m    |-> Cells3(<<"labeled", k>>),
                size |-> <<"labeled", k, "size">>]]
    BY <2>3, <2>4
  <2> QED
    BY <2>5, <2>6, <2>7, <2>8, Zenon
<1> QED
  BY <1>1, NpInvariance, PTL
=============================================================================
