----------------------------- MODULE MlConnProofs -----------------------------
(***************************************************************************)
(* The mutex of mavlink_conn.c keeps frames undivided, and the rx counter  *)
(* loses no byte, for any number of senders, lengths and counter width.    *)
(***************************************************************************)
EXTENDS MlConn, TLAPS

\* Unsigned arithmetic stays in its range, for differences too.
LEMMA ModRange ==
  ASSUME NEW x \in Int
  PROVE  x % Modulus \in 0..(Modulus - 1)
BY ConstantsAssumption

\* The counters of ml_conn_init are in their range.
LEMMA InitTypeOK == Init => TypeOK
<1>1. 0 \in 0..(Modulus - 1)
  BY ConstantsAssumption
<1> QED
  BY <1>1 DEF Init, TypeOK, Counter, Threads

\* Every step of every thread keeps the types: the counters wrap.
LEMMA TypeOKStep == TypeOK /\ [Next]_vars => TypeOK'
<1> SUFFICES ASSUME TypeOK, [Next]_vars
             PROVE  TypeOK'
  OBVIOUS
<1> USE ConstantsAssumption DEF TypeOK, Counter, Threads, Goes, SendPcs,
        ReportPcs, counters, ghosts
<1>1. ASSUME NEW s \in Senders, BeginSend(s)  PROVE TypeOK'
  <2>1. PICK n \in Lens : len' = [len EXCEPT ![s] = n]
    BY <1>1 DEF BeginSend
  <2>2. len' \in [Senders -> Nat]
    BY <2>1
  <2>3. frames' \in [Senders -> Nat]
    BY <1>1 DEF BeginSend
  <2> QED
    BY <1>1, <2>2, <2>3 DEF BeginSend
<1>2. ASSUME NEW s \in Senders, Lock(s)  PROVE TypeOK'
  BY <1>2 DEF Lock
<1>3. ASSUME NEW s \in Senders, SendHead(s)  PROVE TypeOK'
  <2>1. Piece(s, "head") \in Pieces
    BY DEF Piece, Pieces
  <2>2. wire' \in Seq(Pieces)
    <3>1. CASE UNCHANGED wire
      BY <3>1
    <3>2. CASE wire' = Append(wire, Piece(s, "head"))
      BY <2>1, <3>2
    <3> QED
      BY <1>3, <3>1, <3>2 DEF SendHead
  <2>3. len[s] \in Nat /\ handed' \in Nat
    BY <1>3 DEF SendHead
  <2>4. pc' \in [Threads -> {"idle"} \cup SendPcs \cup ReportPcs]
    BY <1>3 DEF SendHead
  <2> QED
    BY <1>3, <2>2, <2>3, <2>4 DEF SendHead
<1>4. ASSUME NEW s \in Senders, SendTail(s)  PROVE TypeOK'
  <2>1. PICK n \in 0..(len[s] - 1) :
           wire' = Append(wire, Piece(s, IF n = len[s] - 1 THEN "tail" ELSE "cut"))
    BY <1>4 DEF SendTail
  <2>2. n \in Nat
    BY <2>1
  <2>3. \A p \in {"tail", "cut"} :
           Piece(s, p) \in Pieces
    BY DEF Piece, Pieces
  <2>4. wire' \in Seq(Pieces)
    <3>1. Piece(s, IF n = len[s] - 1 THEN "tail" ELSE "cut") \in Pieces
      BY <2>3
    <3> QED
      BY <2>1, <3>1
  <2> QED
    BY <1>4, <2>4 DEF SendTail
<1>5. ASSUME NEW s \in Senders, Unlock(s)  PROVE TypeOK'
  BY <1>5 DEF Unlock
<1>6. ASSUME NEW s \in Senders, LoadTx(s)  PROVE TypeOK'
  BY <1>6 DEF LoadTx
<1>7. ASSUME NEW s \in Senders, StoreTx(s)  PROVE TypeOK'
  <2>1. (loaded[s] + len[s]) % Modulus \in 0..(Modulus - 1)
    OBVIOUS
  <2> QED
    BY <1>7, <2>1 DEF StoreTx
<1>8. CASE Receive
  <2>1. PICK n \in Lens : /\ rx' = [rx EXCEPT !.tcount = (@ + n) % Modulus]
                          /\ received' = received + n
    BY <1>8 DEF Receive
  <2>2. (rx.tcount + n) % Modulus \in 0..(Modulus - 1)
    OBVIOUS
  <2>3. rx' \in Counter
    BY <2>1, <2>2
  <2>4. n \in Nat
    OBVIOUS
  <2>5. received' \in Nat
    <3>1. received \in Nat /\ received' = received + n
      BY <2>1
    <3> HIDE <1>8, <2>1 DEF TypeOK
    <3> QED
      BY <2>4, <3>1
  <2> QED
    BY <1>8, <2>3, <2>5 DEF Receive
<1>9. ASSUME NEW t \in Threads, ReadRx(t)  PROVE TypeOK'
  BY <1>9 DEF ReadRx
<1>10. ASSUME NEW t \in Threads, StoreRx(t)  PROVE TypeOK'
  <2>1. (b - rx.lcount) % Modulus \in 0..(Modulus - 1)
    <3>1. b - rx.lcount \in Int
      OBVIOUS
    <3> HIDE DEF TypeOK
    <3> QED
      BY <3>1, ModRange
  <2>2. rx' \in Counter
    BY <1>10 DEF StoreRx
  <2>3. PICK d \in Nat : reported' = reported + d
    BY <1>10, <2>1 DEF StoreRx
  <2>4. reported' \in Nat
    BY <2>3
  <2> QED
    BY <1>10, <2>2, <2>4 DEF StoreRx
<1>11. ASSUME NEW t \in Threads, ReadTx(t)  PROVE TypeOK'
  BY <1>11 DEF ReadTx
<1>12. ASSUME NEW t \in Threads, StoreTxReport(t)  PROVE TypeOK'
  BY <1>12 DEF StoreTxReport
<1>13. CASE Finished \/ UNCHANGED vars
  BY <1>13 DEF Finished, vars
<1> QED
  BY <1>1, <1>2, <1>3, <1>4, <1>5, <1>6, <1>7, <1>8, <1>9, <1>10, <1>11, <1>12,
     <1>13 DEF Next, SendStep, Report

\* Only the owner of the mutex is inside mlc->send: it is taken before and
\* given back after, and nobody else gives it back.
LEMMA OwnerSendsStep ==
  TypeOK /\ OwnerSends /\ [Next]_vars => OwnerSends'
<1> SUFFICES ASSUME TypeOK, OwnerSends, [Next]_vars
             PROVE  OwnerSends'
  OBVIOUS
<1> USE ConstantsAssumption DEF TypeOK, OwnerSends, Threads, Goes, counters, ghosts
<1>1. ASSUME NEW s \in Senders, SendStep(s)  PROVE OwnerSends'
  <2>1. CASE BeginSend(s)
    BY <2>1 DEF BeginSend
  <2>2. CASE Lock(s)
    BY <2>2 DEF Lock
  <2>3. CASE SendHead(s)
    BY <2>3 DEF SendHead
  <2>4. CASE SendTail(s)
    BY <2>4 DEF SendTail
  <2>5. CASE Unlock(s)
    BY <2>5 DEF Unlock
  <2>6. CASE LoadTx(s) \/ StoreTx(s)
    BY <2>6 DEF LoadTx, StoreTx
  <2> QED
    BY <1>1, <2>1, <2>2, <2>3, <2>4, <2>5, <2>6 DEF SendStep
<1>2. CASE Receive
  BY <1>2 DEF Receive
<1>3. ASSUME NEW t \in Threads, Report(t)  PROVE OwnerSends'
  BY <1>3 DEF Report, ReadRx, StoreRx, ReadTx, StoreTxReport
<1>4. CASE Finished \/ UNCHANGED vars
  BY <1>4 DEF Finished, vars
<1> QED
  BY <1>1, <1>2, <1>3, <1>4 DEF Next

\* While a sender is inside a frame no other one touches the stream.
LEMMA OpenFrameStep ==
  TypeOK /\ OwnerSends /\ OpenFrame /\ [Next]_vars => OpenFrame'
<1> SUFFICES ASSUME TypeOK, OwnerSends, OpenFrame, [Next]_vars
             PROVE  OpenFrame'
  OBVIOUS
<1> USE ConstantsAssumption DEF TypeOK, OpenFrame, Threads, Goes, Piece,
        counters, ghosts
<1>1. ASSUME NEW s \in Senders, BeginSend(s)  PROVE OpenFrame'
  BY <1>1 DEF BeginSend
<1>2. ASSUME NEW s \in Senders, Lock(s) \/ Unlock(s) \/ LoadTx(s) \/ StoreTx(s)
      PROVE  OpenFrame'
  BY <1>2 DEF Lock, Unlock, LoadTx, StoreTx
<1>3. ASSUME NEW s \in Senders, SendHead(s)  PROVE OpenFrame'
  <2> SUFFICES ASSUME NEW r \in Senders, pc'[r] = "sending"
               PROVE  wire' # <<>> /\ wire'[Len(wire')] = Piece(r, "head")'
    BY DEF OpenFrame
  <2>1. r = s
    BY <1>3 DEF SendHead, OwnerSends
  <2>2. wire' = Append(wire, Piece(s, "head")) /\ frames' = frames
    BY <1>3, <2>1 DEF SendHead
  <2>3. Len(wire') = Len(wire) + 1 /\ wire'[Len(wire) + 1] = Piece(s, "head")
    BY <2>2
  <2>4. wire' # <<>>
    BY <2>3, <2>2
  <2> QED
    BY <2>1, <2>2, <2>3, <2>4
<1>4. ASSUME NEW s \in Senders, SendTail(s)  PROVE OpenFrame'
  <2>1. \A r \in Senders : pc'[r] # "sending"
    BY <1>4 DEF SendTail, OwnerSends
  <2> QED
    BY <2>1
<1>5. CASE Receive
  BY <1>5 DEF Receive
<1>6. ASSUME NEW t \in Threads, Report(t)  PROVE OpenFrame'
  BY <1>6 DEF Report, ReadRx, StoreRx, ReadTx, StoreTxReport
<1>7. CASE Finished \/ UNCHANGED vars
  BY <1>7 DEF Finished, vars
<1> QED
  BY <1>1, <1>2, <1>3, <1>4, <1>5, <1>6, <1>7 DEF Next, SendStep

\* A piece is appended after nothing but the head it belongs to.
LEMMA FramesContiguousStep ==
  TypeOK /\ OpenFrame /\ FramesContiguous /\ [Next]_vars => FramesContiguous'
<1> SUFFICES ASSUME TypeOK, OpenFrame, FramesContiguous, [Next]_vars
             PROVE  FramesContiguous'
  OBVIOUS
<1> USE DEF TypeOK, FramesContiguous, Goes, Piece, counters, ghosts
<1>1. ASSUME NEW s \in Senders, SendHead(s)  PROVE FramesContiguous'
  <2>1. CASE UNCHANGED wire
    BY <2>1
  <2>2. CASE wire' = Append(wire, Piece(s, "head"))
    <3>1. Piece(s, "head").part = "head"
      OBVIOUS
    <3>2. PICK x : x = Piece(s, "head")
      OBVIOUS
    <3>3. wire' = Append(wire, x) /\ x.part = "head"
      BY <2>2, <3>1, <3>2
    <3> HIDE DEF Piece
    <3>4. \A i \in 1..Len(wire) : wire'[i] = wire[i]
      BY <3>3
    <3>5. Len(wire') = Len(wire) + 1 /\ wire'[Len(wire) + 1] = x
      BY <3>3
    <3> SUFFICES ASSUME NEW i \in 1..(Len(wire) + 1), wire'[i].part # "head"
                 PROVE  i > 1 /\ wire'[i - 1] = [wire'[i] EXCEPT !.part = "head"]
      BY <3>5 DEF FramesContiguous
    <3>6. i \in 1..Len(wire) /\ wire[i].part # "head"
      BY <3>3, <3>4, <3>5
    <3>7. i > 1 /\ wire[i - 1] = [wire[i] EXCEPT !.part = "head"]
      BY <3>6
    <3>8. i - 1 \in 1..Len(wire)
      BY <3>6, <3>7
    <3> QED
      BY <3>4, <3>6, <3>7, <3>8
  <2> QED
    BY <1>1, <2>1, <2>2 DEF SendHead
<1>2. ASSUME NEW s \in Senders, SendTail(s)  PROVE FramesContiguous'
  <2>1. PICK p \in {"tail", "cut"} : wire' = Append(wire, Piece(s, p))
    BY <1>2 DEF SendTail
  <2>2. wire # <<>> /\ wire[Len(wire)] = Piece(s, "head")
    BY <1>2 DEF SendTail, OpenFrame
  <2>3. Len(wire) > 0
    BY <2>2
  <2>4. /\ Len(wire') = Len(wire) + 1
        /\ wire'[Len(wire) + 1] = Piece(s, p)
        /\ \A i \in 1..Len(wire) : wire'[i] = wire[i]
    BY <2>1
  <2>5. wire'[Len(wire)] = [wire'[Len(wire) + 1] EXCEPT !.part = "head"]
    <3>1. [Piece(s, p) EXCEPT !.part = "head"] = Piece(s, "head")
      OBVIOUS
    <3>2. wire'[Len(wire)] = Piece(s, "head")
      <4>1. Len(wire) \in 1..Len(wire)
        BY <2>3
      <4> HIDE DEF TypeOK, Piece, FramesContiguous
      <4> QED
        BY <2>2, <2>4, <4>1
    <3> HIDE DEF TypeOK, Piece, FramesContiguous
    <3> QED
      BY <2>4, <3>1, <3>2
  <2> SUFFICES ASSUME NEW i \in DOMAIN wire', wire'[i].part # "head"
               PROVE  i > 1 /\ wire'[i - 1] = [wire'[i] EXCEPT !.part = "head"]
    BY DEF FramesContiguous
  <2>6. CASE i = Len(wire) + 1
    BY <2>3, <2>5, <2>6
  <2>7. CASE i \in 1..Len(wire)
    <3>1. i > 1 /\ wire[i - 1] = [wire[i] EXCEPT !.part = "head"]
      BY <2>4, <2>7
    <3>2. i - 1 \in 1..Len(wire)
      BY <2>7, <3>1
    <3> QED
      BY <2>4, <2>7, <3>1, <3>2
  <2> QED
    BY <2>4, <2>6, <2>7, DOMAIN wire' = 1..Len(wire')
<1>3. CASE UNCHANGED wire
  BY <1>3
<1> QED
  BY <1>1, <1>2, <1>3 DEF Next, SendStep, Report, BeginSend, Lock, Unlock, LoadTx,
     StoreTx, Receive, ReadRx, StoreRx, ReadTx, StoreTxReport, Finished, vars

\* What keeps frames undivided is an invariant.
THEOREM WireInvariance == Spec => []WireInv
<1>1. Init => WireInv
  <2>1. Init => OwnerSends /\ OpenFrame /\ FramesContiguous
    BY DEF Init, OwnerSends, OpenFrame, FramesContiguous, Threads
  <2> QED
    BY <2>1, InitTypeOK DEF WireInv
<1>2. WireInv /\ [Next]_vars => WireInv'
  BY TypeOKStep, OwnerSendsStep, OpenFrameStep, FramesContiguousStep DEF WireInv
<1> QED
  BY <1>1, <1>2, PTL DEF Spec

\* A frame reaches the MAV undivided, whatever the other senders do.
THEOREM FramesUndivided == Spec => []FramesContiguous
<1>1. WireInv => FramesContiguous
  BY DEF WireInv
<1> QED
  BY <1>1, WireInvariance, PTL
-----------------------------------------------------------------------------
(* The rx counter.                                                         *)

\* Unsigned arithmetic on a sum and on a difference of two counters.
LEMMA ModSum ==
  ASSUME NEW x \in Nat, x < 2 * Modulus
  PROVE  x % Modulus = IF x < Modulus THEN x ELSE x - Modulus
<1>1. Modulus \in Nat /\ Modulus > 0
  BY ConstantsAssumption
<1>2. \A y \in Nat : y < Modulus => y % Modulus = y
  BY <1>1
<1>3. \A y \in Nat : y < Modulus => (y + Modulus) % Modulus = y
  BY <1>1
<1> QED
  BY <1>1, <1>2, <1>3

\* A difference of counter values, wrapped.
LEMMA ModDifference ==
  ASSUME NEW x \in 0..(Modulus - 1), NEW y \in 0..(Modulus - 1)
  PROVE  (x - y) % Modulus = IF x >= y THEN x - y ELSE x - y + Modulus
<1>1. Modulus \in Nat /\ Modulus > 0
  BY ConstantsAssumption
<1> QED
  BY <1>1

\* A counter moved on by less than Modulus is that much further on.
LEMMA ModMovedOn ==
  ASSUME NEW x \in 0..(Modulus - 1), NEW y \in 0..(Modulus - 1), NEW n \in Nat,
         ((x - y) % Modulus) + n < Modulus
  PROVE  (((x + n) % Modulus) - y) % Modulus = ((x - y) % Modulus) + n
<1>1. Modulus \in Nat /\ Modulus > 0
  BY ConstantsAssumption
<1>2. (x - y) % Modulus = IF x >= y THEN x - y ELSE x - y + Modulus
  BY ModDifference
<1>3. n < Modulus /\ x + n \in Nat /\ x + n < 2 * Modulus
  BY <1>1, <1>2
<1>4. (x + n) % Modulus = IF x + n < Modulus THEN x + n ELSE x + n - Modulus
  <2>1. PICK w \in Nat : w = x + n
    BY <1>3
  <2>2. w % Modulus = IF w < Modulus THEN w ELSE w - Modulus
    BY <1>3, <2>1, ModSum
  <2> QED
    BY <1>1, <2>1, <2>2
<1>5. PICK z \in 0..(Modulus - 1) : z = (x + n) % Modulus
  BY <1>1, <1>3, <1>4
<1>6. (z - y) % Modulus = IF z >= y THEN z - y ELSE z - y + Modulus
  BY ModDifference
<1> QED
  BY <1>1, <1>2, <1>3, <1>4, <1>5, <1>6

\* The copy the reporter took divides what came in into what it reports and
\* what the next report will.
LEMMA ModSplit ==
  ASSUME NEW x \in 0..(Modulus - 1), NEW y \in 0..(Modulus - 1),
         NEW z \in 0..(Modulus - 1),
         NEW d \in Int, d = (z - y) % Modulus,
         NEW e \in Int, e = (x - y) % Modulus,
         d <= e
  PROVE  d + ((x - z) % Modulus) = e
<1>1. Modulus \in Nat /\ Modulus > 0
  BY ConstantsAssumption
<1>2. /\ (x - y) % Modulus = IF x >= y THEN x - y ELSE x - y + Modulus
      /\ (z - y) % Modulus = IF z >= y THEN z - y ELSE z - y + Modulus
      /\ (x - z) % Modulus = IF x >= z THEN x - z ELSE x - z + Modulus
  BY ModDifference
<1> QED
  BY <1>1, <1>2

\* Only the reporter is inside a report, and its copy is not ahead of what
\* came in.
ReportUnderWay ==
    \A t \in Threads :
       pc[t] \in ReportPcs =>
          /\ t \in Reporters
          /\ pc[t] = "rx_store" =>
                reported + ((b - rx.lcount) % Modulus) <= received

\* What the reports rest on: less than Modulus comes in between two of them.
RxInv == /\ TypeOK
         /\ ReceivedIsReported
         /\ received - reported < Modulus
         /\ ReportUnderWay

\* The counters start equal, at nothing received.
LEMMA InitRxInv == Init => RxInv
<1> SUFFICES ASSUME Init
             PROVE  RxInv
  OBVIOUS
<1>1. Modulus \in Nat /\ Modulus > 0
  BY ConstantsAssumption
<1>2. (0 - 0) % Modulus = 0
  BY <1>1
<1>3. ReceivedIsReported
  BY <1>2 DEF Init, ReceivedIsReported
<1>4. ReportUnderWay
  BY DEF Init, ReportUnderWay, ReportPcs
<1> QED
  BY <1>1, <1>3, <1>4, InitTypeOK DEF Init, RxInv

\* Receiving moves tcount on, whatever the reporter holds.
LEMMA ReceiveRxInv == RxInv /\ Receive => RxInv'
<1> SUFFICES ASSUME RxInv, Receive
             PROVE  RxInv'
  OBVIOUS
<1>1. PICK n \in Lens : /\ received + n - reported < Modulus
                        /\ rx' = [rx EXCEPT !.tcount = (@ + n) % Modulus]
                        /\ received' = received + n
  BY DEF Receive
<1>2. UNCHANGED <<pc, b, reported>>
  BY DEF Receive
<1>3. /\ n \in Nat /\ received \in Nat /\ reported \in Nat
      /\ rx.tcount \in 0..(Modulus - 1) /\ rx.lcount \in 0..(Modulus - 1)
  BY ConstantsAssumption DEF RxInv, TypeOK, Counter
<1>4. /\ rx'.tcount = (rx.tcount + n) % Modulus
      /\ rx'.lcount = rx.lcount
  BY <1>1 DEF RxInv, TypeOK, Counter
<1>5. PICK e \in Int : e = (rx.tcount - rx.lcount) % Modulus
  BY <1>3, ModRange
<1>6. reported + e = received
  BY <1>5 DEF RxInv, ReceivedIsReported
<1>7. e + n < Modulus
  BY <1>1, <1>3, <1>6, ConstantsAssumption
<1>8. (rx'.tcount - rx'.lcount) % Modulus = e + n
  BY <1>3, <1>4, <1>5, <1>7, ModMovedOn
<1>9. ReceivedIsReported'
  BY <1>1, <1>2, <1>3, <1>6, <1>8 DEF ReceivedIsReported
<1>10. ReportUnderWay'
  <2> SUFFICES ASSUME NEW t \in Threads, pc[t] = "rx_store"
               PROVE  reported + ((b - rx.lcount) % Modulus) <= received + n
    BY <1>1, <1>2, <1>4 DEF ReportUnderWay, RxInv
  <2>1. reported + ((b - rx.lcount) % Modulus) <= received
    BY DEF ReportUnderWay, RxInv, ReportPcs
  <2>2. PICK c \in Int : c = b - rx.lcount
    BY <1>3, ConstantsAssumption DEF RxInv, TypeOK
  <2>3. c % Modulus \in Int
    BY <2>2, ModRange
  <2> QED
    BY <1>3, <2>1, <2>2, <2>3
<1>11. TypeOK'
  BY TypeOKStep DEF Next, RxInv
<1>12. received' - reported' < Modulus
  BY <1>1, <1>2, <1>3, ConstantsAssumption
<1> QED
  BY <1>9, <1>10, <1>11, <1>12 DEF RxInv

\* A report takes its copy first and leaves the rest to the next one: what is
\* received in between is in neither's way.
LEMMA ReportRxInv ==
  ASSUME NEW t \in Threads
  PROVE  RxInv /\ Report(t) => RxInv'
<1> SUFFICES ASSUME RxInv, Report(t)
             PROVE  RxInv'
  OBVIOUS
<1>1. /\ received \in Nat /\ reported \in Nat /\ b \in 0..(Modulus - 1)
      /\ rx.tcount \in 0..(Modulus - 1) /\ rx.lcount \in 0..(Modulus - 1)
      /\ pc \in [Threads -> {"idle"} \cup SendPcs \cup ReportPcs]
  BY DEF RxInv, TypeOK, Counter
<1>2. TypeOK'
  BY TypeOKStep DEF Next, RxInv
<1>3. Modulus \in Nat /\ Modulus > 0
  BY ConstantsAssumption
<1>4. PICK e \in Int : e = (rx.tcount - rx.lcount) % Modulus
  BY <1>1, ModRange
<1>5. reported + e = received /\ received - reported < Modulus
  BY <1>4 DEF RxInv, ReceivedIsReported
<1>6. CASE ReadRx(t)
  <2>1. /\ b' = rx.tcount /\ UNCHANGED <<rx, received, reported>>
        /\ pc' = [pc EXCEPT ![t] = "rx_store"] /\ t \in Reporters
    BY <1>6 DEF ReadRx, Goes, counters, ghosts
  <2>2. reported' + ((b' - rx'.lcount) % Modulus) <= received'
    BY <1>1, <1>4, <1>5, <2>1
  <2>3. ReportUnderWay'
    BY <1>1, <2>1, <2>2 DEF ReportUnderWay, RxInv
  <2> QED
    BY <1>2, <2>1, <2>3 DEF RxInv, ReceivedIsReported
<1>7. CASE StoreRx(t)
  <2>1. PICK d \in Int : d = (b - rx.lcount) % Modulus
    BY <1>1, ModRange
  <2>2. /\ rx' = [rx EXCEPT !.lcount = b] /\ reported' = reported + d
        /\ UNCHANGED <<b, received>>
        /\ pc[t] = "rx_store" /\ pc' = [pc EXCEPT ![t] = "tx_read"]
    BY <1>7, <2>1 DEF StoreRx, Goes
  <2>3. t \in Reporters /\ reported + d <= received
    BY <2>1, <2>2 DEF RxInv, ReportUnderWay, ReportPcs
  <2>4. 0 <= d /\ d <= e
    BY <1>1, <1>3, <1>5, <2>1, <2>3, ModRange
  <2>5. d + ((rx.tcount - b) % Modulus) = e
    BY <1>1, <1>4, <2>1, <2>4, ModSplit, Zenon
  <2>6. rx'.tcount = rx.tcount /\ rx'.lcount = b
    BY <2>2 DEF RxInv, TypeOK, Counter
  <2>7. PICK f \in Int : f = (rx.tcount - b) % Modulus
    BY <1>1, ModRange
  <2>8. ReceivedIsReported'
    BY <1>1, <1>5, <2>2, <2>5, <2>6, <2>7 DEF ReceivedIsReported
  <2>9. received' - reported' < Modulus
    BY <1>1, <1>3, <1>5, <2>2, <2>4
  <2>10. ReportUnderWay'
    <3> SUFFICES ASSUME NEW u \in Threads, pc'[u] \in ReportPcs
                 PROVE  u = t
      BY <1>1, <2>2, <2>3 DEF ReportUnderWay
    <3>1. u # t => pc'[u] = pc[u]
      BY <1>1, <2>2
    <3>2. u # t => u \in Reporters
      BY <3>1 DEF RxInv, ReportUnderWay
    <3> QED
      BY <2>3, <3>2, ConstantsAssumption
  <2> QED
    BY <1>2, <2>8, <2>9, <2>10 DEF RxInv
<1>8. CASE ReadTx(t) \/ StoreTxReport(t)
  <2>1. /\ UNCHANGED <<rx, received, reported>>
        /\ pc[t] \in ReportPcs /\ pc'[t] \notin {"rx_store"}
        /\ pc' = [pc EXCEPT ![t] = pc'[t]]
    BY <1>1, <1>8 DEF ReadTx, StoreTxReport, Goes, ReportPcs, counters, ghosts
  <2>2. t \in Reporters
    BY <2>1 DEF RxInv, ReportUnderWay
  <2>3. \A u \in Threads : u # t => pc[u] \notin ReportPcs
    BY <2>2, ConstantsAssumption DEF RxInv, ReportUnderWay
  <2>4. ReportUnderWay'
    <3> SUFFICES ASSUME NEW u \in Threads, pc'[u] \in ReportPcs
                 PROVE  u \in Reporters /\ pc'[u] # "rx_store"
      BY DEF ReportUnderWay
    <3> QED
      BY <1>1, <2>1, <2>2, <2>3
  <2> QED
    BY <1>2, <2>1, <2>4 DEF RxInv, ReceivedIsReported
<1> QED
  BY <1>6, <1>7, <1>8 DEF Report

\* The senders leave the rx counter alone.
LEMMA SendRxInv ==
  ASSUME NEW s \in Senders
  PROVE  RxInv /\ SendStep(s) => RxInv'
<1> SUFFICES ASSUME RxInv, SendStep(s)
             PROVE  RxInv'
  OBVIOUS
<1>1. /\ UNCHANGED <<rx, b, received, reported>>
      /\ pc'[s] \notin ReportPcs
      /\ \A u \in Threads : u # s => pc'[u] = pc[u]
  BY DEF RxInv, TypeOK, Threads, SendStep, BeginSend, Lock, SendHead, SendTail,
         Unlock, LoadTx, StoreTx, Goes, ReportPcs, counters, ghosts
<1>2. ReportUnderWay'
  <2> SUFFICES ASSUME NEW u \in Threads, pc'[u] \in ReportPcs
               PROVE  pc'[u] = pc[u]
    BY <1>1 DEF RxInv, ReportUnderWay
  <2> QED
    BY <1>1
<1>3. TypeOK'
  BY TypeOKStep DEF Next, RxInv
<1> QED
  BY <1>1, <1>2, <1>3 DEF RxInv, ReceivedIsReported

\* What the reports rest on is an invariant.
THEOREM RxInvariance == Spec => []RxInv
<1>1. RxInv /\ [Next]_vars => RxInv'
  <2> SUFFICES ASSUME RxInv, [Next]_vars
               PROVE  RxInv'
    OBVIOUS
  <2>1. CASE Finished \/ UNCHANGED vars
    BY <2>1 DEF Finished, vars, counters, ghosts, RxInv, TypeOK,
       ReceivedIsReported, ReportUnderWay, NoSendUnderWay
  <2> QED
    BY <2>1, ReceiveRxInv, ReportRxInv, SendRxInv DEF Next
<1> QED
  BY <1>1, InitRxInv, PTL DEF Spec

\* No received byte is left out of the reports and none is reported twice, for
\* any counter width: the receiver adds to the counter without a lock while
\* the reporter reads it, and it wraps.
THEOREM ReceivedAreReported == Spec => []ReceivedIsReported
<1>1. RxInv => ReceivedIsReported
  BY DEF RxInv
<1> QED
  BY <1>1, RxInvariance, PTL
=============================================================================
