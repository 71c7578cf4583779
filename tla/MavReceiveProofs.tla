---------------------------- MODULE MavReceiveProofs ----------------------------
(***************************************************************************)
(* Whatever bytes arrive, and whatever the checksum is: the parser stays   *)
(* inside its buffer and hands out only whole frames, as it has received   *)
(* them, and all of those of a settled line; and that is what the handlers *)
(* of the receiver act on, every one and in turn.                          *)
(***************************************************************************)
EXTENDS MavReceive, SequenceTheorems, Recursion

-----------------------------------------------------------------------------
(* Lists of handlers.                                                      *)

\* The list invariant holds initially and every operation keeps it.
THEOREM ListInvariance == Spec => []ListInv
<1> USE ConstantsAssumption DEF ListInv, TypeOK, NoDuplicates, NoGaps, Index
<1>1. Init => ListInv
  BY DEF Init
<1>2. ListInv /\ [Next]_vars => ListInv'
  <2> SUFFICES ASSUME ListInv, [Next]_vars
               PROVE  ListInv'
    OBVIOUS
  <2>1. ASSUME NEW f \in Funcs, Add(f)  PROVE ListInv'
    <3>1. CASE UNCHANGED handler
      BY <2>1, <3>1 DEF Add
    <3>2. ASSUME NEW i \in Index, IsFirst(i, StopsAt(f)),
                 handler' = [handler EXCEPT ![i] = f]
          PROVE  ListInv'
      <4>1. handler[i] \in {f, NULL} /\ \A j \in Index : j < i => handler[j] \notin {f, NULL}
        BY <3>2 DEF IsFirst, StopsAt
      <4>2. TypeOK'
        BY <2>1, <3>2 DEF Add
      <4>3. ASSUME ~AnyOrder  PROVE NoDuplicates'
        <5>1. \A j \in Index \ {i} : handler[j] # f
          <6>1. CASE handler[i] = f
            BY <4>3, <6>1
          <6>2. CASE handler[i] = NULL
            BY <4>1, <4>3, <6>2
          <6> QED
            BY <4>1, <6>1, <6>2
        <5> QED
          BY <3>2, <4>3, <5>1
      <4>4. ASSUME ~AnyOrder  PROVE NoGaps'
        BY <3>2, <4>1, <4>4
      <4> QED
        BY <4>2, <4>3, <4>4
    <3> QED
      BY <2>1, <3>1, <3>2 DEF Add
  <2>2. CASE Clear
    BY <2>2 DEF Clear
  <2>3. ASSUME NEW f \in Funcs, Removable(f), Remove(f)  PROVE ListInv'
    <3>1. CASE UNCHANGED handler
      BY <2>3, <3>1 DEF Remove
    <3>2. ASSUME NEW i \in Index, handler[i] = f,
                 handler' = [handler EXCEPT ![i] = NULL]
          PROVE  ListInv'
      <4>1. TypeOK'
        BY <2>3, <3>2 DEF Remove
      <4>2. ASSUME ~AnyOrder  PROVE NoDuplicates'
        BY <3>2, <4>2
      <4>3. ASSUME ~AnyOrder  PROVE NoGaps'
        <5>1. \A j \in Index : i < j => handler[j] = NULL
          BY <2>3, <3>2, <4>3 DEF Removable
        <5> QED
          BY <3>2, <4>3, <5>1
      <4> QED
        BY <4>1, <4>2, <4>3
    <3> QED
      BY <2>3, <3>1, <3>2 DEF Remove, IsFirst
  <2>4. CASE StartInvoke
    BY <2>4 DEF StartInvoke
  <2>5. CASE InvokeSlot
    BY <2>5 DEF InvokeSlot
  <2>6. CASE UNCHANGED vars
    BY <2>6 DEF vars
  <2> QED
    BY <2>1, <2>2, <2>3, <2>4, <2>5, <2>6 DEF Next
<1> QED
  BY <1>1, <1>2, PTL DEF Spec

\* "don't add a function to list twice": a program that removes no handler
\* but the last one never has one twice.
THEOREM AddedOnce == Spec => [](~AnyOrder => NoDuplicates)
<1>1. ListInv => (~AnyOrder => NoDuplicates)
  BY DEF ListInv
<1> QED
  BY <1>1, ListInvariance, PTL

\* Of the slots h, the first n are in use.
Filled(h, n) == /\ h \in [Index -> Funcs \cup {NULL}]
                /\ \A i \in Index : h[i] # NULL <=> i <= n

\* A list whose functions are added, and removed from its end.
FilledInv == TypeOK /\ NoDuplicates /\ \E n \in 0..Slots : Filled(handler, n)

\* The functions in the slots h from lo on.
From(h, lo) == LET taken == {k \in 1..(Slots - lo + 1) : h[lo + k - 1] # NULL}
               IN  [k \in taken |-> h[lo + k - 1]]

\* The handlers from slot lo on, as the sequence they are.
LEMMA UsedSlots ==
    ASSUME NEW n \in 0..Slots, NEW h, Filled(h, n), NEW lo \in 1..(Slots + 1)
    PROVE  /\ From(h, lo) \in Seq(Funcs)
           /\ Len(From(h, lo)) = IF lo <= n THEN n - lo + 1 ELSE 0
           /\ \A k \in 1..(n - lo + 1) : From(h, lo)[k] = h[lo + k - 1]
<1>1. Slots \in Nat /\ Index = 1..Slots
  BY ConstantsAssumption DEF Index
<1> DEFINE m == IF lo <= n THEN n - lo + 1 ELSE 0
           taken == {k \in 1..(Slots - lo + 1) : h[lo + k - 1] # NULL}
<1>2. m \in Nat
  BY <1>1
<1>3. taken = 1..m
  <2>1. ASSUME NEW k \in 1..(Slots - lo + 1)
        PROVE  h[lo + k - 1] # NULL <=> k <= m
    BY <1>1 DEF Filled
  <2>2. \A k \in 1..m : k \in 1..(Slots - lo + 1)
    BY <1>1
  <2>3. \A k \in 1..(Slots - lo + 1) : k <= m => k \in 1..m
    BY <1>2, <1>1
  <2>4. \A k \in 1..m : k <= m
    BY <1>2
  <2> HIDE DEF m
  <2> QED
    BY <2>1, <2>2, <2>3, <2>4
<1>4. From(h, lo) = [k \in 1..m |-> h[lo + k - 1]]
  BY <1>3 DEF From
<1>5. \A k \in 1..m : h[lo + k - 1] \in Funcs
  <2> SUFFICES ASSUME NEW k \in 1..m
               PROVE  h[lo + k - 1] \in Funcs
    OBVIOUS
  <2>1. lo + k - 1 \in Index /\ lo + k - 1 <= n
    BY <1>1
  <2> QED
    BY <2>1 DEF Filled
<1>6. \A k \in 1..(n - lo + 1) : k \in 1..m
  BY <1>1
<1> HIDE DEF m
<1>7. From(h, lo) \in Seq(Funcs) /\ Len(From(h, lo)) = m
  BY <1>2, <1>4, <1>5
<1> QED
  BY <1>4, <1>6, <1>7 DEF m

\* All of the list.
LEMMA UsedAll ==
    ASSUME NEW n \in 0..Slots, NEW h, Filled(h, n)
    PROVE  /\ From(h, 1) \in Seq(Funcs) /\ Len(From(h, 1)) = n
           /\ \A k \in 1..n : From(h, 1)[k] = h[k]
<1>1. Slots \in Nat /\ 1 \in 1..(Slots + 1)
  BY ConstantsAssumption
<1>2. /\ From(h, 1) \in Seq(Funcs)
      /\ Len(From(h, 1)) = IF 1 <= n THEN n - 1 + 1 ELSE 0
      /\ \A k \in 1..(n - 1 + 1) : From(h, 1)[k] = h[1 + k - 1]
  BY <1>1, UsedSlots
<1>3. n - 1 + 1 = n /\ (~(1 <= n) => n = 0) /\ \A k \in 1..n : 1 + k - 1 = k
  BY <1>1
<1> QED
  BY <1>2, <1>3

\* What is left of the list behind slot lo.
LEMMA UsedTail ==
    ASSUME NEW n \in 0..Slots, NEW h, Filled(h, n), NEW lo \in 1..Slots
    PROVE  /\ lo <= n => From(h, lo) # <<>> /\ From(h, lo + 1) = Tail(From(h, lo))
           /\ lo > n => From(h, lo) = <<>> /\ From(h, lo + 1) = <<>>
<1>1. Slots \in Nat /\ lo + 1 \in 1..(Slots + 1) /\ lo \in 1..(Slots + 1)
  BY ConstantsAssumption
<1>2. /\ From(h, lo) \in Seq(Funcs)
      /\ Len(From(h, lo)) = IF lo <= n THEN n - lo + 1 ELSE 0
      /\ \A k \in 1..(n - lo + 1) : From(h, lo)[k] = h[lo + k - 1]
  BY <1>1, UsedSlots
<1>3. /\ From(h, lo + 1) \in Seq(Funcs)
      /\ Len(From(h, lo + 1)) = IF lo + 1 <= n THEN n - (lo + 1) + 1 ELSE 0
      /\ \A k \in 1..(n - (lo + 1) + 1) : From(h, lo + 1)[k] = h[(lo + 1) + k - 1]
  BY <1>1, UsedSlots
<1>4. CASE lo <= n
  <2>1. Len(From(h, lo)) = n - lo + 1 /\ From(h, lo) # <<>>
    BY <1>2, <1>4
  <2>2. /\ Tail(From(h, lo)) \in Seq(Funcs) /\ Len(Tail(From(h, lo))) = n - lo
        /\ \A k \in 1..(n - lo) : Tail(From(h, lo))[k] = From(h, lo)[k + 1]
    BY <1>1, <1>2, <2>1, HeadTailProperties
  <2>3. Len(From(h, lo + 1)) = n - lo
    BY <1>1, <1>3, <1>4
  <2>4. \A k \in 1..(n - lo) : From(h, lo + 1)[k] = Tail(From(h, lo))[k]
    <3> SUFFICES ASSUME NEW k \in 1..(n - lo)
                 PROVE  From(h, lo + 1)[k] = Tail(From(h, lo))[k]
      OBVIOUS
    <3>1. /\ k \in 1..(n - (lo + 1) + 1) /\ k + 1 \in 1..(n - lo + 1)
          /\ (lo + 1) + k - 1 = lo + (k + 1) - 1
      BY <1>1
    <3> QED
      BY <1>2, <1>3, <2>2, <3>1
  <2>5. From(h, lo + 1) = Tail(From(h, lo))
    <3> DEFINE s == From(h, lo + 1)
               t == Tail(From(h, lo))
    <3>1. s \in Seq(Funcs) /\ t \in Seq(Funcs) /\ Len(s) = Len(t)
      BY <1>3, <2>2, <2>3
    <3>2. \A k \in 1..Len(s) : s[k] = t[k]
      BY <2>3, <2>4
    <3> HIDE DEF s, t
    <3>3. s = t
      BY <3>1, <3>2, SeqEqual
    <3> QED
      BY <3>3 DEF s, t
  <2> QED
    BY <1>1, <1>4, <2>1, <2>5
<1>5. CASE lo > n
  <2>1. Len(From(h, lo)) = 0 /\ Len(From(h, lo + 1)) = 0
    BY <1>1, <1>2, <1>3, <1>5
  <2> QED
    BY <1>1, <1>2, <1>3, <1>5, <2>1, EmptySeq
<1> QED
  BY <1>1, <1>4, <1>5

-----------------------------------------------------------------------------

\* What HandlerSet sees of the list.
LEMMA Seen ==
    /\ Used(1) = From(handler, 1) /\ Used(1)' = From(handler', 1)
    /\ Used(at) = From(handler, at) /\ Used(at)' = From(handler', at')
BY DEF Used, From

\* One more slot in use is one more handler at the end.
LEMMA UsedAppend ==
    ASSUME NEW n \in 0..Slots, n < Slots, NEW h, Filled(h, n), NEW f \in Funcs,
           NEW g, g = [h EXCEPT ![n + 1] = f]
    PROVE  Filled(g, n + 1) /\ From(g, 1) = Append(From(h, 1), f)
<1>1. Slots \in Nat /\ Index = 1..Slots /\ NULL \notin Funcs /\ n + 1 \in Index
      /\ n + 1 \in 0..Slots
  BY ConstantsAssumption DEF Index
<1>2. Filled(g, n + 1)
  BY <1>1 DEF Filled
<1> DEFINE s == From(h, 1)
           t == From(g, 1)
<1>5. /\ s \in Seq(Funcs) /\ Len(s) = n /\ \A k \in 1..n : s[k] = h[k]
      /\ t \in Seq(Funcs) /\ Len(t) = n + 1 /\ \A k \in 1..(n + 1) : t[k] = g[k]
  BY <1>1, <1>2, UsedAll
<1> HIDE DEF s, t
<1>6. /\ Append(s, f) \in Seq(Funcs) /\ Len(Append(s, f)) = n + 1
      /\ \A k \in 1..n : Append(s, f)[k] = s[k] /\ Append(s, f)[n + 1] = f
  BY <1>5
<1>7. g[n + 1] = f /\ \A k \in 1..n : g[k] = h[k]
  BY <1>1 DEF Filled
<1>8. \A k \in 1..(n + 1) : t[k] = Append(s, f)[k]
  BY <1>1, <1>5, <1>6, <1>7
<1>9. t = Append(s, f)
  BY <1>5, <1>6, <1>8, SeqEqual
<1> QED
  BY <1>2, <1>9 DEF s, t

\* One less is one less.
LEMMA UsedFront ==
    ASSUME NEW n \in 1..Slots, NEW h, Filled(h, n),
           NEW g, g = [h EXCEPT ![n] = NULL]
    PROVE  /\ Filled(g, n - 1)
           /\ From(h, 1) # <<>>
           /\ From(g, 1) = SubSeq(From(h, 1), 1, Len(From(h, 1)) - 1)
<1>1. Slots \in Nat /\ Index = 1..Slots /\ NULL \notin Funcs /\ n \in Index /\ n - 1 \in 0..Slots
  BY ConstantsAssumption DEF Index
<1>2. Filled(g, n - 1)
  BY <1>1 DEF Filled
<1> DEFINE s == From(h, 1)
           t == From(g, 1)
<1>5. /\ s \in Seq(Funcs) /\ Len(s) = n /\ \A k \in 1..n : s[k] = h[k]
      /\ t \in Seq(Funcs) /\ Len(t) = n - 1 /\ \A k \in 1..(n - 1) : t[k] = g[k]
  <2>1. n \in 0..Slots
    BY <1>1
  <2>2. s \in Seq(Funcs) /\ Len(s) = n /\ \A k \in 1..n : s[k] = h[k]
    BY <2>1, UsedAll
  <2>3. t \in Seq(Funcs) /\ Len(t) = n - 1 /\ \A k \in 1..(n - 1) : t[k] = g[k]
    <3> HIDE DEF s
    <3> QED
      BY <1>1, <1>2, UsedAll
  <2> QED
    BY <2>2, <2>3
<1> HIDE DEF s, t
<1>6. /\ SubSeq(s, 1, n - 1) \in Seq(Funcs) /\ Len(SubSeq(s, 1, n - 1)) = n - 1
      /\ \A k \in 1..(n - 1) : SubSeq(s, 1, n - 1)[k] = s[k]
  BY <1>5
<1>7. \A k \in 1..(n - 1) : g[k] = h[k]
  BY <1>1 DEF Filled
<1>8. \A k \in 1..(n - 1) : t[k] = SubSeq(s, 1, n - 1)[k]
  BY <1>1, <1>5, <1>6, <1>7
<1>9. t = SubSeq(s, 1, n - 1)
  BY <1>5, <1>6, <1>8, SeqEqual
<1>10. s # <<>>
  BY <1>5
<1> QED
  BY <1>2, <1>5, <1>9, <1>10 DEF s, t

\* An empty list.
LEMMA UsedNone ==
    ASSUME NEW h, h = [i \in Index |-> NULL]
    PROVE  Filled(h, 0) /\ From(h, 1) = <<>>
<1>1. Slots \in Nat /\ Index = 1..Slots /\ 0 \in 0..Slots /\ 1 \in 1..(Slots + 1)
  BY ConstantsAssumption DEF Index
<1>2. Filled(h, 0)
  BY <1>1 DEF Filled
<1>3. From(h, 1) \in Seq(Funcs) /\ Len(From(h, 1)) = 0
  BY <1>1, <1>2, UsedSlots
<1> QED
  BY <1>2, <1>3, EmptySeq

-----------------------------------------------------------------------------

\* The function added takes the slot behind the last one in use.
LEMMA AddStep ==
    ASSUME FilledInv, NEW f \in Funcs, Add(f)
    PROVE  (\E n \in 0..Slots : Filled(handler, n))' /\ [Promised!SetNext]_(Promised!setVars)
<1>1. PICK n \in 0..Slots : Filled(handler, n)
  BY DEF FilledInv
<1>2. /\ at = 0 /\ at' = 0 /\ Slots \in Nat /\ Index = 1..Slots
      /\ NULL \notin Funcs
  BY ConstantsAssumption DEF Add, Index
<1>3. CASE UNCHANGED handler
  BY <1>1, <1>2, <1>3 DEF Promised!setVars, Used
<1>4. ASSUME NEW i \in Index, IsFirst(i, StopsAt(f)), handler[i] # f,
             handler' = [handler EXCEPT ![i] = f]
      PROVE  /\ (\E m \in 0..Slots : Filled(handler, m))'
             /\ Promised!Register(f)
  <2>1. handler[i] = NULL /\ \A j \in Index : j < i => handler[j] \notin {f, NULL}
    BY <1>2, <1>4 DEF IsFirst, StopsAt
  <2>2. i = n + 1 /\ n < Slots /\ n + 1 \in 0..Slots
    BY <1>1, <1>2, <2>1 DEF Filled
  <2>3. Filled(handler', n + 1) /\ From(handler', 1) = Append(From(handler, 1), f)
    <3>1. n < Slots /\ handler' = [handler EXCEPT ![n + 1] = f]
      BY <1>4, <2>2
    <3>2. \A g : g = [handler EXCEPT ![n + 1] = f] =>
               Filled(g, n + 1) /\ From(g, 1) = Append(From(handler, 1), f)
      BY <1>1, <3>1, UsedAppend
    <3> QED
      BY <3>1, <3>2
  <2>4. /\ From(handler, 1) \in Seq(Funcs) /\ Len(From(handler, 1)) = n
        /\ \A k \in 1..n : From(handler, 1)[k] # f
    <3>1. /\ From(handler, 1) \in Seq(Funcs) /\ Len(From(handler, 1)) = n
          /\ \A k \in 1..n : From(handler, 1)[k] = handler[k]
      BY <1>1, UsedAll
    <3>2. \A k \in 1..n : handler[k] # f
      BY <1>2, <2>1, <2>2
    <3> QED
      BY <1>2, <3>1, <3>2
  <2>5. DOMAIN From(handler, 1) = 1..n
    BY <2>4
  <2>6. Promised!Register(f)
    BY <1>2, <2>2, <2>3, <2>4, <2>5, Seen DEF Promised!Register
  <2> QED
    BY <2>2, <2>3, <2>6
<1>5. ASSUME NEW i \in Index, handler[i] = f, handler' = [handler EXCEPT ![i] = f]
      PROVE  UNCHANGED handler
  BY <1>5 DEF FilledInv, TypeOK
<1> QED
  BY <1>3, <1>4, <1>5 DEF Add, Promised!SetNext

\* The function removed is the last one.
LEMMA RemoveStep ==
    ASSUME FilledInv, ~AnyOrder, NEW f \in Funcs, Removable(f), Remove(f)
    PROVE  (\E n \in 0..Slots : Filled(handler, n))' /\ [Promised!SetNext]_(Promised!setVars)
<1>1. PICK n \in 0..Slots : Filled(handler, n)
  BY DEF FilledInv
<1>2. /\ at = 0 /\ at' = 0 /\ Slots \in Nat /\ Index = 1..Slots
      /\ NULL \notin Funcs
  BY ConstantsAssumption DEF Remove, Index
<1>3. CASE UNCHANGED handler
  BY <1>1, <1>2, <1>3 DEF Promised!setVars, Used
<1>4. ASSUME NEW i \in Index, handler[i] = f, handler' = [handler EXCEPT ![i] = NULL]
      PROVE  /\ (\E m \in 0..Slots : Filled(handler, m))'
             /\ Promised!Deregister
  <2>1. \A j \in Index : i < j => handler[j] = NULL
    BY <1>4 DEF Removable
  <2>2. i = n /\ n \in 1..Slots /\ n - 1 \in 0..Slots
    <3>1. i <= n
      BY <1>1, <1>2, <1>4 DEF Filled
    <3>2. ~(i < n)
      <4>1. CASE n \in Index
        BY <1>1, <1>2, <2>1, <4>1 DEF Filled
      <4>2. CASE n \notin Index
        BY <1>2, <3>1, <4>2
      <4> QED
        BY <4>1, <4>2
    <3> QED
      BY <1>2, <3>1, <3>2
  <2>3. /\ Filled(handler', n - 1) /\ From(handler, 1) # <<>>
        /\ From(handler', 1) = SubSeq(From(handler, 1), 1, Len(From(handler, 1)) - 1)
    BY <1>1, <1>4, <2>2, UsedFront
  <2>4. Promised!Deregister
    BY <1>2, <2>3, Seen DEF Promised!Deregister
  <2> QED
    BY <2>2, <2>3, <2>4
<1> QED
  BY <1>3, <1>4 DEF Remove, IsFirst, Promised!SetNext

\* Slot by slot the handlers are called in their order.
LEMMA InvokeStep ==
    ASSUME FilledInv, StartInvoke \/ InvokeSlot
    PROVE  [Promised!SetNext]_(Promised!setVars)
<1>1. PICK n \in 0..Slots : Filled(handler, n)
  BY DEF FilledInv
<1>2. /\ Slots \in Nat /\ Index = 1..Slots /\ at \in 0..Slots
      /\ UNCHANGED handler
  BY ConstantsAssumption DEF FilledInv, TypeOK, Index, StartInvoke, InvokeSlot
<1>3. Used(1)' = Used(1)
  BY <1>2, Seen
<1>4. CASE StartInvoke
  <2>1. CASE Slots = 0
    BY <1>3, <1>4, <2>1 DEF StartInvoke, Promised!setVars
  <2>2. CASE Slots # 0
    <3>1. at = 0 /\ at' = 1 /\ Used(at)' = Used(1)
      BY <1>2, <1>4, <2>2, Seen DEF StartInvoke
    <3>2. Promised!StartCalls
      BY <1>3, <3>1 DEF Promised!StartCalls
    <3> QED
      BY <3>2 DEF Promised!SetNext
  <2> QED
    BY <2>1, <2>2
<1>5. CASE InvokeSlot
  <2>1. at \in 1..Slots /\ at # 0
    BY <1>2, <1>5 DEF InvokeSlot
  <2>2. /\ at <= n => From(handler, at) # <<>> /\ From(handler, at + 1) = Tail(From(handler, at))
        /\ at > n => From(handler, at) = <<>> /\ From(handler, at + 1) = <<>>
    BY <1>1, <2>1, UsedTail
  <2>3. (IF at = 0 THEN <<>> ELSE Used(at))' = From(handler, at + 1)
    <3>1. CASE at = Slots
      <4>1. Slots + 1 \in 1..(Slots + 1) /\ ~(Slots + 1 <= n)
        BY <1>2
      <4>2. From(handler, Slots + 1) \in Seq(Funcs) /\ Len(From(handler, Slots + 1)) = 0
        BY <1>1, <4>1, UsedSlots
      <4> QED
        BY <1>5, <3>1, <4>2, EmptySeq DEF InvokeSlot
    <3>2. CASE at # Slots
      BY <1>2, <1>5, <2>1, <3>2, Seen DEF InvokeSlot
    <3> QED
      BY <3>1, <3>2
  <2>4. (IF at = 0 THEN <<>> ELSE Used(at)) = From(handler, at)
    BY <2>1, Seen
  <2>5. CASE at <= n
    <3>1. Promised!Call
      BY <1>3, <2>2, <2>3, <2>4, <2>5 DEF Promised!Call
    <3> QED
      BY <3>1 DEF Promised!SetNext
  <2>6. CASE at > n
    BY <1>3, <2>2, <2>3, <2>4, <2>6 DEF Promised!setVars
  <2> QED
    BY <1>2, <2>1, <2>5, <2>6
<1> QED
  BY <1>4, <1>5

\* A list from which no handler but the last is removed does what HandlerSet
\* promises: whoever is registered is called, once, in the order of registration.
THEOREM ListIsHandlerSet ==
    ASSUME ~AnyOrder
    PROVE  Spec => RefinesHandlerSet
<1>1. Init => FilledInv /\ Promised!SetInit
  <2> SUFFICES ASSUME Init
               PROVE  FilledInv /\ Promised!SetInit
    OBVIOUS
  <2>1. Filled(handler, 0) /\ From(handler, 1) = <<>> /\ 0 \in 0..Slots /\ at = 0
    BY UsedNone, ConstantsAssumption DEF Init
  <2>2. TypeOK /\ NoDuplicates
    BY ConstantsAssumption DEF Init, TypeOK, NoDuplicates
  <2> QED
    BY <2>1, <2>2, Seen DEF FilledInv, Promised!SetInit
<1>2. FilledInv /\ ListInv' /\ [Next]_vars =>
         FilledInv' /\ [Promised!SetNext]_(Promised!setVars)
  <2> SUFFICES ASSUME FilledInv, ListInv', [Next]_vars
               PROVE  /\ (\E n \in 0..Slots : Filled(handler, n))'
                      /\ [Promised!SetNext]_(Promised!setVars)
    BY DEF FilledInv, ListInv
  <2>1. CASE \E f \in Funcs : Add(f)
    BY <2>1, AddStep
  <2>2. CASE \E f \in Funcs : Removable(f) /\ Remove(f)
    BY <2>2, RemoveStep
  <2>3. CASE Clear
    <3>1. /\ handler' = [i \in Index |-> NULL] /\ at = 0 /\ at' = 0
          /\ 0 \in 0..Slots
      BY <2>3, ConstantsAssumption DEF Clear
    <3>2. Filled(handler', 0) /\ From(handler', 1) = <<>>
      BY <3>1, UsedNone
    <3>3. Promised!DeregisterAll
      BY <3>1, <3>2, Seen DEF Promised!DeregisterAll
    <3> QED
      BY <3>1, <3>2, <3>3 DEF Promised!SetNext
  <2>4. CASE StartInvoke \/ InvokeSlot
    BY <2>4, InvokeStep DEF FilledInv, StartInvoke, InvokeSlot
  <2>5. CASE UNCHANGED vars
    BY <2>5 DEF FilledInv, vars, Promised!setVars, Used
  <2> QED
    BY <2>1, <2>2, <2>3, <2>4, <2>5 DEF Next
<1> QED
  BY <1>1, <1>2, ListInvariance, PTL DEF Spec, RefinesHandlerSet, Promised!SetSpec

-----------------------------------------------------------------------------
(* The parser.                                                             *)

\* The bytes since the start byte are in the fields of the message up to
\* field h, and nothing else is.
Prefix(n) ==
    /\ Len(raw) = n
    /\ raw[1] = STX
    /\ n > 1 => raw[2] = header["len"]
    /\ n > 2 => raw[3] = header["seq"]
    /\ n > 3 => raw[4] = header["sysid"]
    /\ n > 4 => raw[5] = header["compid"]
    /\ n > 5 => raw[6] = header["msgid"]
    /\ n > 6 => \A k \in 7..n : raw[k] = payload[k - 7]

\* Where the parser is in a frame.
Progress ==
    /\ parse_state = "GOT_STX" => Prefix(1)
    /\ parse_state = "GOT_LENGTH" => Prefix(2) /\ packet_idx = 0
    /\ parse_state = "GOT_SEQ" => Prefix(3) /\ packet_idx = 0
    /\ parse_state = "GOT_SYSID" => Prefix(4) /\ packet_idx = 0
    /\ parse_state = "GOT_COMPID" => Prefix(5) /\ packet_idx = 0
    /\ parse_state \in {"GOT_MSGID", "GOT_PAYLOAD"} => Prefix(6 + packet_idx)
    /\ parse_state = "GOT_CRC1" => Prefix(7 + packet_idx)
    /\ msg_received => /\ parse_state = "IDLE"
                       /\ Prefix(8 + header["len"])

ParserInv == ParserTypeOK /\ InsideBuffer /\ Progress

-----------------------------------------------------------------------------

\* The buffer takes the longest payload and two more bytes.
LEMMA BufferSize == PayloadSize \in Nat /\ MaxByte + 2 <= PayloadSize
<1> DEFINE words == (MaxByte + 9) \div 8
<1>1. words \in Int /\ MaxByte + 9 < 8 * words + 8
  BY ParserAssumption
<1>2. PayloadSize = 8 * words
  BY <1>1, ParserAssumption DEF PayloadSize
<1> HIDE DEF words
<1> QED
  BY <1>1, <1>2, ParserAssumption

\* A byte is a number.
LEMMA ByteFacts == /\ MaxByte \in Nat
                   /\ \A b \in Byte : b \in Nat /\ b <= MaxByte
                   /\ \A n \in Nat : n <= MaxByte => n \in Byte
BY ParserAssumption DEF Byte

\* The start byte of a frame.
LEMMA StartByte ==
    ASSUME ParserTypeOK, Start
    PROVE  ParserTypeOK'
<1>1. header' \in [Fields -> Byte]
  BY ByteFacts DEF ParserTypeOK, Start, Fields
<1>2. raw' \in Seq(Byte)
  BY ParserAssumption DEF Start
<1>3. /\ packet_idx' \in Byte
      /\ payload' \in [0..(PayloadSize - 1) -> Byte]
      /\ checksum' \in Checksums
      /\ parse_state' = "GOT_STX"
      /\ msg_received' = FALSE
  BY ParserAssumption DEF Start, ParserTypeOK
<1> QED
  BY <1>1, <1>2, <1>3 DEF ParserTypeOK

\* What an appended byte changes of the bytes received.
LEMMA AppendRaw ==
    ASSUME ParserTypeOK, NEW c \in Byte, raw' = Append(raw, c)
    PROVE  /\ raw' \in Seq(Byte)
           /\ Len(raw) \in Nat
           /\ Len(raw') = Len(raw) + 1
           /\ \A k \in 1..Len(raw) : raw'[k] = raw[k]
           /\ raw'[Len(raw) + 1] = c
BY DEF ParserTypeOK

\* A start byte begins a frame from any state.
LEMMA StartStep ==
    ASSUME ParserInv, Start
    PROVE  ParserInv'
<1>1. ParserTypeOK'
  BY StartByte DEF ParserInv
<1>2. InsideBuffer'
  BY DEF InsideBuffer, Start
<1>3. Progress'
  BY DEF Progress, Prefix, Start
<1> QED
  BY <1>1, <1>2, <1>3 DEF ParserInv

\* So does a wrong checksum byte that is a start byte; any other ends the
\* frame.
LEMMA RejectStep ==
    ASSUME ParserInv, NEW c \in Byte, NEW sum \in Checksums, Reject(c, sum)
    PROVE  ParserInv'
<1>1. CASE c = STX
  BY <1>1, StartStep DEF Reject
<1>2. CASE c # STX
  <2>1. ParserTypeOK'
    <3>1. raw' \in Seq(Byte)
      BY <1>2 DEF Reject
    <3> QED
      BY <1>2, <3>1 DEF ParserInv, ParserTypeOK, Reject
  <2>2. InsideBuffer'
    BY <1>2 DEF InsideBuffer, Reject
  <2>3. Progress'
    BY <1>2 DEF Progress, Reject
  <2> QED
    BY <2>1, <2>2, <2>3 DEF ParserInv
<1> QED
  BY <1>1, <1>2

\* The type of what a byte of the header changes.
LEMMA HeaderType ==
    ASSUME ParserTypeOK, NEW c \in Byte, NEW field \in Fields,
           NEW from, NEW to, TakeHeader(from, field, c, to)
    PROVE  /\ header' = [header EXCEPT ![field] = c]
           /\ header' \in [Fields -> Byte]
           /\ header'[field] = c
           /\ \A h \in Fields \ {field} : header'[h] = header[h]
           /\ payload' \in [0..(PayloadSize - 1) -> Byte]
           /\ checksum' \in Checksums
           /\ raw' = Append(raw, c)
           /\ raw' \in Seq(Byte)
           /\ msg_received' = FALSE
<1>1. raw' \in Seq(Byte)
  BY AppendRaw DEF TakeHeader
<1>2. checksum' \in Checksums
  BY ParserAssumption DEF TakeHeader, ParserTypeOK
<1> QED
  BY <1>1, <1>2 DEF TakeHeader, ParserTypeOK

\* The bytes received are one more, the fields of the others as before.
LEMMA HeaderPrefix ==
    ASSUME ParserTypeOK, NEW c \in Byte, NEW field \in Fields,
           NEW from, NEW to, TakeHeader(from, field, c, to),
           NEW n \in 1..5, Prefix(n)
    PROVE  /\ Len(raw') = n + 1
           /\ raw'[n + 1] = header'[field]
           /\ raw'[1] = STX
           /\ \A k \in 1..n : raw'[k] = raw[k]
           /\ \A h \in Fields \ {field} : header'[h] = header[h]
<1>1. Len(raw) = n /\ raw[1] = STX
  BY DEF Prefix
<1>2. /\ raw' = Append(raw, c)
      /\ header'[field] = c
      /\ \A h \in Fields \ {field} : header'[h] = header[h]
  BY HeaderType
<1>3. /\ Len(raw') = Len(raw) + 1
      /\ \A k \in 1..Len(raw) : raw'[k] = raw[k]
      /\ raw'[Len(raw) + 1] = c
  BY <1>2, AppendRaw
<1> QED
  BY <1>1, <1>2, <1>3

\* A byte of the header.
LEMMA HeaderStep ==
    ASSUME ParserInv, NEW c \in Byte, TakeLen(c) \/ TakeIds(c)
    PROVE  ParserInv'
<1> ParserTypeOK
  BY DEF ParserInv
<1> USE ByteFacts, BufferSize
<1>1. ASSUME NEW from, NEW field \in Fields, NEW to,
             TakeHeader(from, field, c, to),
             packet_idx' \in Byte,
             to \in {"GOT_LENGTH", "GOT_SEQ", "GOT_SYSID", "GOT_COMPID",
                     "GOT_MSGID", "GOT_PAYLOAD"}
      PROVE  ParserTypeOK'
  BY <1>1, HeaderType DEF TakeHeader, ParserTypeOK
<1>2. CASE TakeLen(c)
  <2>1. ParserTypeOK'
    BY <1>1, <1>2 DEF TakeLen, Fields
  <2>2. Prefix(1)
    BY <1>2 DEF ParserInv, Progress, TakeLen, TakeHeader
  <2>3. Prefix(2)'
    BY <1>2, <2>2, HeaderPrefix DEF Prefix, TakeLen, Fields
  <2> QED
    BY <1>2, <2>1, <2>3 DEF ParserInv, InsideBuffer, Progress, TakeLen, TakeHeader
<1>3. CASE TakeIds(c)
  <2>1. packet_idx' = packet_idx /\ packet_idx' \in Byte
    BY <1>3 DEF TakeIds, ParserTypeOK
  <2>2. CASE TakeHeader("GOT_LENGTH", "seq", c, "GOT_SEQ")
    <3>1. Prefix(2) /\ packet_idx' = 0
      BY <2>1, <2>2 DEF ParserInv, Progress, TakeHeader
    <3>2. Prefix(3)'
      BY <2>2, <3>1, HeaderPrefix DEF Prefix, Fields
    <3>3. ParserTypeOK'
      BY <1>1, <2>1, <2>2 DEF Fields
    <3> QED
      BY <2>2, <3>1, <3>2, <3>3 DEF ParserInv, InsideBuffer, Progress, TakeHeader
  <2>3. CASE TakeHeader("GOT_SEQ", "sysid", c, "GOT_SYSID")
    <3>1. Prefix(3) /\ packet_idx' = 0
      BY <2>1, <2>3 DEF ParserInv, Progress, TakeHeader
    <3>2. Prefix(4)'
      BY <2>3, <3>1, HeaderPrefix DEF Prefix, Fields
    <3>3. ParserTypeOK'
      BY <1>1, <2>1, <2>3 DEF Fields
    <3> QED
      BY <2>3, <3>1, <3>2, <3>3 DEF ParserInv, InsideBuffer, Progress, TakeHeader
  <2>4. CASE TakeHeader("GOT_SYSID", "compid", c, "GOT_COMPID")
    <3>1. Prefix(4) /\ packet_idx' = 0
      BY <2>1, <2>4 DEF ParserInv, Progress, TakeHeader
    <3>2. Prefix(5)'
      BY <2>4, <3>1, HeaderPrefix DEF Prefix, Fields
    <3>3. ParserTypeOK'
      BY <1>1, <2>1, <2>4 DEF Fields
    <3> QED
      BY <2>4, <3>1, <3>2, <3>3 DEF ParserInv, InsideBuffer, Progress, TakeHeader
  <2>5. CASE TakeHeader("GOT_COMPID", "msgid", c,
                        IF header["len"] = 0 THEN "GOT_PAYLOAD" ELSE "GOT_MSGID")
    <3>0. Prefix(5) /\ packet_idx' = 0
      BY <2>1, <2>5 DEF ParserInv, Progress, TakeHeader
    <3>1. Prefix(6)'
      BY <2>5, <3>0, HeaderPrefix DEF Prefix, Fields
    <3>2. header'["len"] = header["len"] /\ header["len"] \in Byte
      BY <2>5, HeaderType DEF Fields, ParserTypeOK
    <3>3. ParserTypeOK'
      BY <1>1, <2>1, <2>5 DEF Fields
    <3>4. InsideBuffer'
      BY <3>0, <2>5, <3>2 DEF InsideBuffer, TakeHeader
    <3>5. Prefix(6 + packet_idx)'
      BY <3>0, <3>1 DEF Prefix
    <3>6. Progress'
      BY <2>5, <3>5 DEF Progress, TakeHeader
    <3> QED
      BY <3>3, <3>4, <3>6 DEF ParserInv
  <2> QED
    BY <1>3, <2>2, <2>3, <2>4, <2>5 DEF TakeIds
<1> QED
  BY <1>2, <1>3

\* The type of what a byte behind the header changes.
LEMMA PayloadType ==
    ASSUME ParserTypeOK, NEW c \in Byte, NEW i \in 0..(PayloadSize - 1),
           payload' = [payload EXCEPT ![i] = c]
    PROVE  /\ payload' \in [0..(PayloadSize - 1) -> Byte]
           /\ payload'[i] = c
           /\ \A k \in 0..(PayloadSize - 1) : k # i => payload'[k] = payload[k]
BY DEF ParserTypeOK

\* It lengthens what has been received by one byte.
LEMMA PrefixStep ==
    ASSUME ParserTypeOK, NEW c \in Byte, NEW i \in 0..(PayloadSize - 1),
           payload' = [payload EXCEPT ![i] = c],
           raw' = Append(raw, c), header' = header,
           Prefix(6 + i)
    PROVE  Prefix(7 + i)'
<1>1. /\ i \in Nat /\ PayloadSize \in Nat /\ i < PayloadSize
      /\ Len(raw) = 6 + i
      /\ Len(raw') = 7 + i
      /\ raw'[7 + i] = c
      /\ \A k \in 1..(6 + i) : raw'[k] = raw[k]
  BY AppendRaw, BufferSize DEF Prefix
<1>2. \A k \in 7..(7 + i) : raw'[k] = payload'[k - 7]
  <2> SUFFICES ASSUME NEW k \in 7..(7 + i)
               PROVE  raw'[k] = payload'[k - 7]
    OBVIOUS
  <2>1. CASE k = 7 + i
    <3>1. payload'[i] = c
      BY PayloadType
    <3>2. k - 7 = i /\ raw'[k] = c
      BY <1>1, <2>1
    <3> QED
      BY <3>1, <3>2
  <2>2. CASE k # 7 + i
    <3>1. raw'[k] = raw[k] /\ raw[k] = payload[k - 7]
      BY <1>1, <2>2 DEF Prefix
    <3>2. payload'[k - 7] = payload[k - 7]
      BY <1>1, <2>2, PayloadType
    <3> QED
      BY <3>1, <3>2
  <2> QED
    BY <2>1, <2>2
<1>3. /\ raw'[1] = STX
      /\ raw'[2] = header["len"] /\ raw'[3] = header["seq"]
      /\ raw'[4] = header["sysid"] /\ raw'[5] = header["compid"]
      /\ raw'[6] = header["msgid"]
  BY <1>1 DEF Prefix
<1> QED
  BY <1>1, <1>2, <1>3 DEF Prefix

\* A byte of the payload.
LEMMA PayloadStep ==
    ASSUME ParserInv, NEW c \in Byte, TakePayload(c)
    PROVE  ParserInv'
<1> ParserTypeOK
  BY DEF ParserInv
<1>1. /\ packet_idx \in Nat /\ packet_idx < header["len"]
      /\ header["len"] \in Nat /\ header["len"] <= MaxByte
      /\ packet_idx + 1 \in Byte
      /\ packet_idx \in 0..(PayloadSize - 1)
      /\ PayloadSize \in Nat /\ MaxByte + 2 <= PayloadSize /\ MaxByte \in Nat
  BY ByteFacts, BufferSize
    DEF ParserInv, ParserTypeOK, InsideBuffer, Fields, TakePayload
<1>2. ParserTypeOK'
  <2>1. raw' \in Seq(Byte)
    BY AppendRaw DEF TakePayload
  <2>2. checksum' \in Checksums
    BY ParserAssumption DEF TakePayload, ParserTypeOK
  <2>3. payload' \in [0..(PayloadSize - 1) -> Byte]
    BY <1>1, PayloadType DEF TakePayload
  <2> QED
    BY <1>1, <2>1, <2>2, <2>3 DEF TakePayload, ParserTypeOK
<1>3. InsideBuffer'
  BY <1>1 DEF InsideBuffer, TakePayload
<1>4. Prefix(6 + packet_idx)'
  <2> SUFFICES ASSUME NEW i \in 0..(PayloadSize - 1), i = packet_idx
               PROVE  Prefix(6 + packet_idx)'
    BY <1>1
  <2>1. packet_idx' = i + 1
    BY DEF TakePayload
  <2>2. Prefix(6 + i)
    BY DEF ParserInv, Progress, TakePayload
  <2>3. Prefix(7 + i)'
    BY <2>2, PrefixStep DEF TakePayload
  <2> QED
    BY <1>1, <2>1, <2>3 DEF Prefix
<1>5. Progress'
  BY <1>4 DEF Progress, TakePayload
<1> QED
  BY <1>2, <1>3, <1>5 DEF ParserInv

\* A checksum byte.
LEMMA ChecksumStep ==
    ASSUME ParserInv, NEW c \in Byte, TakeCk1(c) \/ TakeCk2(c)
    PROVE  ParserInv'
<1> ParserTypeOK
  BY DEF ParserInv
<1>0. /\ packet_idx = header["len"] /\ packet_idx \in Nat
      /\ packet_idx \in 0..(PayloadSize - 1)
      /\ packet_idx + 1 \in 0..(PayloadSize - 1)
      /\ PayloadSize \in Nat
  BY ByteFacts, BufferSize
    DEF ParserInv, ParserTypeOK, InsideBuffer, Fields, TakeCk1, TakeCk2
<1>1. CASE TakeCk1(c)
  <2> DEFINE sum == crc_accumulate[checksum][crc_extra[header["msgid"]]]
  <2>1. sum \in Checksums
    BY ParserAssumption DEF ParserTypeOK, Fields
  <2>2. CASE c # low[sum]
    BY <1>1, <2>1, <2>2, RejectStep DEF TakeCk1
  <2>3. CASE c = low[sum]
    <3>1. /\ parse_state = "GOT_PAYLOAD" /\ parse_state' = "GOT_CRC1"
          /\ payload' = [payload EXCEPT ![packet_idx] = c]
          /\ checksum' = sum /\ header' = header
          /\ raw' = Append(raw, c)
          /\ msg_received' = FALSE
          /\ packet_idx' = packet_idx
      BY <1>1, <2>3 DEF TakeCk1
    <3> HIDE DEF sum
    <3>2. ParserTypeOK'
      BY <1>0, <2>1, <3>1, AppendRaw, PayloadType DEF ParserTypeOK
    <3>3. InsideBuffer'
      BY <1>0, <3>1 DEF InsideBuffer
    <3>4. Prefix(7 + packet_idx)'
      <4> SUFFICES ASSUME NEW i \in 0..(PayloadSize - 1), i = packet_idx
                   PROVE  Prefix(7 + packet_idx)'
        BY <1>0
      <4>1. Prefix(7 + i)'
        BY <3>1, PrefixStep DEF ParserInv, Progress
      <4> QED
        BY <3>1, <4>1 DEF Prefix
    <3>5. Progress'
      BY <3>1, <3>4 DEF Progress
    <3> QED
      BY <3>2, <3>3, <3>5 DEF ParserInv
  <2> QED
    BY <2>2, <2>3
<1>2. CASE TakeCk2(c)
  <2>1. CASE c # high[checksum]
    BY <1>2, <2>1, RejectStep DEF TakeCk2, ParserTypeOK
  <2>2. CASE c = high[checksum]
    <3>1. /\ parse_state = "GOT_CRC1" /\ parse_state' = "IDLE"
          /\ payload' = [payload EXCEPT ![packet_idx + 1] = c]
          /\ checksum' = checksum /\ header' = header
          /\ raw' = Append(raw, c)
          /\ msg_received' = TRUE
          /\ packet_idx' = packet_idx
      BY <1>2, <2>2 DEF TakeCk2
    <3>2. ParserTypeOK'
      BY <1>0, <3>1, AppendRaw, PayloadType DEF ParserTypeOK
    <3>3. InsideBuffer'
      BY <3>1 DEF InsideBuffer
    <3>6. Prefix(8 + header["len"])'
      <4> SUFFICES ASSUME NEW i \in 0..(PayloadSize - 1), i = packet_idx + 1
                   PROVE  Prefix(8 + header["len"])'
        BY <1>0
      <4>1. Prefix(6 + i)
        BY <1>0, <3>1 DEF ParserInv, Progress, Prefix
      <4>2. Prefix(7 + i)'
        BY <3>1, <4>1, PrefixStep
      <4>3. 7 + i = 8 + header'["len"]
        BY <1>0, <3>1
      <4> QED
        BY <4>2, <4>3 DEF Prefix
    <3>7. Progress'
      BY <3>1, <3>6 DEF Progress
    <3> QED
      BY <3>2, <3>3, <3>7 DEF ParserInv
  <2> QED
    BY <2>1, <2>2
<1> QED
  BY <1>1, <1>2

\* A byte between two frames.
LEMMA SeekStep ==
    ASSUME ParserInv, NEW c \in Byte, SeekStx(c)
    PROVE  ParserInv'
<1>1. CASE c = STX
  BY <1>1, StartStep DEF SeekStx
<1>2. CASE c # STX
  <2>1. ParserTypeOK'
    <3>1. raw' \in Seq(Byte)
      BY <1>2 DEF SeekStx
    <3> QED
      BY <1>2, <3>1 DEF SeekStx, rxmsg, ParserInv, ParserTypeOK
  <2>2. InsideBuffer'
    BY <1>2 DEF SeekStx, rxmsg, InsideBuffer
  <2>3. Progress'
    BY <1>2 DEF SeekStx, rxmsg, Progress
  <2> QED
    BY <2>1, <2>2, <2>3 DEF ParserInv
<1> QED
  BY <1>1, <1>2

-----------------------------------------------------------------------------

\* A byte, whatever it is.
LEMMA ParseStep ==
    ASSUME ParserInv, NEW c \in Byte, parse_char(c)
    PROVE  ParserInv'
BY SeekStep, HeaderStep, PayloadStep, ChecksumStep DEF parse_char

\* No byte.
LEMMA ParserIdles ==
    ASSUME ParserInv, UNCHANGED parserVars
    PROVE  ParserInv'
BY DEF parserVars, rxmsg, ParserInv, ParserTypeOK, InsideBuffer, Progress, Prefix

\* The buffer is empty before the first byte.
LEMMA ParserStarts == ParserInit => ParserInv
<1> SUFFICES ASSUME ParserInit
             PROVE  ParserInv
  OBVIOUS
<1>1. raw \in Seq(Byte)
  BY DEF ParserInit
<1>2. /\ header \in [Fields -> Byte]
      /\ payload \in [0..(PayloadSize - 1) -> Byte]
      /\ checksum \in Checksums /\ packet_idx \in Byte
  BY ParserAssumption, ByteFacts DEF ParserInit
<1>3. ParserTypeOK
  BY <1>1, <1>2 DEF ParserInit, ParserTypeOK
<1>4. InsideBuffer /\ Progress
  BY DEF ParserInit, InsideBuffer, Progress
<1> QED
  BY <1>3, <1>4 DEF ParserInv

\* The inductive invariant of the parser.
THEOREM ParserInvariance == ParserSpec => []ParserInv
<1>1. ParserInv /\ [ParserNext]_parserVars => ParserInv'
  BY ParseStep, ParserIdles DEF ParserNext
<1> QED
  BY <1>1, ParserStarts, PTL DEF ParserSpec

\* The parser is type-correct: its index never leaves its eight bits.
THEOREM ParserTypeCorrect == ParserSpec => []ParserTypeOK
BY ParserInvariance, PTL DEF ParserInv

\* No byte is written behind the payload buffer, whatever length a frame claims.
THEOREM ParserStaysInside == ParserSpec => []InsideBuffer
BY ParserInvariance, PTL DEF ParserInv

\* Fields and payload hold what arrived, from the start byte on.
LEMMA HandedOut == ParserInv => ForwardedAsReceived
<1> SUFFICES ASSUME ParserInv, msg_received
             PROVE  send_buffer = raw
  BY DEF ForwardedAsReceived
<1> DEFINE n == header["len"]
           head == <<STX, n, header["seq"], header["sysid"],
                     header["compid"], header["msgid"]>>
           rest == [k \in 1..(n + 2) |-> payload[k - 1]]
<1>1. /\ n \in 0..MaxByte
      /\ \A h \in Fields : header[h] \in Byte
      /\ \A k \in 0..(PayloadSize - 1) : payload[k] \in Byte
      /\ STX \in Byte /\ MaxByte \in Nat
  BY ParserAssumption DEF ParserInv, ParserTypeOK, Fields, Byte
<1>2. head \in Seq(Byte) /\ Len(head) = 6
  BY <1>1 DEF Fields
<1>3. rest \in Seq(Byte) /\ Len(rest) = n + 2
  BY <1>1, BufferSize
<1>4. Prefix(8 + n) /\ raw \in Seq(Byte)
  BY DEF ParserInv, Progress, ParserTypeOK
<1>5. /\ send_buffer = head \o rest
      /\ head \o rest \in Seq(Byte)
      /\ Len(head \o rest) = Len(raw)
  BY <1>1, <1>2, <1>3, <1>4, ConcatProperties DEF send_buffer, Prefix
<1> HIDE DEF head, rest
<1>6. ASSUME NEW i \in 1..Len(raw)
      PROVE  (head \o rest)[i] = raw[i]
  <2>1. /\ Len(head) = 6 /\ Len(rest) = n + 2 /\ n \in Nat
        /\ i \in 1..(8 + n)
    BY <1>1, <1>2, <1>3, <1>4 DEF Prefix
  <2>2. (head \o rest)[i] = IF i <= Len(head) THEN head[i] ELSE rest[i - Len(head)]
    <3>1. i \in 1..(Len(head) + Len(rest))
      BY <2>1
    <3> HIDE DEF n
    <3> QED
      BY <1>2, <1>3, <3>1, ConcatProperties
  <2>3. CASE i <= 6
    <3>1. (head \o rest)[i] = head[i]
      BY <2>1, <2>2, <2>3
    <3>2. /\ raw[1] = STX /\ raw[2] = n
          /\ raw[3] = header["seq"] /\ raw[4] = header["sysid"]
          /\ raw[5] = header["compid"] /\ raw[6] = header["msgid"]
      BY <1>4, <2>1 DEF Prefix
    <3>3. i \in {1, 2, 3, 4, 5, 6}
      BY <2>1, <2>3
    <3>4. /\ head[1] = STX /\ head[2] = n
          /\ head[3] = header["seq"] /\ head[4] = header["sysid"]
          /\ head[5] = header["compid"] /\ head[6] = header["msgid"]
      BY DEF head
    <3> QED
      BY <3>1, <3>2, <3>3, <3>4
  <2>4. CASE i > 6
    <3>1. (head \o rest)[i] = rest[i - 6]
      BY <2>1, <2>2, <2>4
    <3>2. rest[i - 6] = payload[i - 7]
      BY <2>1, <2>4 DEF rest
    <3>3. raw[i] = payload[i - 7]
      BY <1>4, <2>1, <2>4 DEF Prefix
    <3> QED
      BY <3>1, <3>2, <3>3
  <2>5. i <= 6 \/ i > 6
    BY <2>1
  <2> QED
    BY <2>3, <2>4, <2>5
<1> QED
  BY <1>4, <1>5, <1>6, SeqEqual

\* A message that is handed out is what was received, byte for byte.
THEOREM HandsOutWhatArrived == ParserSpec => []ForwardedAsReceived
BY ParserInvariance, HandedOut, PTL

-----------------------------------------------------------------------------
(* The checksum.                                                           *)

\* What the loop of crc_calculate computes: a checksum for every byte, each
\* from the one before.
LEMMA CrcLoop ==
    ASSUME NEW b \in Seq(Byte)
    PROVE  \E f \in [0..Len(b) -> Checksums] :
              /\ f[0] = crc_init
              /\ \A n \in 1..Len(b) : f[n] = crc_accumulate[f[n - 1]][b[n]]
              /\ crc_calculate(b) = f[Len(b)]
<1> DEFINE N == Len(b)
           step == [n \in 1..N |-> [ck \in Checksums |-> crc_accumulate[ck][b[n]]]]
           Sum(s) == s = [n \in 0..N |->
                            IF n = 0 THEN crc_init ELSE crc_accumulate[s[n - 1]][b[n]]]
<1>1. crc_calculate(b) = (CHOOSE s : Sum(s))[N]
  BY DEF crc_calculate
<1>2. \A n \in 1..N : b[n] \in Byte
  OBVIOUS
<1>3. step \in [1..N -> [Checksums -> Checksums]] /\ crc_init \in Checksums /\ N \in Nat
  <2>1. ASSUME NEW n \in 1..N, NEW ck \in Checksums
        PROVE  crc_accumulate[ck][b[n]] \in Checksums
    BY <1>2, <2>1, ParserAssumption
  <2>2. crc_init \in Checksums /\ N \in Nat
    BY ParserAssumption
  <2> QED
    BY <2>1, <2>2
<1>4. PICK g \in [0..N -> Checksums] : Follows(g, N, crc_init, step)
  <2> HIDE DEF step, N
  <2> QED
    BY <1>3, RecursionExists
<1>5. \A n \in 1..N : step[n][g[n - 1]] = crc_accumulate[g[n - 1]][b[n]]
  BY <1>3
<1>6. \A n \in 0..N : g[n] = IF n = 0 THEN crc_init ELSE crc_accumulate[g[n - 1]][b[n]]
  <2>1. \A n \in 0..N : g[n] = IF n = 0 THEN crc_init ELSE step[n][g[n - 1]]
    <3> HIDE DEF step
    <3> QED
      BY <1>4 DEF Follows
  <2>2. \A n \in 0..N : n # 0 => n \in 1..N
    BY <1>3
  <2> HIDE DEF step
  <2> QED
    BY <1>5, <2>1, <2>2
<1>7. Sum(g)
  BY <1>6
<1>8. Sum(CHOOSE s : Sum(s))
  <2> HIDE DEF Sum
  <2> QED
    BY <1>7
<1> DEFINE f == CHOOSE s : Sum(s)
<1>9. f = [n \in 0..N |-> IF n = 0 THEN crc_init ELSE crc_accumulate[f[n - 1]][b[n]]]
  BY <1>8
<1> HIDE DEF f
<1>10. /\ DOMAIN f = 0..N /\ f[0] = crc_init
       /\ \A n \in 1..N : f[n] = crc_accumulate[f[n - 1]][b[n]]
  BY <1>3, <1>9
<1>11. \A n \in 0..N : f[n] = g[n]
  <2>1. g[0] = crc_init /\ \A n \in 1..N : g[n] = crc_accumulate[g[n - 1]][b[n]]
    BY <1>3, <1>6
  <2>2. InStride(f, g, N)
    BY <1>10, <2>1 DEF InStride
  <2> HIDE DEF N
  <2> QED
    BY <1>3, <2>2, RecursionUnique
<1>12. f = g
  BY <1>9, <1>10, <1>11
<1> QED
  BY <1>1, <1>10, <1>12 DEF f

\* The checksum is made byte by byte.
LEMMA CrcAppend ==
    ASSUME NEW b \in Seq(Byte), NEW c \in Byte
    PROVE  /\ crc_calculate(b) \in Checksums
           /\ crc_calculate(Append(b, c)) = crc_accumulate[crc_calculate(b)][c]
<1> DEFINE d == Append(b, c)
<1>1. /\ d \in Seq(Byte) /\ Len(b) \in Nat /\ Len(d) = Len(b) + 1
      /\ d[Len(b) + 1] = c /\ \A n \in 1..Len(b) : d[n] = b[n]
  OBVIOUS
<1>2. PICK f \in [0..Len(b) -> Checksums] :
         /\ f[0] = crc_init
         /\ \A n \in 1..Len(b) : f[n] = crc_accumulate[f[n - 1]][b[n]]
         /\ crc_calculate(b) = f[Len(b)]
  BY CrcLoop
<1> HIDE DEF d
<1>3. PICK g \in [0..Len(d) -> Checksums] :
         /\ g[0] = crc_init
         /\ \A n \in 1..Len(d) : g[n] = crc_accumulate[g[n - 1]][d[n]]
         /\ crc_calculate(d) = g[Len(d)]
  BY <1>1, CrcLoop
<1>4. InStride(f, g, Len(b))
  <2>1. f[0] = g[0]
    BY <1>2, <1>3
  <2>2. \A n \in 1..Len(b) : f[n - 1] = g[n - 1] => f[n] = g[n]
    BY <1>1, <1>2, <1>3
  <2> QED
    BY <2>1, <2>2 DEF InStride
<1>5. f[Len(b)] = g[Len(b)]
  <2>1. \A n \in 0..Len(b) : f[n] = g[n]
    BY <1>1, <1>4, RecursionUnique
  <2> QED
    BY <1>1, <2>1
<1>6. g[Len(d)] = crc_accumulate[g[Len(b)]][c]
  BY <1>1, <1>3
<1> QED
  BY <1>1, <1>2, <1>3, <1>5, <1>6 DEF d

\* It begins with its initial value.
LEMMA CrcEmpty == crc_calculate(<<>>) = crc_init
<1>1. <<>> \in Seq(Byte) /\ Len(<<>>) = 0
  OBVIOUS
<1> QED
  BY <1>1, CrcLoop

Header == {"GOT_STX", "GOT_LENGTH", "GOT_SEQ", "GOT_SYSID", "GOT_COMPID"}
Counted == Header \cup {"GOT_MSGID", "GOT_PAYLOAD"}

\* The checksum is that of the bytes behind the start byte; then come the two
\* bytes it should be.
CrcInv ==
    /\ parse_state \in Counted => checksum = crc_calculate(SubSeq(raw, 2, Len(raw)))
    /\ parse_state = "GOT_CRC1" => /\ checksum = Checksum(SubSeq(raw, 2, Len(raw) - 1))
                                   /\ raw[Len(raw)] = low[checksum]
    /\ ChecksumHolds

\* A part of a sequence.
LEMMA Part ==
    ASSUME NEW S, NEW s \in Seq(S), NEW m \in 1..(Len(s) + 1), NEW n \in (m - 1)..Len(s)
    PROVE  /\ SubSeq(s, m, n) \in Seq(S)
           /\ Len(SubSeq(s, m, n)) = n - m + 1
           /\ \A i \in 1..(n - m + 1) : SubSeq(s, m, n)[i] = s[m + i - 1]
<1>1. m \in Int /\ n \in Int /\ m <= n + 1
  OBVIOUS
<1>2. \A i \in m..n : s[i] \in S
  BY <1>1
<1>3. /\ SubSeq(s, m, n) \in Seq(S)
      /\ Len(SubSeq(s, m, n)) = IF m <= n THEN n - m + 1 ELSE 0
      /\ \A i \in 1..(n - m + 1) : SubSeq(s, m, n)[i] = s[m + i - 1]
  BY <1>1, <1>2, SubSeqProperties
<1> QED
  BY <1>1, <1>3

\* What stands behind the first byte, when one more is appended.
LEMMA BehindFirst ==
    ASSUME NEW s \in Seq(Byte), NEW c \in Byte, Len(s) >= 1
    PROVE  /\ SubSeq(s, 2, Len(s)) \in Seq(Byte)
           /\ Len(SubSeq(s, 2, Len(s))) = Len(s) - 1
           /\ SubSeq(Append(s, c), 2, Len(s) + 1) = Append(SubSeq(s, 2, Len(s)), c)
           /\ SubSeq(Append(s, c), 2, Len(s)) = SubSeq(s, 2, Len(s))
           /\ \A k \in 1..(Len(s) - 1) : SubSeq(s, 2, Len(s))[k] = s[k + 1]
<1> DEFINE t == Append(s, c)
           u == SubSeq(s, 2, Len(s))
<1>1. /\ Len(s) \in Nat /\ t \in Seq(Byte) /\ Len(t) = Len(s) + 1
      /\ t[Len(s) + 1] = c /\ \A k \in 1..Len(s) : t[k] = s[k]
  OBVIOUS
<1>2. /\ u \in Seq(Byte) /\ Len(u) = Len(s) - 1
      /\ \A k \in 1..(Len(s) - 1) : u[k] = s[k + 1]
  <2>1. /\ u \in Seq(Byte) /\ Len(u) = Len(s) - 2 + 1
        /\ \A k \in 1..(Len(s) - 2 + 1) : u[k] = s[2 + k - 1]
    <3>1. 2 \in 1..(Len(s) + 1) /\ Len(s) \in (2 - 1)..Len(s)
      BY <1>1
    <3> QED
      BY <3>1, Part
  <2> HIDE DEF u
  <2> QED
    BY <1>1, <2>1
<1> HIDE DEF t, u
<1>3. /\ SubSeq(t, 2, Len(s) + 1) \in Seq(Byte)
      /\ Len(SubSeq(t, 2, Len(s) + 1)) = Len(s)
      /\ \A k \in 1..Len(s) : SubSeq(t, 2, Len(s) + 1)[k] = t[k + 1]
      /\ SubSeq(t, 2, Len(s)) \in Seq(Byte)
      /\ Len(SubSeq(t, 2, Len(s))) = Len(s) - 1
      /\ \A k \in 1..(Len(s) - 1) : SubSeq(t, 2, Len(s))[k] = t[k + 1]
  <2>1. ASSUME NEW n \in {Len(s), Len(s) + 1}
        PROVE  /\ SubSeq(t, 2, n) \in Seq(Byte)
               /\ Len(SubSeq(t, 2, n)) = n - 2 + 1
               /\ \A k \in 1..(n - 2 + 1) : SubSeq(t, 2, n)[k] = t[2 + k - 1]
    <3>1. 2 \in 1..(Len(t) + 1) /\ n \in (2 - 1)..Len(t)
      BY <1>1
    <3> QED
      BY <1>1, <3>1, Part
  <2>2. \A k \in Int : 2 + k - 1 = k + 1
    OBVIOUS
  <2> QED
    BY <1>1, <2>1, <2>2
<1>4. /\ Append(u, c) \in Seq(Byte) /\ Len(Append(u, c)) = Len(s)
      /\ \A k \in 1..(Len(s) - 1) : Append(u, c)[k] = u[k]
      /\ Append(u, c)[Len(s)] = c
  BY <1>1, <1>2
<1>5. SubSeq(t, 2, Len(s) + 1) = Append(u, c)
  <2>1. \A k \in 1..Len(s) : SubSeq(t, 2, Len(s) + 1)[k] = Append(u, c)[k]
    BY <1>1, <1>2, <1>3, <1>4
  <2> QED
    BY <1>3, <1>4, <2>1, SeqEqual
<1>6. SubSeq(t, 2, Len(s)) = u
  <2>1. \A k \in 1..(Len(s) - 1) : SubSeq(t, 2, Len(s))[k] = u[k]
    BY <1>1, <1>2, <1>3
  <2> QED
    BY <1>2, <1>3, <2>1, SeqEqual
<1> QED
  BY <1>2, <1>5, <1>6 DEF t, u

\* A frame begins: nothing has been counted.
LEMMA StartCrc == ASSUME Start PROVE CrcInv'
<1>1. SubSeq(<<STX>>, 2, 1) = <<>>
  OBVIOUS
<1>2. Len(<<STX>>) = 1
  OBVIOUS
<1> QED
  BY <1>1, <1>2, CrcEmpty DEF Start, CrcInv, ChecksumHolds, Counted, Header

\* One more byte is counted.
LEMMA CountedStep ==
    ASSUME ParserInv, CrcInv, parse_state \in Counted, NEW c \in Byte,
           checksum' = crc_accumulate[checksum][c], raw' = Append(raw, c)
    PROVE  checksum' = crc_calculate(SubSeq(raw, 2, Len(raw)))'
<1>1. raw \in Seq(Byte) /\ Len(raw) >= 1
  <2>1. packet_idx \in Nat /\ raw \in Seq(Byte)
    BY ByteFacts DEF ParserInv, ParserTypeOK
  <2> QED
    BY <2>1 DEF ParserInv, Progress, Prefix, Counted, Header
<1>2. Len(raw') = Len(raw) + 1
  BY <1>1
<1>3. SubSeq(raw', 2, Len(raw')) = Append(SubSeq(raw, 2, Len(raw)), c)
  BY <1>1, <1>2, BehindFirst
<1>4. SubSeq(raw, 2, Len(raw)) \in Seq(Byte)
  BY <1>1, BehindFirst
<1>5. checksum = crc_calculate(SubSeq(raw, 2, Len(raw)))
  BY DEF CrcInv
<1> QED
  BY <1>3, <1>4, <1>5, CrcAppend

\* The last byte of a frame whose checksum is right.
LEMMA WholeFrame ==
    ASSUME NEW r \in Seq(Byte), Len(r) >= 8, r[1] = STX,
           NEW sum, sum = Checksum(SubSeq(r, 2, Len(r) - 2)),
           r[Len(r) - 1] = low[sum], r[Len(r)] = high[sum]
    PROVE  r = Frame(SubSeq(r, 2, Len(r) - 2))
<1> DEFINE body == SubSeq(r, 2, Len(r) - 2)
           ck == <<low[sum], high[sum]>>
<1>1. /\ body \in Seq(Byte) /\ Len(body) = Len(r) - 3 /\ Len(r) \in Nat
      /\ \A k \in 1..(Len(r) - 3) : body[k] = r[k + 1]
      /\ \A k \in 1..Len(r) : r[k] \in Byte
  <2>1. 2 \in 1..(Len(r) + 1) /\ Len(r) - 2 \in (2 - 1)..Len(r)
    OBVIOUS
  <2>2. /\ body \in Seq(Byte) /\ Len(body) = (Len(r) - 2) - 2 + 1
        /\ \A k \in 1..((Len(r) - 2) - 2 + 1) : body[k] = r[2 + k - 1]
    BY <2>1, Part
  <2> HIDE DEF body
  <2> QED
    BY <2>2
<1>2. low[sum] \in Byte /\ high[sum] \in Byte /\ STX \in Byte
  <2>1. Len(r) \in 1..Len(r) /\ Len(r) - 1 \in 1..Len(r)
    BY <1>1
  <2> QED
    BY <1>1, <2>1, ParserAssumption
<1>3. ck \in Seq(Byte) /\ Len(ck) = 2 /\ ck[1] = low[sum] /\ ck[2] = high[sum]
  BY <1>2
<1>4. <<STX>> \in Seq(Byte) /\ Len(<<STX>>) = 1 /\ <<STX>>[1] = STX
  BY <1>2
<1>5. Frame(body) = (<<STX>> \o body) \o ck
  BY DEF Frame
<1> HIDE DEF body, ck
<1> DEFINE g == <<STX>> \o body
           f == g \o ck
<1>6. /\ g \in Seq(Byte) /\ Len(g) = Len(r) - 2
      /\ g[1] = STX /\ \A k \in 2..(Len(r) - 2) : g[k] = body[k - 1]
  <2>1. /\ g \in Seq(Byte) /\ Len(g) = 1 + (Len(r) - 3)
        /\ \A k \in 1..(1 + (Len(r) - 3)) : g[k] = IF k <= 1 THEN <<STX>>[k] ELSE body[k - 1]
    BY <1>1, <1>4, ConcatProperties
  <2> HIDE DEF g
  <2> QED
    BY <1>1, <1>4, <2>1
<1>7. /\ f \in Seq(Byte) /\ Len(f) = Len(r)
      /\ \A k \in 1..(Len(r) - 2) : f[k] = g[k]
      /\ f[Len(r) - 1] = ck[1] /\ f[Len(r)] = ck[2]
  <2> HIDE DEF g
  <2>1. /\ f \in Seq(Byte) /\ Len(f) = Len(g) + Len(ck)
        /\ \A k \in 1..(Len(g) + Len(ck)) :
              f[k] = IF k <= Len(g) THEN g[k] ELSE ck[k - Len(g)]
    BY <1>3, <1>6, ConcatProperties
  <2>2. /\ Len(g) + Len(ck) = Len(r)
        /\ (Len(r) - 1) - Len(g) = 1 /\ Len(r) - Len(g) = 2
        /\ Len(r) - 1 \in 1..Len(r) /\ Len(r) \in 1..Len(r)
        /\ ~(Len(r) - 1 <= Len(g)) /\ ~(Len(r) <= Len(g))
    BY <1>1, <1>3, <1>6
  <2>3. \A k \in 1..(Len(r) - 2) : k <= Len(g) /\ k \in 1..Len(r)
    BY <1>1, <1>6
  <2> HIDE DEF f
  <2> QED
    BY <2>1, <2>2, <2>3
<1> HIDE DEF f, g
<1>8. \A k \in 1..Len(r) : f[k] = r[k]
  <2> SUFFICES ASSUME NEW k \in 1..Len(r)
               PROVE  f[k] = r[k]
    OBVIOUS
  <2>1. CASE k = 1
    <3>1. 1 \in 1..(Len(r) - 2)
      BY <1>1
    <3>2. f[1] = g[1] /\ g[1] = r[1]
      BY <1>6, <1>7, <3>1
    <3> QED
      BY <2>1, <3>2
  <2>2. CASE k \in 2..(Len(r) - 2)
    <3>1. k - 1 \in 1..(Len(r) - 3) /\ (k - 1) + 1 = k
      BY <1>1, <2>2
    <3> QED
      BY <1>1, <1>6, <1>7, <2>2, <3>1
  <2>3. CASE k = Len(r) - 1
    BY <1>3, <1>7, <2>3
  <2>4. CASE k = Len(r)
    BY <1>3, <1>7, <2>4
  <2> QED
    BY <1>1, <2>1, <2>2, <2>3, <2>4
<1>9. f = r
  BY <1>7, <1>8, SeqEqual
<1> QED
  BY <1>5, <1>9 DEF body, f, g

\* The bytes since the start byte, as many as the parser has counted.
LEMMA RawLength ==
    ASSUME ParserInv
    PROVE  /\ raw \in Seq(Byte) /\ Len(raw) \in Nat
           /\ packet_idx \in Nat /\ header["len"] \in Nat /\ header["len"] <= MaxByte
           /\ parse_state \in Counted \cup {"GOT_CRC1"} =>
                 /\ Len(raw) >= 1 /\ raw[1] = STX
                 /\ Len(raw) > 1 => raw[2] = header["len"]
           /\ parse_state = "GOT_MSGID" => Len(raw) < 6 + header["len"]
           /\ parse_state = "GOT_PAYLOAD" =>
                 Len(raw) = 6 + header["len"] /\ raw[6] = header["msgid"]
           /\ parse_state = "GOT_CRC1" => Len(raw) = 7 + header["len"]
<1>1. /\ packet_idx \in Nat /\ raw \in Seq(Byte) /\ Len(raw) \in Nat
      /\ header["len"] \in Nat /\ header["len"] <= MaxByte
  BY ByteFacts DEF ParserInv, ParserTypeOK, Fields
<1>2. CASE parse_state \in Header
  BY <1>1, <1>2 DEF ParserInv, Progress, Prefix, Header
<1>3. CASE parse_state = "GOT_MSGID"
  BY <1>1, <1>3 DEF ParserInv, InsideBuffer, Progress, Prefix, Header
<1>4. CASE parse_state = "GOT_PAYLOAD"
  BY <1>1, <1>4 DEF ParserInv, InsideBuffer, Progress, Prefix, Header
<1>5. CASE parse_state = "GOT_CRC1"
  BY <1>1, <1>5 DEF ParserInv, InsideBuffer, Progress, Prefix, Header
<1> QED
  BY <1>1, <1>2, <1>3, <1>4, <1>5 DEF Counted

\* A wrong checksum byte leaves no frame, or begins one.
LEMMA RejectCrc ==
    ASSUME NEW c \in Byte, NEW sum, Reject(c, sum)
    PROVE  CrcInv'
<1>1. CASE c = STX
  BY <1>1, StartCrc DEF Reject
<1>2. CASE c # STX
  BY <1>2 DEF Reject, CrcInv, ChecksumHolds, Counted, Header
<1> QED
  BY <1>1, <1>2

\* The checksum is kept up with every byte, and looked at before a message is
\* handed out.
LEMMA CrcStep ==
    ASSUME ParserInv, CrcInv, NEW c \in Byte, parse_char(c)
    PROVE  CrcInv'
<1>1. CASE SeekStx(c)
  <2>1. CASE c = STX
    BY <1>1, <2>1, StartCrc DEF SeekStx
  <2>2. CASE c # STX
    BY <1>1, <2>2 DEF SeekStx, CrcInv, ChecksumHolds, Counted, Header
  <2> QED
    BY <2>1, <2>2
<1>2. CASE TakeLen(c) \/ TakeIds(c) \/ TakePayload(c)
  <2>1. /\ parse_state \in Counted
        /\ checksum' = crc_accumulate[checksum][c] /\ raw' = Append(raw, c)
    BY <1>2 DEF TakeLen, TakeIds, TakePayload, TakeHeader, Counted, Header
  <2>2. checksum' = crc_calculate(SubSeq(raw, 2, Len(raw)))'
    BY <2>1, CountedStep
  <2>3. parse_state' # "GOT_CRC1" /\ ~msg_received'
    BY <1>2 DEF TakeLen, TakeIds, TakePayload, TakeHeader
  <2> QED
    BY <2>2, <2>3 DEF CrcInv, ChecksumHolds
<1>3. CASE TakeCk1(c)
  <2> DEFINE sum == crc_accumulate[checksum][crc_extra[header["msgid"]]]
  <2>1. CASE c # low[sum]
    BY <1>3, <2>1, RejectCrc DEF TakeCk1
  <2>2. CASE c = low[sum]
    <3>1. /\ parse_state = "GOT_PAYLOAD" /\ parse_state' = "GOT_CRC1"
          /\ checksum' = sum /\ raw' = Append(raw, c) /\ ~msg_received'
      BY <1>3, <2>2 DEF TakeCk1
    <3>2. /\ raw \in Seq(Byte) /\ Len(raw) = 6 + header["len"] /\ header["len"] \in Nat
          /\ raw[6] = header["msgid"]
      BY <3>1, RawLength DEF Counted
    <3> DEFINE body == SubSeq(raw, 2, Len(raw))
    <3>3. body[5] = raw[6]
      BY <3>2, BehindFirst
    <3>4. checksum = crc_calculate(body)
      BY <3>1 DEF CrcInv, Counted
    <3>5. sum = Checksum(body)
      BY <3>2, <3>3, <3>4 DEF Checksum
    <3>6. Len(raw') - 1 = Len(raw) /\ raw'[Len(raw')] = c
      BY <3>1, <3>2
    <3>7. SubSeq(raw', 2, Len(raw') - 1) = body
      BY <3>1, <3>2, <3>6, BehindFirst
    <3> HIDE DEF body, sum
    <3>8. (checksum = Checksum(SubSeq(raw, 2, Len(raw) - 1)) /\ raw[Len(raw)] = low[checksum])'
      BY <2>2, <3>1, <3>5, <3>6, <3>7
    <3> QED
      BY <3>1, <3>8 DEF CrcInv, ChecksumHolds, Counted, Header
  <2> QED
    BY <2>1, <2>2
<1>4. CASE TakeCk2(c)
  <2>1. CASE c # high[checksum]
    BY <1>4, <2>1, RejectCrc DEF TakeCk2
  <2>2. CASE c = high[checksum]
    <3>1. /\ parse_state = "GOT_CRC1" /\ parse_state' = "IDLE"
          /\ raw' = Append(raw, c) /\ msg_received'
      BY <1>4, <2>2 DEF TakeCk2
    <3>2. /\ raw \in Seq(Byte) /\ Len(raw) = 7 + header["len"] /\ header["len"] \in Nat
          /\ raw[1] = STX /\ Len(raw) \in Nat
      BY <3>1, RawLength
    <3>0. Len(raw) >= 7 /\ Len(raw) \in Nat
      BY <3>2
    <3>3. /\ raw' \in Seq(Byte) /\ Len(raw') = Len(raw) + 1
          /\ raw'[Len(raw')] = c /\ raw'[Len(raw') - 1] = raw[Len(raw)]
          /\ raw'[1] = STX
      BY <3>1, <3>2
    <3>4. /\ Len(raw') >= 8 /\ Len(raw') - 2 = Len(raw) - 1
      BY <3>0, <3>3
    <3>5. SubSeq(raw', 2, Len(raw') - 2) = SubSeq(raw, 2, Len(raw) - 1)
      <4> DEFINE n == Len(raw) - 1
      <4>1. /\ 2 \in 1..(Len(raw) + 1) /\ n \in (2 - 1)..Len(raw)
            /\ 2 \in 1..(Len(raw') + 1) /\ n \in (2 - 1)..Len(raw')
        BY <3>0, <3>3
      <4>2. /\ SubSeq(raw', 2, n) \in Seq(Byte) /\ SubSeq(raw, 2, n) \in Seq(Byte)
            /\ Len(SubSeq(raw', 2, n)) = n - 2 + 1 /\ Len(SubSeq(raw, 2, n)) = n - 2 + 1
            /\ \A i \in 1..(n - 2 + 1) : /\ SubSeq(raw', 2, n)[i] = raw'[2 + i - 1]
                                         /\ SubSeq(raw, 2, n)[i] = raw[2 + i - 1]
        <5>1. ASSUME NEW s \in Seq(Byte), 2 \in 1..(Len(s) + 1), n \in (2 - 1)..Len(s)
              PROVE  /\ SubSeq(s, 2, n) \in Seq(Byte)
                     /\ Len(SubSeq(s, 2, n)) = n - 2 + 1
                     /\ \A i \in 1..(n - 2 + 1) : SubSeq(s, 2, n)[i] = s[2 + i - 1]
          BY <5>1, Part
        <5> HIDE DEF n
        <5> QED
          BY <3>2, <3>3, <4>1, <5>1
      <4>3. \A i \in 1..(n - 2 + 1) : raw'[2 + i - 1] = raw[2 + i - 1]
        BY <3>1, <3>2
      <4> HIDE DEF n
      <4>4. SubSeq(raw', 2, n) = SubSeq(raw, 2, n)
        BY <4>2, <4>3, SeqEqual
      <4> QED
        BY <3>4, <4>4 DEF n
    <3>6. checksum = Checksum(SubSeq(raw, 2, Len(raw) - 1)) /\ raw[Len(raw)] = low[checksum]
      BY <3>1 DEF CrcInv
    <3>7. raw' = Frame(SubSeq(raw', 2, Len(raw') - 2))
      <4>1. /\ checksum = Checksum(SubSeq(raw', 2, Len(raw') - 2))
            /\ raw'[Len(raw') - 1] = low[checksum] /\ raw'[Len(raw')] = high[checksum]
        BY <2>2, <3>3, <3>5, <3>6
      <4> QED
        BY <3>3, <3>4, <4>1, WholeFrame
    <3> QED
      BY <3>1, <3>7 DEF CrcInv, ChecksumHolds, Counted, Header
  <2> QED
    BY <2>1, <2>2
<1> QED
  BY <1>1, <1>2, <1>3, <1>4 DEF parse_char

\* Nothing has been counted before the first byte, and nothing is without one.
LEMMA CrcStarts == ParserInit => CrcInv
BY DEF ParserInit, CrcInv, ChecksumHolds, Counted, Header

\* Without a byte the sum stays.
LEMMA CrcIdles ==
    ASSUME CrcInv, UNCHANGED parserVars
    PROVE  CrcInv'
BY DEF parserVars, rxmsg, CrcInv, ChecksumHolds

\* A message that is handed out has the checksum its bytes should have,
\* whatever arrives and whatever the checksum is.
THEOREM HandsOutWholeFrames == ParserSpec => []ChecksumHolds
<1>1. ParserInit => ParserInv /\ CrcInv
  BY ParserStarts, CrcStarts
<1>2. ParserInv /\ CrcInv /\ [ParserNext]_parserVars => ParserInv' /\ CrcInv'
  BY ParseStep, ParserIdles, CrcStep, CrcIdles DEF ParserNext
<1>3. CrcInv => ChecksumHolds
  BY DEF CrcInv
<1> QED
  BY <1>1, <1>2, <1>3, PTL DEF ParserSpec

-----------------------------------------------------------------------------
(* The line.                                                               *)

\* The parser waits for a start byte.
Seeking == parse_state \in {"UNINIT", "IDLE"}

\* The bytes of the frame the vehicle has sent.
sent == Len(cur) - Len(tx)

\* The parser has, of the frame that is being sent, what has been sent.
Along == /\ ~Seeking
         /\ Len(raw) = sent /\ Len(tx) > 0
         /\ \A k \in 1..Len(raw) : raw[k] = cur[k]

\* It has handed it out.
Whole == tx = <<>> /\ Seeking /\ msg_received /\ raw = cur

\* Where parser and line are.  A frame the parser has begun by mistake after a
\* fault is longer than the line has been quiet.
LineInv ==
    /\ cur = <<>> \/ \E body \in Bodies : cur = Frame(body)
    /\ tx \in Seq(Byte) /\ Len(tx) <= Len(cur)
    /\ \A k \in 1..Len(tx) : tx[k] = cur[sent + k]
    /\ quiet \in 0..Settle
    /\ settled \in BOOLEAN
    /\ settled => (Seeking /\ Len(tx) = Len(cur)) \/ Along \/ Whole
    /\ ~settled => Seeking \/ Along \/ Len(raw) > quiet

\* What a frame is made of.
LEMMA FrameFacts ==
    ASSUME NEW body \in Bodies
    PROVE  LET f == Frame(body) IN
           /\ body \in Seq(Byte) /\ body[1] \in Nat /\ Len(body) = 5 + body[1]
           /\ Checksum(body) \in Checksums
           /\ f \in Seq(Byte) /\ Len(f) = 8 + body[1]
           /\ f[1] = STX
           /\ \A k \in 1..Len(body) : f[k + 1] = body[k]
           /\ f[7 + body[1]] = low[Checksum(body)]
           /\ f[8 + body[1]] = high[Checksum(body)]
<1> DEFINE sum == Checksum(body)
           ck == <<low[sum], high[sum]>>
           g == <<STX>> \o body
           f == g \o ck
           len == body[1]
<1>1. /\ body \in Seq(Byte) /\ len \in Nat /\ Len(body) = 5 + len
      /\ body[5] \in Byte
  BY ReceiveAssumption, ByteFacts
<1>2. sum \in Checksums
  <2>1. crc_calculate(body) \in Checksums
    BY <1>1, CrcAppend
  <2> QED
    BY <1>1, <2>1, ParserAssumption DEF Checksum
<1>3. low[sum] \in Byte /\ high[sum] \in Byte /\ STX \in Byte
  BY <1>2, ParserAssumption
<1> HIDE DEF sum
<1>4. /\ ck \in Seq(Byte) /\ Len(ck) = 2 /\ ck[1] = low[sum] /\ ck[2] = high[sum]
      /\ <<STX>> \in Seq(Byte) /\ Len(<<STX>>) = 1 /\ <<STX>>[1] = STX
  BY <1>3
<1> HIDE DEF ck
<1>5. /\ g \in Seq(Byte) /\ Len(g) = 1 + Len(body)
      /\ \A k \in 1..(1 + Len(body)) : g[k] = IF k <= 1 THEN <<STX>>[k] ELSE body[k - 1]
  BY <1>1, <1>4, ConcatProperties
<1> HIDE DEF g
<1>6. /\ f \in Seq(Byte) /\ Len(f) = Len(g) + 2
      /\ \A k \in 1..(Len(g) + 2) : f[k] = IF k <= Len(g) THEN g[k] ELSE ck[k - Len(g)]
  <2>1. /\ f \in Seq(Byte) /\ Len(f) = Len(g) + Len(ck)
        /\ \A k \in 1..(Len(g) + Len(ck)) :
              f[k] = IF k <= Len(g) THEN g[k] ELSE ck[k - Len(g)]
    BY <1>4, <1>5, ConcatProperties
  <2> HIDE DEF f
  <2> QED
    BY <1>4, <2>1
<1> HIDE DEF f, len
<1>7. Len(g) = 6 + len /\ Len(f) = 8 + len
  BY <1>1, <1>5, <1>6
<1>8. f[1] = STX
  <2>1. 1 \in 1..(Len(g) + 2) /\ 1 <= Len(g) /\ 1 \in 1..(1 + Len(body))
    BY <1>1, <1>7
  <2> QED
    BY <1>4, <1>5, <1>6, <2>1
<1>9. \A k \in 1..Len(body) : f[k + 1] = body[k]
  <2> SUFFICES ASSUME NEW k \in 1..Len(body)
               PROVE  f[k + 1] = body[k]
    OBVIOUS
  <2>1. /\ k + 1 \in 1..(1 + Len(body)) /\ k + 1 \in 1..(Len(g) + 2)
        /\ k + 1 <= Len(g) /\ ~(k + 1 <= 1) /\ (k + 1) - 1 = k
    BY <1>1, <1>7
  <2> QED
    BY <1>5, <1>6, <2>1
<1>10. f[7 + len] = ck[1] /\ f[8 + len] = ck[2]
  <2>1. /\ 7 + len \in 1..(Len(g) + 2) /\ 8 + len \in 1..(Len(g) + 2)
        /\ ~(7 + len <= Len(g)) /\ ~(8 + len <= Len(g))
        /\ (7 + len) - Len(g) = 1 /\ (8 + len) - Len(g) = 2
    BY <1>1, <1>7
  <2> QED
    BY <1>6, <2>1
<1> QED
  BY <1>1, <1>2, <1>4, <1>6, <1>7, <1>8, <1>9, <1>10 DEF Frame, f, g, ck, sum, len

\* Whatever arrives: it is appended, or a frame begins, or the parser waits for one.
LEMMA AnyByte ==
    ASSUME NEW c \in Byte, parse_char(c)
    PROVE  \/ ~Seeking /\ raw' = Append(raw, c)
           \/ c = STX /\ raw' = <<STX>> /\ ~Seeking'
           \/ c # STX /\ Seeking'
<1>1. CASE SeekStx(c)
  BY <1>1 DEF SeekStx, Start, Seeking
<1>2. CASE TakeLen(c) \/ TakeIds(c) \/ TakePayload(c)
  BY <1>2 DEF TakeLen, TakeIds, TakePayload, TakeHeader, Seeking
<1>3. CASE TakeCk1(c) \/ TakeCk2(c)
  BY <1>3 DEF TakeCk1, TakeCk2, Reject, Start, Seeking
<1> QED
  BY <1>1, <1>2, <1>3 DEF parse_char

\* A byte of the frame the parser is in brings it one byte further, the last
\* one to its end.
LEMMA AlongByte ==
    ASSUME ParserInv, CrcInv, NEW body \in Bodies, NEW f, f = Frame(body),
           ~Seeking, Len(raw) < Len(f), \A k \in 1..Len(raw) : raw[k] = f[k],
           NEW c \in Byte, c = f[Len(raw) + 1], parse_char(c)
    PROVE  /\ raw' = Append(raw, c)
           /\ Len(raw) + 1 < Len(f) => ~Seeking'
           /\ Len(raw) + 1 = Len(f) => Seeking' /\ msg_received'
<1> DEFINE len == body[1]
<1>1. /\ body \in Seq(Byte) /\ len \in Nat /\ Len(body) = 5 + len
      /\ f \in Seq(Byte) /\ Len(f) = 8 + len
      /\ \A k \in 1..Len(body) : f[k + 1] = body[k]
      /\ f[7 + len] = low[Checksum(body)] /\ f[8 + len] = high[Checksum(body)]
  BY FrameFacts
<1>2. f[2] = len /\ f[6] = body[5]
  <2>1. /\ 1 \in 1..Len(body) /\ 5 \in 1..Len(body)
        /\ f[1 + 1] = body[1] /\ f[5 + 1] = body[5]
    BY <1>1
  <2> QED
    BY <2>1
<1> HIDE DEF len
<1>3. raw \in Seq(Byte) /\ Len(raw) \in Nat
  BY RawLength
<1>4. CASE parse_state \in Header
  <2>1. Len(raw) <= 5
    BY <1>4 DEF ParserInv, Progress, Prefix, Header
  <2>2. raw' = Append(raw, c) /\ ~Seeking'
    BY <1>4 DEF parse_char, SeekStx, TakeLen, TakeIds, TakePayload, TakeCk1, TakeCk2,
       TakeHeader, Header, Seeking
  <2> QED
    BY <1>1, <1>3, <2>1, <2>2
<1>5. CASE parse_state = "GOT_MSGID"
  <2>1. Len(raw) >= 6 /\ Len(raw) < 6 + header["len"] /\ raw[2] = header["len"]
    <3>1. packet_idx \in Nat
      BY RawLength
    <3>2. Len(raw) >= 6
      BY <1>5, <3>1 DEF ParserInv, Progress, Prefix
    <3> QED
      BY <1>3, <1>5, <3>2, RawLength DEF Counted
  <2>2. header["len"] = len
    BY <1>2, <1>3, <2>1
  <2>3. raw' = Append(raw, c) /\ ~Seeking'
    BY <1>5 DEF parse_char, SeekStx, TakeLen, TakeIds, TakePayload, TakeCk1, TakeCk2,
       TakeHeader, Seeking
  <2> QED
    BY <1>1, <1>3, <2>1, <2>2, <2>3
<1>6. ASSUME NEW n \in 6..Len(raw), n = 6 + len
      PROVE  SubSeq(raw, 2, n) = body
  <2>1. /\ SubSeq(raw, 2, n) \in Seq(Byte)
        /\ Len(SubSeq(raw, 2, n)) = n - 2 + 1
        /\ \A k \in 1..(n - 2 + 1) : SubSeq(raw, 2, n)[k] = raw[2 + k - 1]
    <3>1. 2 \in 1..(Len(raw) + 1) /\ n \in (2 - 1)..Len(raw)
      BY <1>3, <1>6
    <3> QED
      BY <1>3, <3>1, Part
  <2>2. \A k \in 1..Len(body) : raw[2 + k - 1] = body[k]
    <3> SUFFICES ASSUME NEW k \in 1..Len(body)
                 PROVE  raw[2 + k - 1] = body[k]
      OBVIOUS
    <3>1. 2 + k - 1 = k + 1 /\ k + 1 \in 1..Len(raw)
      BY <1>1, <1>3, <1>6
    <3> QED
      BY <1>1, <3>1
  <2>3. n - 2 + 1 = Len(body)
    BY <1>1, <1>6
  <2> QED
    BY <1>1, <2>1, <2>2, <2>3, SeqEqual
<1>7. CASE parse_state = "GOT_PAYLOAD"
  <2>1. Len(raw) = 6 + header["len"] /\ header["len"] \in Nat
    BY <1>7, RawLength
  <2>2. raw[2] = header["len"] /\ raw[6] = header["msgid"]
    BY <1>7, <2>1, RawLength DEF Counted
  <2>3. header["len"] = len /\ header["msgid"] = body[5]
    BY <1>2, <1>3, <2>1, <2>2
  <2>4. SubSeq(raw, 2, Len(raw)) = body
    BY <1>1, <1>3, <1>6, <2>1, <2>3
  <2>5. checksum = crc_calculate(body)
    BY <1>7, <2>4 DEF CrcInv, Counted
  <2>6. c = low[crc_accumulate[checksum][crc_extra[header["msgid"]]]]
    BY <1>1, <2>1, <2>3, <2>5 DEF Checksum
  <2>7. raw' = Append(raw, c) /\ ~Seeking'
    BY <1>7, <2>6 DEF parse_char, SeekStx, TakeLen, TakeIds, TakePayload, TakeCk1, TakeCk2,
       TakeHeader, Seeking
  <2> QED
    BY <1>1, <2>1, <2>3, <2>7
<1>8. CASE parse_state = "GOT_CRC1"
  <2>1. Len(raw) = 7 + header["len"] /\ header["len"] \in Nat
    BY <1>8, RawLength
  <2>2. raw[2] = header["len"]
    BY <1>8, <2>1, RawLength
  <2>3. header["len"] = len
    BY <1>2, <1>3, <2>1, <2>2
  <2>4. SubSeq(raw, 2, Len(raw) - 1) = body
    BY <1>1, <1>3, <1>6, <2>1, <2>3
  <2>5. checksum = Checksum(body)
    BY <1>8, <2>4 DEF CrcInv
  <2>6. c = high[checksum]
    BY <1>1, <2>1, <2>3, <2>5
  <2>7. raw' = Append(raw, c) /\ Seeking' /\ msg_received'
    BY <1>8, <2>6 DEF parse_char, SeekStx, TakeLen, TakeIds, TakePayload, TakeCk1, TakeCk2,
       TakeHeader, Seeking
  <2> QED
    BY <1>1, <2>1, <2>3, <2>7
<1>9. parse_state \in Header \cup {"GOT_MSGID", "GOT_PAYLOAD", "GOT_CRC1"}
  BY DEF ParserInv, ParserTypeOK, Header, Seeking
<1> QED
  BY <1>4, <1>5, <1>7, <1>8, <1>9

\* A frame that is not at its end is at most so long.
LEMMA FrameBound ==
    ASSUME ParserInv, ~Seeking
    PROVE  1 <= Len(raw) /\ Len(raw) <= Settle
<1>1. /\ packet_idx \in Nat /\ header["len"] \in Nat /\ header["len"] <= MaxByte
      /\ Len(raw) \in Nat /\ MaxByte \in Nat
  BY RawLength, ByteFacts
<1>2. parse_state \in Header \cup {"GOT_MSGID", "GOT_PAYLOAD", "GOT_CRC1"}
  BY DEF ParserInv, ParserTypeOK, Header, Seeking
<1>3. CASE parse_state \in Header
  <2>1. Len(raw) \in {1, 2, 3, 4, 5}
    BY <1>3 DEF ParserInv, Progress, Prefix, Header
  <2>2. \A m \in {1, 2, 3, 4, 5} : 1 <= m /\ m <= MaxByte + 7
    BY ByteFacts
  <2> QED
    BY <2>1, <2>2 DEF Settle
<1>4. CASE parse_state = "GOT_MSGID"
  <2>1. Len(raw) = 6 + packet_idx /\ Len(raw) < 6 + header["len"]
    BY <1>4, RawLength DEF ParserInv, Progress, Prefix
  <2> QED
    BY <1>1, <2>1 DEF Settle
<1>5. CASE parse_state = "GOT_PAYLOAD"
  <2>1. Len(raw) = 6 + header["len"]
    BY <1>5, RawLength
  <2> QED
    BY <1>1, <2>1 DEF Settle
<1>6. CASE parse_state = "GOT_CRC1"
  <2>1. Len(raw) = 7 + header["len"]
    BY <1>6, RawLength
  <2> QED
    BY <1>1, <2>1 DEF Settle
<1> QED
  BY <1>2, <1>3, <1>4, <1>5, <1>6

\* The lengths of frame and rest.
LEMMA LineFacts ==
    ASSUME LineInv
    PROVE  /\ cur \in Seq(Byte) /\ Len(cur) \in Nat /\ Len(tx) \in Nat
           /\ sent \in Nat /\ sent = Len(cur) - Len(tx) /\ Settle \in Nat
<1>1. cur \in Seq(Byte)
  <2>1. CASE cur = <<>>
    BY <2>1
  <2>2. ASSUME NEW body \in Bodies, cur = Frame(body)
        PROVE  cur \in Seq(Byte)
    BY <2>2, FrameFacts
  <2> QED
    BY <2>1, <2>2 DEF LineInv
<1>2. tx \in Seq(Byte) /\ Len(tx) <= Len(cur)
  BY DEF LineInv
<1>3. Settle \in Nat
  BY ByteFacts DEF Settle
<1>4. Len(cur) \in Nat /\ Len(tx) \in Nat
  BY <1>1, <1>2
<1> QED
  BY <1>1, <1>2, <1>3, <1>4 DEF sent

\* Before the next frame a parser that is not waiting has lasted longer than
\* the line was quiet.
LEMMA Settled ==
    ASSUME ParserInv, LineInv, tx = <<>>, settled \/ quiet = Settle
    PROVE  Seeking
<1>1. Len(tx) = 0 /\ ~Along
  BY DEF Along
<1>2. CASE settled
  BY <1>1, <1>2 DEF LineInv, Whole
<1>3. CASE ~settled
  <2>1. ~Seeking => Len(raw) > Settle /\ Len(raw) <= Settle /\ Len(raw) \in Nat /\ Settle \in Nat
    BY <1>1, <1>3, FrameBound, LineFacts, RawLength DEF LineInv
  <2> QED
    BY <2>1
<1> QED
  BY <1>2, <1>3 DEF LineInv

\* A frame begins.
LEMMA LineSend ==
    ASSUME ParserInv, LineInv, SendFrame
    PROVE  LineInv'
<1>1. PICK body \in Bodies : cur' = Frame(body)
  BY DEF SendFrame
<1>2. /\ cur' \in Seq(Byte) /\ Len(cur') = 8 + body[1] /\ body[1] \in Nat
  BY <1>1, FrameFacts
<1>3. /\ tx' = cur' /\ settled' = (settled \/ quiet = Settle) /\ quiet' = quiet
      /\ UNCHANGED <<parse_state, raw, msg_received>> /\ tx = <<>>
  BY DEF SendFrame, parserVars
<1>4. sent' = 0 /\ Len(tx') = Len(cur')
  BY <1>2, <1>3 DEF sent
<1>5. \A k \in 1..Len(tx') : tx'[k] = cur'[sent' + k]
  <2>1. \A k \in 1..Len(tx') : 0 + k = k
    BY <1>2, <1>4
  <2> QED
    BY <1>3, <1>4, <2>1
<1>6. settled' => Seeking'
  BY <1>3, Settled DEF Seeking
<1>7. ~settled' => Seeking' \/ Len(raw') > quiet'
  <2>1. Len(tx) = 0
    BY <1>3
  <2> QED
    BY <1>3, <2>1 DEF LineInv, Along, Seeking
<1>8. quiet' \in 0..Settle /\ settled' \in BOOLEAN
  BY <1>3 DEF LineInv
<1> QED
  BY <1>1, <1>2, <1>3, <1>4, <1>5, <1>6, <1>7, <1>8 DEF LineInv

\* Bytes are lost.
LEMMA LineLoss ==
    ASSUME ParserInv, LineInv, LoseBytes
    PROVE  LineInv'
<1>1. PICK n \in 1..Len(tx) : tx' = SubSeq(tx, n + 1, Len(tx))
  BY DEF LoseBytes
<1>2. /\ cur' = cur /\ ~settled' /\ settled' \in BOOLEAN /\ quiet' = 0
      /\ UNCHANGED <<parse_state, raw>>
  BY DEF LoseBytes, Fault, parserVars
<1>3. /\ tx \in Seq(Byte) /\ Len(tx) \in Nat /\ Len(cur) \in Nat /\ Len(tx) <= Len(cur)
      /\ sent = Len(cur) - Len(tx) /\ Settle \in Nat
  BY LineFacts DEF LineInv
<1>4. /\ tx' \in Seq(Byte) /\ Len(tx') = Len(tx) - n
      /\ \A k \in 1..(Len(tx) - n) : tx'[k] = tx[n + k]
  <2>1. n + 1 \in 1..(Len(tx) + 1) /\ Len(tx) \in ((n + 1) - 1)..Len(tx)
    BY <1>3
  <2>2. /\ tx' \in Seq(Byte) /\ Len(tx') = Len(tx) - (n + 1) + 1
        /\ \A k \in 1..(Len(tx) - (n + 1) + 1) : tx'[k] = tx[(n + 1) + k - 1]
    BY <1>1, <1>3, <2>1, Part
  <2>3. /\ Len(tx) - (n + 1) + 1 = Len(tx) - n
        /\ \A k \in Int : (n + 1) + k - 1 = n + k
    BY <1>3
  <2> QED
    BY <2>2, <2>3
<1>5. \A k \in 1..Len(tx') : tx'[k] = cur'[sent' + k]
  <2> SUFFICES ASSUME NEW k \in 1..Len(tx')
               PROVE  tx'[k] = cur'[sent' + k]
    OBVIOUS
  <2>1. /\ n + k \in 1..Len(tx) /\ k \in 1..(Len(tx) - n)
        /\ sent' = sent + n /\ sent + (n + k) = sent' + k
    BY <1>2, <1>3, <1>4 DEF sent
  <2>2. tx[n + k] = cur[sent + (n + k)]
    BY <2>1 DEF LineInv
  <2> QED
    BY <1>2, <1>4, <2>1, <2>2
<1>6. Seeking' \/ Len(raw') > quiet'
  <2>1. ~Seeking => 1 <= Len(raw) /\ Len(raw) \in Nat
    BY FrameBound, RawLength
  <2> QED
    BY <1>2, <2>1 DEF Seeking
<1> QED
  BY <1>2, <1>3, <1>4, <1>5, <1>6 DEF LineInv

\* A byte comes in between.
LEMMA LineNoise ==
    ASSUME ParserInv, LineInv, ReceiveNoise
    PROVE  LineInv'
<1>1. /\ UNCHANGED <<cur, tx>> /\ ~settled' /\ settled' \in BOOLEAN /\ quiet' = 0
  BY DEF ReceiveNoise, Fault
<1>2. Settle \in Nat /\ sent' = sent
  BY <1>1, LineFacts DEF sent
<1>3. Seeking' \/ Len(raw') > quiet'
  <2>1. PICK c \in Byte : parse_char(c)
    BY DEF ReceiveNoise
  <2>2. Seeking' \/ raw' = Append(raw, c) \/ raw' = <<STX>>
    BY <2>1, AnyByte
  <2>3. raw \in Seq(Byte)
    BY RawLength
  <2>4. Len(Append(raw, c)) > 0 /\ Len(<<STX>>) > 0
    BY <2>3
  <2> QED
    BY <1>1, <2>2, <2>4
<1> QED
  BY <1>1, <1>2, <1>3 DEF LineInv

\* What the next byte of the frame leaves of the line.
LEMMA NextByte ==
    ASSUME ParserInv, LineInv, ReceiveByte
    PROVE  /\ cur' = cur /\ settled' = settled
           /\ sent \in Nat /\ sent' = sent + 1 /\ sent' <= Len(cur) /\ Len(cur) \in Nat
           /\ tx' \in Seq(Byte) /\ Len(tx') = Len(cur) - sent'
           /\ \A k \in 1..Len(tx') : tx'[k] = cur'[sent' + k]
           /\ cur[sent + 1] \in Byte /\ parse_char(cur[sent + 1])
           /\ \E body \in Bodies : cur = Frame(body)
           /\ quiet' \in 0..Settle
           /\ (\E k \in 2..Len(cur) : cur[k] = STX) => quiet' = 0
           /\ quiet' <= quiet + 1 /\ quiet \in Nat
<1>1. /\ tx # <<>> /\ tx' = Tail(tx) /\ UNCHANGED <<cur, settled>> /\ CountQuiet
      /\ \E c \in Byte : c = Head(tx) /\ parse_char(c)
  BY DEF ReceiveByte
<1>2. /\ tx \in Seq(Byte) /\ Len(tx) \in Nat /\ Len(cur) \in Nat /\ Len(tx) <= Len(cur)
      /\ sent = Len(cur) - Len(tx) /\ sent \in Nat /\ Settle \in Nat
      /\ \A k \in 1..Len(tx) : tx[k] = cur[sent + k]
  BY LineFacts DEF LineInv
<1>3. /\ Len(tx) > 0 /\ tx' \in Seq(Byte) /\ Len(tx') = Len(tx) - 1
      /\ Head(tx) = tx[1] /\ \A k \in 1..(Len(tx) - 1) : tx'[k] = tx[k + 1]
  <2>1. Len(tx) # 0
    BY <1>1, <1>2, EmptySeq
  <2> QED
    BY <1>1, <1>2, <2>1
<1>4. sent' = sent + 1 /\ Len(tx') = Len(cur) - sent' /\ sent' <= Len(cur)
  BY <1>1, <1>2, <1>3 DEF sent
<1>5. \A k \in 1..Len(tx') : tx'[k] = cur'[sent' + k]
  <2> SUFFICES ASSUME NEW k \in 1..Len(tx')
               PROVE  tx'[k] = cur'[sent' + k]
    OBVIOUS
  <2>1. k \in 1..(Len(tx) - 1) /\ k + 1 \in 1..Len(tx) /\ sent + (k + 1) = sent' + k
    BY <1>2, <1>3, <1>4
  <2> QED
    BY <1>1, <1>2, <1>3, <2>1
<1>6. cur[sent + 1] \in Byte /\ parse_char(cur[sent + 1])
  <2>1. 1 \in 1..Len(tx) /\ tx[1] = cur[sent + 1]
    BY <1>2, <1>3
  <2> QED
    BY <1>1, <1>3, <2>1
<1>7. \E body \in Bodies : cur = Frame(body)
  <2>1. cur # <<>>
    BY <1>2, <1>3
  <2> QED
    BY <2>1 DEF LineInv
<1>8. /\ quiet' \in 0..Settle /\ quiet' <= quiet + 1 /\ quiet \in Nat
      /\ (\E k \in 2..Len(cur) : cur[k] = STX) => quiet' = 0
  <2>1. quiet \in 0..Settle
    BY DEF LineInv
  <2> QED
    BY <1>1, <1>2, <2>1 DEF CountQuiet
<1> QED
  BY <1>1, <1>2, <1>3, <1>4, <1>5, <1>6, <1>7, <1>8

\* The next byte of the frame.
LEMMA LineByte ==
    ASSUME ParserInv, CrcInv, LineInv, ReceiveByte
    PROVE  LineInv'
<1> DEFINE n == sent
           c == cur[n + 1]
<1>1. /\ cur' = cur /\ settled' = settled
      /\ n \in Nat /\ sent' = n + 1 /\ n + 1 <= Len(cur) /\ Len(cur) \in Nat
      /\ tx' \in Seq(Byte) /\ Len(tx') = Len(cur) - (n + 1)
      /\ \A k \in 1..Len(tx') : tx'[k] = cur'[sent' + k]
      /\ c \in Byte /\ parse_char(c)
      /\ quiet' \in 0..Settle
      /\ (\E k \in 2..Len(cur) : cur[k] = STX) => quiet' = 0
      /\ quiet' <= quiet + 1 /\ quiet \in Nat
  BY NextByte
<1>2. PICK body \in Bodies : cur = Frame(body)
  BY NextByte
<1>3. cur \in Seq(Byte) /\ Len(cur) >= 8 /\ cur[1] = STX
  BY <1>2, FrameFacts
<1> HIDE DEF n, c
<1>4. raw \in Seq(Byte) /\ Len(raw) \in Nat
  BY RawLength
<1>5. /\ cur' = <<>> \/ \E b \in Bodies : cur' = Frame(b)
      /\ tx' \in Seq(Byte) /\ Len(tx') <= Len(cur') /\ settled' \in BOOLEAN
  BY <1>1, <1>2 DEF LineInv
<1> SUFFICES /\ settled' => (Seeking' /\ Len(tx') = Len(cur')) \/ Along' \/ Whole'
             /\ ~settled' => Seeking' \/ Along' \/ Len(raw') > quiet'
  BY <1>1, <1>5 DEF LineInv
\* A start byte at its place begins the frame that is sent.
<1>6. ASSUME n = 0, raw' = <<STX>>, ~Seeking'
      PROVE  Along'
  <2>1. Len(raw') = 1 /\ raw'[1] = STX
    BY <1>6
  <2> QED
    BY <1>1, <1>3, <1>6, <2>1 DEF Along
<1>7. ASSUME Along
      PROVE  Along' \/ Whole'
  <2>1. Len(raw) = n /\ ~Seeking /\ \A k \in 1..Len(raw) : raw[k] = cur[k]
    BY <1>7 DEF Along, n
  <2>2. /\ raw' = Append(raw, c)
        /\ n + 1 < Len(cur) => ~Seeking'
        /\ n + 1 = Len(cur) => Seeking' /\ msg_received'
    <3>1. Len(raw) < Len(cur) /\ c = cur[Len(raw) + 1]
      BY <1>1, <2>1 DEF c
    <3> QED
      BY <1>1, <1>2, <2>1, <3>1, AlongByte
  <2>3. /\ raw' \in Seq(Byte) /\ Len(raw') = n + 1
        /\ \A k \in 1..(n + 1) : raw'[k] = cur'[k]
    <3>1. /\ raw' \in Seq(Byte) /\ Len(raw') = n + 1
          /\ raw'[n + 1] = c /\ \A k \in 1..n : raw'[k] = raw[k]
      BY <1>1, <1>4, <2>1, <2>2
    <3>2. ASSUME NEW k \in 1..(n + 1)
          PROVE  raw'[k] = cur'[k]
      <4>1. CASE k = n + 1
        BY <1>1, <3>1, <4>1 DEF c
      <4>2. CASE k \in 1..n
        BY <1>1, <2>1, <3>1, <4>2
      <4> QED
        BY <1>1, <4>1, <4>2
    <3> QED
      BY <3>1, <3>2
  <2>4. CASE n + 1 < Len(cur)
    BY <1>1, <2>2, <2>3, <2>4 DEF Along
  <2>5. CASE n + 1 = Len(cur)
    <3>1. raw' = cur'
      BY <1>1, <1>3, <2>3, <2>5, SeqEqual
    <3>2. tx' = <<>>
      BY <1>1, <2>5, EmptySeq
    <3> QED
      BY <2>2, <2>5, <3>1, <3>2 DEF Whole
  <2> QED
    BY <1>1, <2>4, <2>5
<1>8. Whole' => Seeking'
  BY DEF Whole
<1>9. CASE settled
  <2>1. ASSUME Seeking, Len(tx) = Len(cur)
        PROVE  Along'
    <3>1. n = 0 /\ c = STX
      BY <1>1, <1>3, <2>1, LineFacts DEF n, c
    <3>2. raw' = <<STX>> /\ ~Seeking'
      BY <1>1, <2>1, <3>1, AnyByte
    <3> QED
      BY <1>6, <3>1, <3>2
  <2>2. ~Whole
    <3>1. tx # <<>>
      BY DEF ReceiveByte
    <3> QED
      BY <3>1 DEF Whole
  <2> QED
    BY <1>1, <1>7, <1>9, <2>1, <2>2 DEF LineInv
\* Elsewhere it begins one by mistake, and the line does not count as quiet.
<1>10. CASE ~settled
  <2>1. ASSUME c = STX, raw' = <<STX>>, ~Seeking'
        PROVE  Along' \/ Len(raw') > quiet'
    <3>1. CASE n = 0
      BY <1>6, <2>1, <3>1
    <3>2. CASE n # 0
      <4>1. n + 1 \in 2..Len(cur) /\ cur[n + 1] = STX
        BY <1>1, <2>1, <3>2 DEF c
      <4>2. quiet' = 0
        BY <1>1, <4>1
      <4>3. Len(<<STX>>) > 0
        OBVIOUS
      <4> QED
        BY <2>1, <4>2, <4>3
    <3> QED
      BY <3>1, <3>2
  <2>2. ASSUME Len(raw) > quiet, raw' = Append(raw, c)
        PROVE  Len(raw') > quiet'
    <3>1. Len(raw') = Len(raw) + 1
      BY <1>1, <1>4, <2>2
    <3> QED
      BY <1>1, <1>4, <2>2, <3>1
  <2>3. \/ ~Seeking /\ raw' = Append(raw, c)
        \/ c = STX /\ raw' = <<STX>> /\ ~Seeking'
        \/ Seeking'
    BY <1>1, AnyByte
  <2>4. Seeking \/ Along \/ Len(raw) > quiet
    BY <1>10 DEF LineInv
  <2> QED
    BY <1>1, <1>7, <1>8, <1>10, <2>1, <2>2, <2>3, <2>4
<1> QED
  BY <1>9, <1>10 DEF LineInv

\* The rest of the receiver leaves the line alone.
LEMMA LineRests ==
    ASSUME LineInv,
           \/ UseList \/ StartReceiver \/ InvokeHandlers \/ CallHandler
           \/ UpdateTargetState \/ UNCHANGED receiveVars
    PROVE  LineInv'
<1>1. UNCHANGED <<parserVars, line>>
  BY DEF UseList, StartReceiver, InvokeHandlers, CallHandler, UpdateTargetState, receiveVars
<1> QED
  BY <1>1 DEF parserVars, line, LineInv, Along, Whole, Seeking, sent

\* Nothing has been sent.
LEMMA LineStarts == ReceiveInit => LineInv
<1> SUFFICES ASSUME ReceiveInit
             PROVE  LineInv
  OBVIOUS
<1>1. /\ cur = <<>> /\ tx = <<>> /\ quiet = Settle /\ settled = TRUE
      /\ parse_state = "UNINIT"
  BY DEF ReceiveInit, ParserInit
<1>2. <<>> \in Seq(Byte) /\ Len(<<>>) = 0 /\ Settle \in Nat
  BY ByteFacts DEF Settle
<1> QED
  BY <1>1, <1>2 DEF LineInv, Seeking

\* A frame that begins on a settled line is received, byte for byte: any
\* frames, any checksum and any faults before.
THEOREM SettledLineInStep == ReceiveSpec => []InStep
<1> DEFINE I == ParserInv /\ CrcInv /\ LineInv
<1>1. ReceiveInit => I
  BY ParserStarts, CrcStarts, LineStarts DEF ReceiveInit
<1>2. I /\ [ReceiveNext]_receiveVars => I'
  <2> SUFFICES ASSUME I, [ReceiveNext]_receiveVars
               PROVE  I'
    OBVIOUS
  <2>1. ParserInv' /\ CrcInv'
    <3>1. CASE ReceiveByte \/ ReceiveNoise
      BY <3>1, ParseStep, CrcStep DEF ReceiveByte, ReceiveNoise
    <3>2. CASE ~(ReceiveByte \/ ReceiveNoise)
      <4>1. UNCHANGED parserVars
        BY <3>2 DEF ReceiveNext, UseList, StartReceiver, SendFrame, LoseBytes,
           InvokeHandlers, CallHandler, UpdateTargetState, Crashed, receiveVars
      <4> QED
        BY <4>1, ParserIdles, CrcIdles
    <3> QED
      BY <3>1, <3>2
  <2>2. LineInv'
    BY LineByte, LineNoise, LineLoss, LineSend, LineRests DEF ReceiveNext, Crashed
  <2> QED
    BY <2>1, <2>2
<1>3. I => InStep
  <2> SUFFICES ASSUME I, settled, Len(tx) < Len(cur)
               PROVE  /\ raw = SubSeq(cur, 1, Len(cur) - Len(tx))
                      /\ msg_received <=> tx = <<>>
    BY DEF InStep
  <2>1. /\ cur \in Seq(Byte) /\ Len(cur) \in Nat /\ Len(tx) \in Nat
        /\ sent = Len(cur) - Len(tx)
        /\ raw \in Seq(Byte) /\ Len(raw) \in Nat
    BY LineFacts, RawLength
  <2>2. Along \/ Whole
    BY <2>1 DEF LineInv
  <2>3. CASE Along
    <3>1. /\ Len(raw) = sent /\ Len(tx) > 0 /\ ~Seeking
          /\ \A k \in 1..Len(raw) : raw[k] = cur[k]
      BY <2>3 DEF Along
    <3>2. raw = SubSeq(cur, 1, sent)
      <4>1. 1 \in 1..(Len(cur) + 1) /\ sent \in (1 - 1)..Len(cur)
        BY <2>1, <3>1
      <4>2. /\ SubSeq(cur, 1, sent) \in Seq(Byte)
            /\ Len(SubSeq(cur, 1, sent)) = sent - 1 + 1
            /\ \A k \in 1..(sent - 1 + 1) : SubSeq(cur, 1, sent)[k] = cur[1 + k - 1]
        BY <2>1, <4>1, Part
      <4>3. sent - 1 + 1 = Len(raw) /\ \A k \in Int : 1 + k - 1 = k
        BY <2>1, <3>1
      <4> QED
        BY <2>1, <3>1, <4>2, <4>3, SeqEqual
    <3>3. ~msg_received /\ tx # <<>>
      BY <2>1, <3>1 DEF ParserInv, Progress, Seeking
    <3> QED
      BY <2>1, <3>2, <3>3
  <2>4. CASE Whole
    <3>1. SubSeq(cur, 1, Len(cur)) = cur /\ Len(cur) - Len(tx) = Len(cur)
      BY <2>1, <2>4, SubSeqFull DEF Whole
    <3> QED
      BY <2>4, <3>1 DEF Whole
  <2> QED
    BY <2>2, <2>3, <2>4
<1> QED
  BY <1>1, <1>2, <1>3, PTL DEF ReceiveSpec

-----------------------------------------------------------------------------
(* The receiver and its handlers.                                          *)

\* What main() has registered before it starts the receiver.
MavList == [i \in Index |-> IF i = 1 THEN "forward" ELSE IF i = 2 THEN "log" ELSE NULL]

LoggedToo == header["msgid"] \in LoggedIds /\ proc = "up" => logged.msg = raw

\* Where the receiver is in the list, and what has been done up to there.
Handled ==
    /\ rpc \in {"unborn", "recv", "invoke", "handlers", "update"}
    /\ rpc # "unborn" => handler = MavList
    /\ rpc \in {"recv", "invoke", "update"} => at = 0
    /\ rpc \in {"invoke", "handlers", "update"} => msg_received
    /\ rpc = "handlers" => /\ at \in Index
                           /\ at > 1 => forwarded = raw
                           /\ at > 2 => LoggedToo
    /\ rpc = "update" => forwarded = raw /\ LoggedToo

ReceiverInv == /\ ParserInv
               /\ Handled
               /\ DOMAIN target = 0..(HbLen - 1)
               /\ TargetIsLastHeartbeat

\* A handler is none of the others, and none is NULL.
LEMMA ListFacts ==
    /\ Slots \in Nat /\ Slots >= 2 /\ Index = 1..Slots
    /\ MavList[1] = "forward" /\ MavList[2] = "log"
    /\ \A i \in Index : i > 2 => MavList[i] = NULL
    /\ NULL \notin {"forward", "log"}
BY ConstantsAssumption, ReceiveAssumption DEF MavList, Index

\* Nothing has been received and nothing done.
LEMMA ReceiverStarts == ReceiveInit => ReceiverInv
<1> SUFFICES ASSUME ReceiveInit
             PROVE  ReceiverInv
  OBVIOUS
<1>1. ParserInv
  BY ParserStarts DEF ReceiveInit
<1>2. Handled
  BY DEF ReceiveInit, Handled
<1>3. HbLen \in Nat /\ Len(beat) = 0
  BY ReceiveAssumption DEF ReceiveInit
<1>4. TargetIsLastHeartbeat /\ DOMAIN target = 0..(HbLen - 1)
  BY <1>3 DEF ReceiveInit, TargetIsLastHeartbeat
<1> QED
  BY <1>1, <1>2, <1>4 DEF ReceiverInv

\* While bytes are read no handler is at work.
LEMMA ReadStep == ReceiverInv /\ (ReceiveByte \/ ReceiveNoise) => ReceiverInv'
<1> SUFFICES ASSUME ReceiverInv, ReceiveByte \/ ReceiveNoise
             PROVE  ReceiverInv'
  OBVIOUS
<1>1. PICK c \in Byte : parse_char(c)
  BY DEF ReceiveByte, ReceiveNoise
<1>2. ParserInv'
  BY <1>1, ParseStep DEF ReceiverInv
<1>3. /\ rpc = "recv" /\ rpc' = IF msg_received' THEN "invoke" ELSE "recv"
      /\ UNCHANGED <<handler, at, target, beat>>
  BY DEF ReceiveByte, ReceiveNoise, vars, outputs
<1>4. Handled'
  BY <1>3 DEF ReceiverInv, Handled, MavList, Index
<1> QED
  BY <1>2, <1>3, <1>4 DEF ReceiverInv, TargetIsLastHeartbeat

\* One handler after the other reads the message, which waits for them.
LEMMA HandlerStep == ReceiverInv /\ (InvokeHandlers \/ CallHandler) => ReceiverInv'
<1> SUFFICES ASSUME ReceiverInv, InvokeHandlers \/ CallHandler
             PROVE  ReceiverInv'
  OBVIOUS
<1>1. UNCHANGED parserVars
  BY DEF InvokeHandlers, CallHandler
<1>2. ParserInv' /\ UNCHANGED <<raw, header, msg_received>>
  BY <1>1, ParserIdles DEF ReceiverInv, parserVars, rxmsg
<1>3. UNCHANGED <<target, beat, handler>>
  BY DEF InvokeHandlers, CallHandler, StartInvoke, InvokeSlot, Forward, Log, outputs
<1>4. Handled'
  <2>1. CASE InvokeHandlers
    <3>1. /\ rpc = "invoke" /\ at' = 1 /\ rpc' = "handlers"
          /\ 1 \in Index
      BY <2>1, ListFacts DEF InvokeHandlers, StartInvoke
    <3> QED
      BY <1>2, <1>3, <3>1 DEF ReceiverInv, Handled, MavList, Index
  <2>2. CASE CallHandler
    <3>1. /\ rpc = "handlers" /\ at \in Index /\ handler = MavList /\ msg_received
          /\ at' = IF at = Slots THEN 0 ELSE at + 1
          /\ rpc' = IF at' = 0 THEN "update" ELSE "handlers"
          /\ proc = "up"
      BY <2>2 DEF ReceiverInv, Handled, CallHandler, InvokeSlot
    <3>2. send_buffer = raw
      BY <3>1, HandedOut DEF ReceiverInv, ForwardedAsReceived
    <3>3. CASE at = 1
      <4>1. forwarded' = raw
        BY <2>2, <3>1, <3>2, <3>3, ListFacts DEF CallHandler, Forward
      <4>2. at' = 2 /\ rpc' = "handlers" /\ 2 \in Index
        BY <3>1, <3>3, ListFacts
      <4> QED
        BY <1>2, <1>3, <3>1, <4>1, <4>2 DEF Handled, MavList, Index
    <3>4. CASE at = 2
      <4>1. Log
        BY <2>2, <3>1, <3>4, ListFacts DEF CallHandler
      <4>2. forwarded' = raw
        BY <3>1, <3>4, <1>2, <4>1 DEF ReceiverInv, Handled, Log
      <4>3. LoggedToo'
        BY <1>2, <3>1, <3>2, <4>1 DEF LoggedToo, Log
      <4>4. \/ at' = 0 /\ rpc' = "update"
            \/ at' \in Index /\ rpc' = "handlers"
        BY <3>1, <3>4, ListFacts
      <4> QED
        BY <1>2, <1>3, <3>1, <4>2, <4>3, <4>4 DEF Handled, MavList, Index
    <3>5. CASE at > 2
      <4>1. UNCHANGED outputs
        BY <2>2, <3>1, <3>5, ListFacts DEF CallHandler
      <4>2. forwarded' = raw' /\ LoggedToo'
        BY <1>2, <3>1, <3>5, <4>1, ListFacts DEF ReceiverInv, Handled, LoggedToo, outputs
      <4>3. \/ at' = 0 /\ rpc' = "update"
            \/ at' \in Index /\ rpc' = "handlers"
        BY <3>1, ListFacts
      <4> QED
        BY <1>2, <1>3, <3>1, <4>2, <4>3 DEF Handled, MavList, Index
    <3> QED
      BY <3>1, <3>3, <3>4, <3>5, ListFacts
  <2> QED
    BY <2>1, <2>2
<1> QED
  BY <1>2, <1>3, <1>4 DEF ReceiverInv, TargetIsLastHeartbeat

\* A heartbeat as long as it should be brings every byte of the target state.
LEMMA TargetStep == ReceiverInv /\ UpdateTargetState => ReceiverInv'
<1> SUFFICES ASSUME ReceiverInv, UpdateTargetState
             PROVE  ReceiverInv'
  OBVIOUS
<1>1. ParserInv'
  BY ParserIdles DEF UpdateTargetState, ReceiverInv
<1>2. Handled'
  BY DEF UpdateTargetState, ReceiverInv, Handled, vars, MavList, Index
<1>3. CASE header["msgid"] = HEARTBEAT
  <2>1. /\ target' = [k \in 0..(HbLen - 1) |-> payload[k]]
        /\ beat' = raw /\ msg_received
    BY <1>3 DEF UpdateTargetState, ReceiverInv, Handled
  <2>2. Prefix(8 + header["len"])
    BY <2>1 DEF ReceiverInv, ParserInv, Progress
  <2>3. header["len"] \in Nat /\ HbLen \in Nat
    BY ByteFacts, ReceiveAssumption DEF ReceiverInv, ParserInv, ParserTypeOK, Fields
  <2>4. ASSUME Len(raw) >= HbLen + 8, NEW k \in 0..(HbLen - 1)
        PROVE  raw[7 + k] = payload[k]
    <3>1. 7 + k \in 7..(8 + header["len"]) /\ (7 + k) - 7 = k /\ 8 + header["len"] > 6
      BY <2>2, <2>3, <2>4 DEF Prefix
    <3> QED
      BY <2>2, <3>1 DEF Prefix
  <2> QED
    BY <1>1, <1>2, <2>1, <2>4 DEF ReceiverInv, TargetIsLastHeartbeat
<1>4. CASE header["msgid"] # HEARTBEAT
  BY <1>1, <1>2, <1>4 DEF UpdateTargetState, ReceiverInv, TargetIsLastHeartbeat
<1> QED
  BY <1>3, <1>4

\* Up to the start of the receiver only the list is used, and the line is only
\* a source of bytes.
LEMMA OtherSteps ==
    ReceiverInv /\ (UseList \/ StartReceiver \/ SendFrame \/ LoseBytes
                     \/ UNCHANGED receiveVars)
       => ReceiverInv'
<1> SUFFICES ASSUME ReceiverInv,
                    UseList \/ StartReceiver \/ SendFrame \/ LoseBytes
                       \/ UNCHANGED receiveVars
             PROVE  ReceiverInv'
  OBVIOUS
<1>1. UNCHANGED parserVars /\ UNCHANGED outputs
  BY DEF UseList, StartReceiver, SendFrame, LoseBytes, receiveVars
<1>2. ParserInv'
  BY <1>1, ParserIdles DEF ReceiverInv
<1>3. Handled'
  <2>1. CASE UseList
    BY <1>1, <2>1 DEF UseList, ReceiverInv, Handled
  <2>2. CASE StartReceiver
    BY <1>1, <2>2 DEF StartReceiver, vars, ReceiverInv, Handled, MavList, Index
  <2>3. CASE SendFrame \/ LoseBytes \/ UNCHANGED receiveVars
    <3>1. UNCHANGED <<vars, rpc, parserVars, outputs>>
      BY <2>3 DEF SendFrame, LoseBytes, receiveVars
    <3> QED
      BY <3>1 DEF ReceiverInv, Handled, MavList, Index, LoggedToo, vars, parserVars,
         rxmsg, outputs
  <2> QED
    BY <2>1, <2>2, <2>3
<1> QED
  BY <1>1, <1>2, <1>3 DEF ReceiverInv, TargetIsLastHeartbeat, outputs

\* The inductive invariant of the receiver.
THEOREM ReceiverInvariance == ReceiveSpec => []ReceiverInv
<1>1. ReceiverInv /\ [ReceiveNext]_receiveVars => ReceiverInv'
  BY ReadStep, HandlerStep, TargetStep, OtherSteps DEF ReceiveNext, Crashed
<1> QED
  BY <1>1, ReceiverStarts, PTL DEF ReceiveSpec

\* What is forwarded and logged is the message as it arrived, for any list
\* length, any lengths of frames and whatever is lost of them.
THEOREM HandlersGetMessage == ReceiveSpec => []HandlersActOnMessage
<1>1. ReceiverInv => HandlersActOnMessage
  <2> SUFFICES ASSUME ReceiverInv, rpc = "update"
               PROVE  /\ forwarded = raw
                      /\ raw[6] \in LoggedIds /\ proc = "up" => logged.msg = raw
    BY DEF HandlersActOnMessage
  <2>1. forwarded = raw /\ LoggedToo /\ msg_received
    BY DEF ReceiverInv, Handled
  <2>2. Prefix(8 + header["len"]) /\ header["len"] \in Nat
    BY <2>1, ByteFacts DEF ReceiverInv, ParserInv, Progress, ParserTypeOK, Fields
  <2>3. raw[6] = header["msgid"]
    BY <2>2 DEF Prefix
  <2> QED
    BY <2>1, <2>3 DEF LoggedToo
<1> QED
  BY <1>1, ReceiverInvariance, PTL

\* The target state is the last heartbeat, and no other message's.
THEOREM TargetFollowsHeartbeat == ReceiveSpec => []TargetIsLastHeartbeat
<1>1. ReceiverInv => TargetIsLastHeartbeat
  BY DEF ReceiverInv
<1> QED
  BY <1>1, ReceiverInvariance, PTL

\* The receiver gives the parser bytes and nothing else: what is proved of the
\* parser holds in the program.
THEOREM ReceiverIsParser == ReceiveSpec => ParserSpec
<1>1. ReceiveInit => ParserInit
  BY DEF ReceiveInit
<1>2. [ReceiveNext]_receiveVars => [ParserNext]_parserVars
  <2> SUFFICES ASSUME ReceiveNext \/ UNCHANGED receiveVars
               PROVE  [ParserNext]_parserVars
    OBVIOUS
  <2>1. CASE ReceiveByte \/ ReceiveNoise
    BY <2>1 DEF ReceiveByte, ReceiveNoise, ParserNext
  <2>2. CASE ~(ReceiveByte \/ ReceiveNoise)
    BY <2>2 DEF ReceiveNext, UseList, StartReceiver, SendFrame, LoseBytes,
       InvokeHandlers, CallHandler, UpdateTargetState, Crashed, receiveVars
  <2> QED
    BY <2>1, <2>2
<1> QED
  BY <1>1, <1>2, PTL DEF ReceiveSpec, ParserSpec

\* The receiver only invokes the list main() has made with its operations: what
\* is proved of lists holds in the program.
THEOREM ReceiverUsesLists == ReceiveSpec => Spec
<1>1. ReceiveInit => Init
  BY DEF ReceiveInit
<1>2. [ReceiveNext]_receiveVars => [Next]_vars
  <2> SUFFICES ASSUME ReceiveNext \/ UNCHANGED receiveVars
               PROVE  [Next]_vars
    OBVIOUS
  <2>1. CASE UseList \/ InvokeHandlers \/ CallHandler
    BY <2>1 DEF UseList, InvokeHandlers, CallHandler, Next
  <2>2. CASE ~(UseList \/ InvokeHandlers \/ CallHandler)
    BY <2>2 DEF ReceiveNext, StartReceiver, SendFrame, LoseBytes, ReceiveByte,
       ReceiveNoise, UpdateTargetState, Crashed, receiveVars
  <2> QED
    BY <2>1, <2>2
<1> QED
  BY <1>1, <1>2, PTL DEF ReceiveSpec, Spec

\* In the program, too, whoever is registered is called once for a message, in
\* the order of registration.
THEOREM ReceiverCallsInOrder ==
    ASSUME ~AnyOrder
    PROVE  ReceiveSpec => RefinesHandlerSet
BY ListIsHandlerSet, ReceiverUsesLists, PTL

\* In the program, too, a message that is handed out has its checksum.
THEOREM ReceiverGetsWholeFrames == ReceiveSpec => []ChecksumHolds
BY HandsOutWholeFrames, ReceiverIsParser, PTL
=============================================================================
