--------------------------- MODULE EventRingProofs ---------------------------
(***************************************************************************)
(* Proofs about the event ring, for a ring of any size and any number of    *)
(* events: it keeps and returns the newest events in order, accounts for    *)
(* every one, and implements the lossy queue.                               *)
(***************************************************************************)
EXTENDS EventRing, SequenceTheorems, TLAPS

(* An index of at most one turn, taken modulo the ring's size.              *)
LEMMA ModOnce ==
    ASSUME NEW N \in Nat \ {0}, NEW x \in Int, 0 <= x, x < 2 * N
    PROVE  /\ x % N \in 0..(N - 1)
           /\ x % N = IF x < N THEN x ELSE x - N
  <1>1. x = N * (x \div N) + (x % N) /\ 0 <= x % N /\ x % N < N /\ x \div N \in Int
    OBVIOUS
  <1> QED
    BY <1>1

(* Advancing the head by k and looking i places on is looking k + i places  *)
(* on from where it was.                                                    *)
LEMMA AtShift ==
    ASSUME NEW N \in Nat \ {0}, NEW h \in 0..(N - 1), NEW k \in 0..N, NEW i \in 0..N, k + i <= N
    PROVE  /\ (h + k) % N \in 0..(N - 1)
           /\ (((h + k) % N) + i) % N = (h + (k + i)) % N
  <1> DEFINE x == h + k
             y == h + (k + i)
             m == x % N
             z == m + i
  <1>1. /\ x \in Int /\ 0 <= x /\ x < 2 * N
        /\ y \in Int /\ 0 <= y /\ y < 2 * N
        /\ y = x + i
    OBVIOUS
  <1> HIDE DEF x, y
  <1>2. m \in 0..(N - 1) /\ m = IF x < N THEN x ELSE x - N
    BY <1>1, ModOnce
  <1>3. y % N = IF y < N THEN y ELSE y - N
    BY <1>1, ModOnce
  <1> HIDE DEF m
  <1>4. z \in Int /\ 0 <= z /\ z < 2 * N
    BY <1>2
  <1>5. z = IF x < N THEN y ELSE y - N
    BY <1>1, <1>2
  <1> HIDE DEF z
  <1>6. z % N = IF z < N THEN z ELSE z - N
    BY <1>4, ModOnce
  <1>7. z % N = y % N
    BY <1>1, <1>2, <1>3, <1>4, <1>5, <1>6
  <1> QED
    BY <1>2, <1>7 DEF m, x, y, z

(* Places less than a turn apart are different slots.                       *)
LEMMA AtDistinct ==
    ASSUME NEW N \in Nat \ {0}, NEW h \in 0..(N - 1),
           NEW i \in 0..N, NEW j \in 0..N, i < j, j < i + N
    PROVE  (h + i) % N # (h + j) % N
  <1> DEFINE x == h + i
             y == h + j
  <1>1. /\ x \in Int /\ 0 <= x /\ x < 2 * N
        /\ y \in Int /\ 0 <= y /\ y < 2 * N
        /\ x < y /\ y < x + N
    OBVIOUS
  <1> HIDE DEF x, y
  <1>2. /\ x % N = IF x < N THEN x ELSE x - N
        /\ y % N = IF y < N THEN y ELSE y - N
    BY <1>1, ModOnce
  <1>3. x % N # y % N
    BY <1>1, <1>2
  <1> QED
    BY <1>3 DEF x, y

LEMMA AtIndex ==
    ASSUME TypeOK, NEW i \in 0..RvEventsMax
    PROVE  At(i) \in Index
  <1>1. (head + 0) % RvEventsMax \in Index /\ (head + i) % RvEventsMax \in Index
    BY RvEventsMaxAssumption, AtShift DEF TypeOK, Index
  <1> QED
    BY <1>1 DEF At

-----------------------------------------------------------------------------
LEMMA TypeInit == Init => TypeOK
  BY RvEventsMaxAssumption DEF Init, TypeOK, Index

LEMMA TypePush ==
    ASSUME TypeOK, NEW e \in Events, PushEvent(e) PROVE TypeOK'
  <1>1. Overwritten \in {0, 1} /\ (Overwritten = 1 <=> count = RvEventsMax)
    BY DEF Overwritten
  <1>2. head' \in Index
    <2>1. Overwritten \in 0..RvEventsMax /\ head \in 0..(RvEventsMax - 1)
      BY <1>1, RvEventsMaxAssumption DEF TypeOK, Index
    <2>2. (head + Overwritten) % RvEventsMax \in 0..(RvEventsMax - 1)
      <3> DEFINE k == Overwritten
      <3>1. k \in 0..RvEventsMax /\ 0 \in 0..RvEventsMax /\ k + 0 <= RvEventsMax
        BY <2>1, RvEventsMaxAssumption
      <3> HIDE DEF k
      <3>2. (head + k) % RvEventsMax \in 0..(RvEventsMax - 1)
        BY <2>1, <3>1, RvEventsMaxAssumption, AtShift
      <3> QED
        BY <3>2 DEF k
    <2> QED
      BY <2>2 DEF PushEvent, Index
  <1>3. count' \in 0..RvEventsMax
    BY <1>1, RvEventsMaxAssumption DEF PushEvent, TypeOK
  <1>4. events' \in [Index -> Item \cup {Empty}]
    <2>1. [seq |-> seq, ev |-> e] \in Item
      BY DEF Item, TypeOK
    <2> QED
      BY <2>1 DEF PushEvent, TypeOK
  <1>5. seq' \in Nat /\ dropped' \in Nat
    BY <1>1 DEF PushEvent, TypeOK, Counted
  <1> QED
    BY <1>2, <1>3, <1>4, <1>5 DEF PushEvent, TypeOK

LEMMA TypeRead ==
    ASSUME TypeOK, NEW max \in 0..RvEventsMax, RvEvents(max) PROVE TypeOK'
  <1>1. Take(max) \in 0..count /\ Take(max) \in 0..RvEventsMax
    BY RvEventsMaxAssumption DEF Take, TypeOK
  <1>2. head' \in Index
    <2> DEFINE k == Take(max)
    <2>1. k \in 0..RvEventsMax /\ 0 \in 0..RvEventsMax /\ k + 0 <= RvEventsMax
      BY <1>1, RvEventsMaxAssumption
    <2>2. head' = (head + k) % RvEventsMax /\ head \in 0..(RvEventsMax - 1)
      BY DEF RvEvents, TypeOK, Index
    <2> HIDE DEF k
    <2> QED
      BY <2>1, <2>2, RvEventsMaxAssumption, AtShift DEF Index
  <1>3. count' \in 0..RvEventsMax /\ dropped' \in Nat /\ seen' \in Nat
    BY <1>1, RvEventsMaxAssumption DEF RvEvents, TypeOK, Reset
  <1>4. got'.dropped \in Nat /\ got'.out \in Seq(Item \cup {Empty})
    <2>1. \A i \in 1..Take(max) : events[At(i - 1)] \in Item \cup {Empty}
      <3>1. \A i \in 1..Take(max) : i - 1 \in 0..RvEventsMax
        BY <1>1, RvEventsMaxAssumption
      <3> QED
        BY <3>1, AtIndex DEF TypeOK
    <2>2. got'.out = [i \in 1..Take(max) |-> events[At(i - 1)]] /\ got'.dropped = dropped
      BY DEF RvEvents
    <2> QED
      BY <1>1, <2>1, <2>2 DEF TypeOK
  <1> QED
    BY <1>2, <1>3, <1>4 DEF RvEvents, TypeOK

LEMMA TypeStep == TypeOK /\ [Next]_vars => TypeOK'
  <1> SUFFICES ASSUME TypeOK, [Next]_vars PROVE TypeOK'
    OBVIOUS
  <1>1. CASE UNCHANGED vars
    BY <1>1 DEF vars, TypeOK
  <1> QED
    BY <1>1, TypePush, TypeRead DEF Next

(* head and count never leave the ring.                                     *)
THEOREM TypeCorrect == Spec => []TypeOK
  BY TypeInit, TypeStep, PTL DEF Spec

-----------------------------------------------------------------------------
(* The inductive invariant: order alone needs count <= seq to be about      *)
(* numbers that exist, which conservation gives.                            *)
RingInv == TypeOK /\ NewestInOrder /\ Conservation

LEMMA RingInit == Init => RingInv
  BY TypeInit DEF Init, RingInv, NewestInOrder, Conservation

(* What the ring holds after a push: what it held, without the event given  *)
(* up, then the new one.                                                    *)
LEMMA PushContent ==
    ASSUME TypeOK, NEW e \in Events, PushEvent(e)
    PROVE  /\ Overwritten = (IF count = RvEventsMax THEN 1 ELSE 0)
           /\ count' = count - Overwritten + 1
           /\ \A i \in 0..(count' - 1) :
                events'[At(i)'] = IF i = count' - 1 THEN [seq |-> seq, ev |-> e]
                                  ELSE events[At(i + Overwritten)]
  <1> DEFINE N == RvEventsMax
             k == Overwritten
             item == [seq |-> seq, ev |-> e]
  <1>1. /\ head \in 0..(N - 1) /\ count \in 0..N /\ N \in Nat \ {0}
        /\ events \in [0..(N - 1) -> Item \cup {Empty}]
    BY RvEventsMaxAssumption DEF TypeOK, Index
  <1>2. k = IF count = N THEN 1 ELSE 0
    BY DEF Overwritten
  <1>3. /\ events' = [events EXCEPT ![At(count)] = item]
        /\ count' = count - k + 1
        /\ head' = (head + k) % N
    BY DEF PushEvent, FreeSlot, At
  <1> HIDE DEF item, k, N
  <1>4. ASSUME NEW i \in 0..(count' - 1)
        PROVE  events'[At(i)'] = IF i = count' - 1 THEN item ELSE events[At(i + k)]
    <2>1. i \in 0..N /\ k \in 0..N /\ k + i <= N
      BY <1>1, <1>2, <1>3
    <2>2. (((head + k) % N) + i) % N = (head + (k + i)) % N
      BY <1>1, <2>1, AtShift
    <2>3. k + i = i + k
      BY <1>1, <2>1
    <2>4. At(i)' = At(i + k)
      BY <1>3, <2>2, <2>3 DEF At, N
    <2>5. i + k \in 0..N /\ i + k <= count
      BY <1>1, <1>2, <1>3, <2>1
    <2>6. At(i + k) \in 0..(N - 1)
      BY <2>5, AtIndex DEF N, Index
    <2>7. CASE i = count' - 1
      <3>1. i + k = count
        BY <1>1, <1>2, <1>3, <2>7
      <3> QED
        BY <1>1, <1>3, <2>4, <2>6, <2>7, <3>1
    <2>8. CASE i # count' - 1
      <3> DEFINE j == i + k
      <3>1. j \in 0..N /\ count \in 0..N /\ j < count /\ count < j + N
        BY <1>1, <1>2, <1>3, <2>1, <2>8
      <3> HIDE DEF j
      <3>2. At(j) # At(count)
        BY <1>1, <3>1, AtDistinct DEF At, N
      <3> QED
        BY <1>1, <1>3, <2>4, <2>6, <2>8, <3>2 DEF j
    <2> QED
      BY <2>7, <2>8
  <1> QED
    BY <1>2, <1>3, <1>4 DEF item, k, N

LEMMA PushOrder ==
    ASSUME RingInv, NEW e \in Events, PushEvent(e) PROVE NewestInOrder'
  <1> DEFINE item == [seq |-> seq, ev |-> e]
  <1>1. TypeOK /\ count \in 0..RvEventsMax /\ seq \in Nat /\ RvEventsMax \in Nat \ {0}
    BY RvEventsMaxAssumption DEF RingInv, TypeOK
  <1>2. item # Empty /\ item.seq = seq
    BY <1>1, EmptyAssumption
  <1>3. seq' = seq + 1
    BY DEF PushEvent
  <1>4. ASSUME NEW i \in 0..(count' - 1)
        PROVE  events'[At(i)'] # Empty /\ events'[At(i)'].seq = seq' - count' + i
    <2>1. CASE i = count' - 1
      <3>1. events'[At(i)'] = item /\ count' \in Nat
        BY <1>1, <2>1, PushContent
      <3> HIDE DEF item
      <3> QED
        BY <1>1, <1>2, <1>3, <2>1, <3>1
    <2>2. CASE i # count' - 1
      <3>1. /\ events'[At(i)'] = events[At(i + Overwritten)]
            /\ Overwritten \in {0, 1} /\ count' = count - Overwritten + 1
        BY <1>1, <2>2, PushContent
      <3>2. i + Overwritten \in 0..(count - 1)
        BY <1>1, <2>2, <3>1
      <3>3. /\ events[At(i + Overwritten)] # Empty
            /\ events[At(i + Overwritten)].seq = seq - count + (i + Overwritten)
        BY <3>2 DEF RingInv, NewestInOrder
      <3> QED
        BY <1>1, <1>3, <3>1, <3>3
    <2> QED
      BY <2>1, <2>2
  <1> QED
    BY <1>4 DEF NewestInOrder

(* A read leaves what it does not take where it was, counted from the head. *)
LEMMA ReadContent ==
    ASSUME TypeOK, NEW max \in 0..RvEventsMax, RvEvents(max)
    PROVE  /\ Take(max) \in 0..count
           /\ count' = count - Take(max)
           /\ \A i \in 0..(count' - 1) : events'[At(i)'] = events[At(i + Take(max))]
  <1> DEFINE N == RvEventsMax
             k == Take(max)
  <1>1. /\ head \in 0..(N - 1) /\ count \in 0..N /\ N \in Nat \ {0}
        /\ k \in 0..count
    BY RvEventsMaxAssumption DEF TypeOK, Index, Take
  <1>2. head' = (head + k) % N /\ count' = count - k /\ events' = events
    BY DEF RvEvents
  <1> HIDE DEF k, N
  <1>3. ASSUME NEW i \in 0..(count' - 1)
        PROVE  events'[At(i)'] = events[At(i + k)]
    <2>1. i \in 0..N /\ k \in 0..N /\ k + i <= N /\ k + i = i + k
      BY <1>1, <1>2
    <2>2. (((head + k) % N) + i) % N = (head + (k + i)) % N
      BY <1>1, <2>1, AtShift
    <2> QED
      BY <1>2, <2>1, <2>2 DEF At, N
  <1> QED
    BY <1>1, <1>2, <1>3 DEF k

LEMMA ReadOrder ==
    ASSUME RingInv, NEW max \in 0..RvEventsMax, RvEvents(max) PROVE NewestInOrder'
  <1>1. TypeOK /\ count \in Nat /\ seq \in Nat /\ seq' = seq
    BY DEF RingInv, TypeOK, RvEvents
  <1>2. ASSUME NEW i \in 0..(count' - 1)
        PROVE  events'[At(i)'] # Empty /\ events'[At(i)'].seq = seq' - count' + i
    <2>1. /\ Take(max) \in 0..count /\ count' = count - Take(max)
          /\ events'[At(i)'] = events[At(i + Take(max))]
      BY <1>1, ReadContent
    <2>2. i + Take(max) \in 0..(count - 1)
      BY <1>1, <2>1
    <2>3. /\ events[At(i + Take(max))] # Empty
          /\ events[At(i + Take(max))].seq = seq - count + (i + Take(max))
      BY <2>2 DEF RingInv, NewestInOrder
    <2> QED
      BY <1>1, <2>1, <2>3
  <1> QED
    BY <1>2 DEF NewestInOrder

LEMMA Conserved ==
    ASSUME RingInv, Next PROVE Conservation'
  <1>1. ASSUME NEW e \in Events, PushEvent(e) PROVE Conservation'
    BY <1>1 DEF RingInv, TypeOK, Conservation, PushEvent, Counted, Overwritten
  <1>2. ASSUME NEW max \in 0..RvEventsMax, RvEvents(max) PROVE Conservation'
    BY <1>2 DEF RingInv, TypeOK, Conservation, RvEvents, Take, Reset
  <1> QED
    BY <1>1, <1>2 DEF Next

LEMMA RingStep == RingInv /\ [Next]_vars => RingInv'
  <1> SUFFICES ASSUME RingInv, [Next]_vars PROVE RingInv'
    OBVIOUS
  <1>1. TypeOK'
    BY TypeStep DEF RingInv
  <1>2. CASE Next
    <2>1. NewestInOrder'
      BY <1>2, PushOrder, ReadOrder DEF Next
    <2> QED
      BY <1>1, <1>2, <2>1, Conserved DEF RingInv
  <1>3. CASE UNCHANGED vars
    BY <1>1, <1>3 DEF RingInv, NewestInOrder, Conservation, At, vars
  <1> QED
    BY <1>2, <1>3

LEMMA RingAlways == Spec => []RingInv
  BY RingInit, RingStep, PTL DEF Spec

(* The ring holds the newest events, in the order they were pushed.         *)
THEOREM Ordered == Spec => []NewestInOrder
  BY RingAlways, PTL DEF RingInv

(* Every event is unread, returned or counted as dropped.                   *)
THEOREM Accounted == Spec => []Conservation
  BY RingAlways, PTL DEF RingInv

-----------------------------------------------------------------------------
(* A read returns the events that follow those already seen and those it    *)
(* reports as dropped.                                                      *)
LEMMA ReadContinues ==
    ASSUME RingInv, NEW max \in 0..RvEventsMax, RvEvents(max)
    PROVE  \A i \in 1..Len(got'.out) :
             got'.out[i] # Empty /\ got'.out[i].seq = seen + got'.dropped + i - 1
  <1> DEFINE take == Take(max)
  <1>1. take \in 0..count /\ count \in Nat /\ seq \in Nat /\ seen \in Nat /\ dropped \in Nat
    BY RvEventsMaxAssumption DEF RingInv, TypeOK, Take
  <1>2. got'.out = [i \in 1..take |-> events[At(i - 1)]] /\ got'.dropped = dropped
    BY DEF RvEvents
  <1> HIDE DEF take
  <1>3. Len(got'.out) = take
    BY <1>1, <1>2
  <1>4. ASSUME NEW i \in 1..take
        PROVE  got'.out[i] # Empty /\ got'.out[i].seq = seen + got'.dropped + i - 1
    <2>1. i - 1 \in 0..(count - 1)
      BY <1>1
    <2>2. events[At(i - 1)] # Empty /\ events[At(i - 1)].seq = seq - count + (i - 1)
      BY <2>1 DEF RingInv, NewestInOrder
    <2> QED
      BY <1>1, <1>2, <2>2 DEF RingInv, Conservation
  <1> QED
    BY <1>3, <1>4

THEOREM Continues == Spec => ReadsContinue
  <1>1. RingInv /\ [Next]_vars =>
            [(\E max \in 0..RvEventsMax : RvEvents(max))
                => \A i \in 1..Len(got'.out) :
                     got'.out[i] # Empty /\ got'.out[i].seq = seen + got'.dropped + i - 1]_vars
    BY ReadContinues
  <1> QED
    BY <1>1, RingAlways, PTL DEF Spec, ReadsContinue

-----------------------------------------------------------------------------
(* The refinement mapping gives a sequence of count events.                 *)
HeldShape ==
    /\ Held \in Seq(Item \cup {Empty}) /\ Len(Held) = count /\ count \in Nat
    /\ \A i \in 1..count : Held[i] = events[At(i - 1)]

LEMMA HeldSeq == TypeOK => HeldShape
  <1> SUFFICES ASSUME TypeOK PROVE HeldShape
    OBVIOUS
  <1>1. count \in Nat
    BY RvEventsMaxAssumption DEF TypeOK
  <1>2. \A i \in 1..count : events[At(i - 1)] \in Item \cup {Empty}
    <2>1. \A i \in 1..count : i - 1 \in 0..RvEventsMax
      BY RvEventsMaxAssumption DEF TypeOK
    <2> QED
      BY <2>1, AtIndex DEF TypeOK
  <1> QED
    BY <1>1, <1>2 DEF Held, HeldShape

LEMMA HeldSeqNext == TypeOK' => HeldShape'
  BY HeldSeq, PTL

LEMMA HeldPush ==
    ASSUME TypeOK, TypeOK', NEW e \in Events, PushEvent(e)
    PROVE  Queue!Push(e)
  <1> DEFINE new == [seq |-> seq, ev |-> e]
             kept == IF count = RvEventsMax THEN Tail(Held) ELSE Held
  <1>1. /\ Len(Held) = count /\ Held \in Seq(Item \cup {Empty}) /\ count \in Nat
        /\ \A i \in 1..count : Held[i] = events[At(i - 1)]
    BY HeldSeq DEF HeldShape
  <1>2. /\ Len(Held') = count' /\ Held' \in Seq(Item \cup {Empty})
        /\ \A i \in 1..count' : Held'[i] = events'[At(i - 1)']
    BY HeldSeqNext DEF HeldShape
  <1>3. /\ Overwritten = (IF count = RvEventsMax THEN 1 ELSE 0)
        /\ count' = count - Overwritten + 1
        /\ count \in Nat /\ RvEventsMax \in Nat \ {0} /\ seq \in Nat
    <2>1. /\ Overwritten = (IF count = RvEventsMax THEN 1 ELSE 0)
          /\ count' = count - Overwritten + 1
      BY PushContent
    <2> QED
      BY <1>1, <2>1, RvEventsMaxAssumption DEF TypeOK
  <1>4. /\ kept \in Seq(Item \cup {Empty}) /\ Len(kept) = count' - 1
        /\ \A i \in 1..(count' - 1) : kept[i] = Held[i + Overwritten]
    BY <1>1, <1>3
  <1>5. new \in Item
    BY <1>3 DEF Item
  <1> HIDE DEF kept, new
  <1>6. Held' = Append(kept, new)
    <2>1. /\ Append(kept, new) \in Seq(Item \cup {Empty}) /\ Len(Append(kept, new)) = count'
          /\ \A i \in 1..(count' - 1) : Append(kept, new)[i] = kept[i]
          /\ Append(kept, new)[count'] = new
      BY <1>3, <1>4, <1>5
    <2>2. ASSUME NEW i \in 1..count' PROVE Held'[i] = Append(kept, new)[i]
      <3>1. i - 1 \in 0..(count' - 1)
        BY <1>3
      <3>2. Held'[i] = IF i - 1 = count' - 1 THEN new ELSE events[At((i - 1) + Overwritten)]
        BY <1>2, <3>1, PushContent DEF new
      <3>3. CASE i = count'
        BY <1>3, <2>1, <3>2, <3>3
      <3>4. CASE i # count'
        <4>1. i \in 1..(count' - 1) /\ i + Overwritten \in 1..count
              /\ (i + Overwritten) - 1 = (i - 1) + Overwritten /\ i - 1 # count' - 1
          BY <1>3, <3>4
        <4> QED
          BY <1>1, <1>4, <2>1, <3>2, <4>1
      <3> QED
        BY <3>3, <3>4
    <2> QED
      BY <1>2, <1>3, <2>1, <2>2
  <1>7. seq' = seq + 1 /\ dropped' = dropped + Overwritten
    BY DEF PushEvent, Counted
  <1>8. CASE count = RvEventsMax
    BY <1>1, <1>3, <1>6, <1>7, <1>8 DEF Queue!Push, kept, new
  <1>9. CASE count # RvEventsMax
    <2>1. dropped' = dropped
      BY <1>3, <1>7, <1>9 DEF TypeOK
    <2> QED
      BY <1>1, <1>6, <1>7, <1>9, <2>1 DEF Queue!Push, kept, new
  <1> QED
    BY <1>8, <1>9

LEMMA HeldRead ==
    ASSUME TypeOK, TypeOK', NEW max \in 0..RvEventsMax, RvEvents(max)
    PROVE  \E n \in 0..Len(Held) : Queue!Read(n)
  <1> DEFINE n == Take(max)
             rest == SubSeq(Held, n + 1, Len(Held))
  <1>1. /\ Len(Held) = count /\ Held \in Seq(Item \cup {Empty}) /\ count \in Nat
        /\ \A i \in 1..count : Held[i] = events[At(i - 1)]
    BY HeldSeq DEF HeldShape
  <1>2. /\ Len(Held') = count' /\ Held' \in Seq(Item \cup {Empty})
        /\ \A i \in 1..count' : Held'[i] = events'[At(i - 1)']
    BY HeldSeqNext DEF HeldShape
  <1>3. n \in 0..count /\ count \in Nat /\ count' = count - n
    BY <1>1, ReadContent
  <1>4. \A i \in 0..(count' - 1) : events'[At(i)'] = events[At(i + n)]
    BY ReadContent
  <1> HIDE DEF n
  <1>5. /\ rest \in Seq(Item \cup {Empty}) /\ Len(rest) = count'
        /\ \A i \in 1..count' : rest[i] = Held[n + i]
    <2>1. /\ n + 1 \in Int /\ count \in Int
          /\ \A i \in (n + 1)..count : Held[i] \in Item \cup {Empty}
      BY <1>1, <1>3
    <2>2. /\ SubSeq(Held, n + 1, count) \in Seq(Item \cup {Empty})
          /\ Len(SubSeq(Held, n + 1, count)) = IF n + 1 <= count THEN count - (n + 1) + 1 ELSE 0
          /\ \A i \in 1..(count - (n + 1) + 1) :
               SubSeq(Held, n + 1, count)[i] = Held[(n + 1) + i - 1]
      BY <2>1, SubSeqProperties
    <2>3. rest = SubSeq(Held, n + 1, count)
      BY <1>1
    <2> HIDE DEF rest
    <2>4. Len(rest) = count' /\ count - (n + 1) + 1 = count'
      BY <1>3, <2>2, <2>3
    <2>5. \A i \in 1..count' : rest[i] = Held[n + i]
      <3>1. ASSUME NEW i \in 1..count' PROVE rest[i] = Held[n + i]
        <4>1. (n + 1) + i - 1 = n + i
          BY <1>3
        <4> QED
          BY <2>2, <2>3, <2>4, <4>1
      <3> QED
        BY <3>1
    <2> QED
      BY <2>2, <2>3, <2>4, <2>5
  <1> HIDE DEF rest
  <1>6. Held' = rest
    <2>1. ASSUME NEW i \in 1..count' PROVE Held'[i] = rest[i]
      <3>1. i - 1 \in 0..(count' - 1) /\ n + i \in 1..count /\ (n + i) - 1 = (i - 1) + n
        BY <1>3
      <3> QED
        BY <1>1, <1>2, <1>4, <1>5, <3>1
    <2> QED
      BY <1>2, <1>5, <2>1
  <1>7. dropped' = 0 /\ seq' = seq
    BY DEF RvEvents, Reset
  <1> QED
    BY <1>1, <1>3, <1>6, <1>7 DEF Queue!Read, rest

(* The ring implements the lossy queue: a reader never needs to know of     *)
(* head, wrap or slot.                                                      *)
THEOREM Implements == Spec => QueueSpec
  <1>1. Init => Queue!Init
    BY DEF Init, Queue!Init, Held
  <1>2. TypeOK /\ TypeOK' /\ [Next]_vars => [Queue!Next]_Queue!lvars
    <2> SUFFICES ASSUME TypeOK, TypeOK', [Next]_vars PROVE [Queue!Next]_Queue!lvars
      OBVIOUS
    <2>1. CASE UNCHANGED vars
      BY <2>1 DEF vars, Queue!lvars, Held, At
    <2>2. ASSUME NEW e \in Events, PushEvent(e) PROVE Queue!Next
      BY <2>2, HeldPush DEF Queue!Next
    <2>3. ASSUME NEW max \in 0..RvEventsMax, RvEvents(max) PROVE Queue!Next
      BY <2>3, HeldRead DEF Queue!Next
    <2> QED
      BY <2>1, <2>2, <2>3 DEF Next
  <1> QED
    BY <1>1, <1>2, TypeCorrect, PTL DEF Spec, QueueSpec, Queue!Spec
=============================================================================
