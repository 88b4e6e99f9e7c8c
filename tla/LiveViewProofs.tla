---------------------------- MODULE LiveViewProofs ----------------------------
(***************************************************************************)
(* What the pages of the live view may rely on, for any guests, findings,    *)
(* pages and limits.                                                         *)
(***************************************************************************)
EXTENDS LiveView, FiniteSetTheorems, SequenceTheorems, TLAPS

USE LimitsAssumption, MaxPublishedAssumption, GuestsAssumption

-----------------------------------------------------------------------------
(* The two ways of cutting a sequence to a limit. *)

LEMMA NewestKeeps ==
  ASSUME NEW S, NEW s \in Seq(S)
  PROVE  /\ Newest(s) \in Seq(S)
         /\ Len(Newest(s)) = IF Len(s) > HistoryLimit THEN HistoryLimit ELSE Len(s)
         /\ \A i \in 1..Len(Newest(s)) : Newest(s)[i] = s[Len(s) - Len(Newest(s)) + i]
  <1> DEFINE m == IF Len(s) > HistoryLimit THEN Len(s) - HistoryLimit + 1 ELSE 1
  <1>1. Len(s) \in Nat /\ m \in Nat /\ m >= 1 /\ m <= Len(s) + 1
    OBVIOUS
  <1>2. \A i \in m..Len(s) : s[i] \in S
    BY <1>1
  <1> HIDE DEF m
  <1>3. /\ SubSeq(s, m, Len(s)) \in Seq(S)
        /\ Len(SubSeq(s, m, Len(s))) = IF m <= Len(s) THEN Len(s) - m + 1 ELSE 0
        /\ \A i \in 1..(Len(s) - m + 1) : SubSeq(s, m, Len(s))[i] = s[m + i - 1]
    BY <1>1, <1>2, SubSeqProperties
  <1>4. Newest(s) = SubSeq(s, m, Len(s))
    BY DEF Newest, m
  <1>5. Len(Newest(s)) = Len(s) - m + 1
    BY <1>1, <1>3, <1>4
  <1>6. Len(Newest(s)) = IF Len(s) > HistoryLimit THEN HistoryLimit ELSE Len(s)
    BY <1>1, <1>5 DEF m
  <1>7. \A i \in 1..Len(Newest(s)) :
           i \in 1..(Len(s) - m + 1) /\ m + i - 1 = Len(s) - Len(Newest(s)) + i
    BY <1>1, <1>5
  <1>8. \A i \in 1..Len(Newest(s)) : Newest(s)[i] = s[Len(s) - Len(Newest(s)) + i]
    BY <1>3, <1>4, <1>7
  <1> QED
    BY <1>3, <1>4, <1>6, <1>8

LEMMA FittingKeeps ==
  ASSUME NEW S, NEW s \in Seq(S)
  PROVE  /\ Fitting(s) \in Seq(S)
         /\ Len(Fitting(s)) = IF Len(s) > QueueLimit THEN QueueLimit ELSE Len(s)
         /\ \A i \in 1..Len(Fitting(s)) : Fitting(s)[i] = s[i]
  <1> DEFINE m == IF Len(s) > QueueLimit THEN QueueLimit ELSE Len(s)
  <1>1. Len(s) \in Nat /\ m \in Nat /\ m <= Len(s)
    OBVIOUS
  <1>2. \A i \in 1..m : s[i] \in S
    BY <1>1
  <1> HIDE DEF m
  <1>3. /\ SubSeq(s, 1, m) \in Seq(S)
        /\ Len(SubSeq(s, 1, m)) = IF 1 <= m THEN m - 1 + 1 ELSE 0
        /\ \A i \in 1..(m - 1 + 1) : SubSeq(s, 1, m)[i] = s[1 + i - 1]
    BY <1>1, <1>2, SubSeqProperties
  <1>4. Fitting(s) = SubSeq(s, 1, m)
    BY DEF Fitting, m
  <1>5. Len(Fitting(s)) = m
    BY <1>1, <1>3, <1>4
  <1>6. \A i \in 1..m : Fitting(s)[i] = s[i]
    BY <1>1, <1>3, <1>4
  <1> QED
    BY <1>3, <1>4, <1>5, <1>6 DEF m

LEMMA EventParts ==
  ASSUME NEW s \in Seq(Event), NEW i \in 1..Len(s)
  PROVE  s[i] \in Event /\ s[i].n \in Nat /\ s[i].body \in Bodies
  <1>1. s[i] \in Event
    OBVIOUS
  <1> QED
    BY <1>1 DEF Event

LEMMA Joining ==
  ASSUME NEW S, NEW s \in Seq(S), NEW t \in Seq(S)
  PROVE  /\ s \o t \in Seq(S) /\ Len(s \o t) = Len(s) + Len(t)
         /\ \A i \in 1..Len(s) : (s \o t)[i] = s[i]
         /\ \A i \in 1..Len(t) : (s \o t)[Len(s) + i] = t[i]
  <1>1. Len(s) \in Nat /\ Len(t) \in Nat
    OBVIOUS
  <1>2. /\ s \o t \in Seq(S) /\ Len(s \o t) = Len(s) + Len(t)
        /\ \A i \in 1..(Len(s) + Len(t)) :
              (s \o t)[i] = IF i <= Len(s) THEN s[i] ELSE t[i - Len(s)]
    BY ConcatProperties
  <1>3. \A i \in 1..Len(s) : (s \o t)[i] = s[i]
    BY <1>1, <1>2
  <1>4. \A i \in 1..Len(t) : (s \o t)[Len(s) + i] = t[i]
    <2> SUFFICES ASSUME NEW i \in 1..Len(t) PROVE (s \o t)[Len(s) + i] = t[i]
      OBVIOUS
    <2>1. /\ Len(s) + i \in 1..(Len(s) + Len(t)) /\ ~(Len(s) + i <= Len(s))
          /\ Len(s) + i - Len(s) = i
      BY <1>1
    <2> QED
      BY <1>2, <2>1
  <1> QED
    BY <1>2, <1>3, <1>4

LEMMA NumberedKeeps ==
  ASSUME published \in Nat, NEW b \in Seq(Bodies)
  PROVE  /\ Numbered(b) \in Seq(Event)
         /\ Len(Numbered(b)) = Len(b)
         /\ \A i \in 1..Len(b) : Numbered(b)[i] = [n |-> published + i, body |-> b[i]]
  <1>1. Len(b) \in Nat /\ \A i \in 1..Len(b) : b[i] \in Bodies
    OBVIOUS
  <1>2. Numbered(b) \in [1..Len(b) -> Event]
    BY <1>1 DEF Numbered, Event
  <1> QED
    BY <1>1, <1>2, SeqDef DEF Numbered

-----------------------------------------------------------------------------
(* What the bus holds, event by event. *)

HistoryOK ==
    /\ history \in Seq(Event)
    /\ Len(history) = IF published > HistoryLimit THEN HistoryLimit ELSE published
    /\ \A i \in 1..Len(history) : history[i].n = published - Len(history) + i

QueueOK(p) ==
    /\ queue[p] \in Seq(Event) /\ Len(queue[p]) <= QueueLimit
    /\ left[p] <= Len(queue[p]) /\ since[p] <= published /\ at[p] <= published
    /\ live[p] => left[p] = 0
    /\ \A i \in 1..Len(queue[p]) :
          /\ queue[p][i].n > at[p] /\ queue[p][i].n <= published
          /\ i <= left[p] <=> queue[p][i].n <= since[p]
          /\ \A j \in 1..Len(queue[p]) : i < j => queue[p][i].n < queue[p][j].n

BusTypes ==
    /\ published \in Nat /\ joined \in SUBSET Pages
    /\ queue \in [Pages -> Seq(Event)]
    /\ left \in [Pages -> Nat] /\ live \in [Pages -> BOOLEAN]
    /\ since \in [Pages -> Nat] /\ at \in [Pages -> Nat] /\ dropped \in [Pages -> BOOLEAN]
    /\ \A p \in Pages : p \notin joined => queue[p] = <<>>

BusInv == BusTypes /\ HistoryOK /\ \A p \in joined : QueueOK(p)

(* Publishing adds to the end of the history and of the queues, and takes   *)
(* from the history's front or leaves out what does not fit.                 *)
LEMMA PublishAdds ==
  ASSUME BusInv, NEW b \in Seq(Bodies), Publish(b)
  PROVE  /\ published' = published + Len(b) /\ HistoryOK'
         /\ \A i \in 1..Len(history') :
               \/ \E j \in 1..Len(history) : history'[i] = history[j]
               \/ \E j \in 1..Len(b) : history'[i] = [n |-> published + j, body |-> b[j]]
  <1>1. /\ Len(b) \in Nat /\ published' = published + Len(b) /\ published \in Nat
        /\ history' = Newest(history \o Numbered(b))
        /\ history \in Seq(Event) /\ Len(history) \in Nat
    BY DEF Publish, BusInv, BusTypes, HistoryOK
  <1> DEFINE s == history \o Numbered(b)
  <1>2. /\ Numbered(b) \in Seq(Event) /\ Len(Numbered(b)) = Len(b)
        /\ \A i \in 1..Len(b) : Numbered(b)[i] = [n |-> published + i, body |-> b[i]]
    BY <1>1, NumberedKeeps
  <1> HIDE DEF s
  <1>3. /\ s \in Seq(Event) /\ Len(s) = Len(history) + Len(b)
        /\ \A i \in 1..Len(history) : s[i] = history[i]
        /\ \A i \in 1..Len(b) : s[Len(history) + i] = [n |-> published + i, body |-> b[i]]
    <2> DEFINE t == Numbered(b)
    <2>1. /\ t \in Seq(Event) /\ Len(t) = Len(b)
          /\ \A i \in 1..Len(b) : t[i] = [n |-> published + i, body |-> b[i]]
      BY <1>2
    <2>2. s = history \o t
      BY DEF s
    <2> HIDE DEF t
    <2>3. /\ history \o t \in Seq(Event) /\ Len(history \o t) = Len(history) + Len(t)
          /\ \A i \in 1..Len(history) : (history \o t)[i] = history[i]
          /\ \A i \in 1..Len(t) : (history \o t)[Len(history) + i] = t[i]
      BY <1>1, <2>1, Joining
    <2> QED
      BY <2>1, <2>2, <2>3
  <1>4. \A i \in 1..Len(s) :
            /\ s[i].n = published - Len(history) + i
            /\ \/ \E j \in 1..Len(history) : s[i] = history[j]
               \/ \E j \in 1..Len(b) : s[i] = [n |-> published + j, body |-> b[j]]
    <2> SUFFICES ASSUME NEW i \in 1..Len(s)
                 PROVE  /\ s[i].n = published - Len(history) + i
                        /\ \/ \E j \in 1..Len(history) : s[i] = history[j]
                           \/ \E j \in 1..Len(b) : s[i] = [n |-> published + j, body |-> b[j]]
      OBVIOUS
    <2>1. CASE i <= Len(history)
      <3>1. i \in 1..Len(history) /\ s[i] = history[i]
        BY <2>1, <1>1, <1>3
      <3>2. s[i].n = published - Len(history) + i
        BY <3>1 DEF BusInv, HistoryOK
      <3>3. \E j \in 1..Len(history) : s[i] = history[j]
        BY <3>1
      <3> QED
        BY <3>2, <3>3
    <2>2. CASE i > Len(history)
      <3> DEFINE j == i - Len(history)
      <3>1. j \in 1..Len(b) /\ i = Len(history) + j
        BY <2>2, <1>1, <1>3
      <3> HIDE DEF j
      <3>2. s[i] = [n |-> published + j, body |-> b[j]]
        BY <3>1, <1>3
      <3>3. s[i].n = published - Len(history) + i
        BY <3>1, <3>2, <1>1
      <3> QED
        BY <3>1, <3>2, <3>3
    <2> QED
      BY <2>1, <2>2, <1>1, <1>3
  <1>5. /\ history' \in Seq(Event)
        /\ Len(history') = IF Len(s) > HistoryLimit THEN HistoryLimit ELSE Len(s)
        /\ \A i \in 1..Len(history') : history'[i] = s[Len(s) - Len(history') + i]
    BY <1>1, <1>3, NewestKeeps DEF s
  <1>6. \A i \in 1..Len(history') : Len(s) - Len(history') + i \in 1..Len(s)
    BY <1>1, <1>3, <1>5
  <1>7. Len(history') = IF published' > HistoryLimit THEN HistoryLimit ELSE published'
    BY <1>1, <1>3, <1>5 DEF BusInv, HistoryOK
  <1>8. \A i \in 1..Len(history') : history'[i].n = published' - Len(history') + i
    <2> SUFFICES ASSUME NEW i \in 1..Len(history')
                 PROVE  history'[i].n = published' - Len(history') + i
      OBVIOUS
    <2>1. Len(history') \in Nat /\ Len(s) \in Nat
      BY <1>1, <1>3, <1>5
    <2>2. history'[i].n = published - Len(history) + (Len(s) - Len(history') + i)
      BY <1>4, <1>5, <1>6
    <2> QED
      BY <2>1, <2>2, <1>1, <1>3
  <1>9. \A i \in 1..Len(history') :
            \/ \E j \in 1..Len(history) : history'[i] = history[j]
            \/ \E j \in 1..Len(b) : history'[i] = [n |-> published + j, body |-> b[j]]
    <2> SUFFICES ASSUME NEW i \in 1..Len(history')
                 PROVE  \/ \E j \in 1..Len(history) : history'[i] = history[j]
                        \/ \E j \in 1..Len(b) : history'[i] = [n |-> published + j, body |-> b[j]]
      OBVIOUS
    <2> DEFINE k == Len(s) - Len(history') + i
    <2>1. k \in 1..Len(s) /\ history'[i] = s[k]
      BY <1>5, <1>6
    <2> HIDE DEF k
    <2> QED
      BY <2>1, <1>4
  <1> QED
    BY <1>1, <1>5, <1>7, <1>8, <1>9 DEF HistoryOK

LEMMA PublishQueues ==
  ASSUME BusInv, NEW b \in Seq(Bodies), Publish(b), NEW p \in joined
  PROVE  /\ queue'[p] \in Seq(Event) /\ Len(queue'[p]) <= QueueLimit
         /\ Len(queue[p]) <= Len(queue'[p])
         /\ \A i \in 1..Len(queue[p]) : queue'[p][i] = queue[p][i]
         /\ \A i \in Len(queue[p])+1..Len(queue'[p]) :
               /\ i - Len(queue[p]) \in 1..Len(b)
               /\ queue'[p][i] = [n |-> published + (i - Len(queue[p])),
                                  body |-> b[i - Len(queue[p])]]
         /\ ~dropped'[p] => ~dropped[p] /\ Len(queue'[p]) = Len(queue[p]) + Len(b)
  <1> DEFINE q == queue[p]
             t == Numbered(b)
             s == q \o t
  <1>1. /\ p \in Pages /\ published \in Nat /\ Len(b) \in Nat
        /\ queue'[p] = Fitting(s)
        /\ dropped'[p] = (dropped[p] \/ Len(q) + Len(b) > QueueLimit)
    BY DEF Publish, BusInv, BusTypes
  <1>2. /\ t \in Seq(Event) /\ Len(t) = Len(b)
        /\ \A i \in 1..Len(b) : t[i] = [n |-> published + i, body |-> b[i]]
    BY <1>1, NumberedKeeps
  <1>3. q \in Seq(Event) /\ Len(q) \in Nat /\ Len(q) <= QueueLimit
    BY DEF BusInv, QueueOK
  <1>4. s = q \o t
    OBVIOUS
  <1> HIDE DEF s, t
  <1>5. /\ s \in Seq(Event) /\ Len(s) = Len(q) + Len(b)
        /\ \A i \in 1..Len(q) : s[i] = q[i]
        /\ \A i \in 1..Len(b) : s[Len(q) + i] = [n |-> published + i, body |-> b[i]]
    <2>1. q \in Seq(Event) /\ t \in Seq(Event)
      BY <1>2, <1>3
    <2> HIDE DEF q
    <2>2. /\ q \o t \in Seq(Event) /\ Len(q \o t) = Len(q) + Len(t)
          /\ \A i \in 1..Len(q) : (q \o t)[i] = q[i]
          /\ \A i \in 1..Len(t) : (q \o t)[Len(q) + i] = t[i]
      BY ONLY <2>1, Joining
    <2> QED
      BY <1>2, <1>4, <2>2
  <1>6. /\ Fitting(s) \in Seq(Event)
        /\ Len(Fitting(s)) = IF Len(s) > QueueLimit THEN QueueLimit ELSE Len(s)
        /\ \A i \in 1..Len(Fitting(s)) : Fitting(s)[i] = s[i]
    BY <1>5, FittingKeeps
  <1> DEFINE r == queue'[p]
  <1>7. /\ r \in Seq(Event) /\ Len(r) \in Nat /\ Len(r) <= QueueLimit
        /\ Len(q) <= Len(r) /\ Len(r) <= Len(q) + Len(b)
        /\ \A i \in 1..Len(r) : r[i] = s[i]
    BY <1>1, <1>3, <1>5, <1>6
  <1>8. ~dropped'[p] => ~dropped[p] /\ Len(r) = Len(q) + Len(b)
    BY <1>1, <1>3, <1>5, <1>6
  <1> HIDE DEF q, r
  <1>9. \A i \in 1..Len(q) : r[i] = q[i]
    BY <1>3, <1>5, <1>7
  <1>10. ASSUME NEW i \in Len(q)+1..Len(r)
         PROVE  /\ i - Len(q) \in 1..Len(b)
                /\ r[i] = [n |-> published + (i - Len(q)), body |-> b[i - Len(q)]]
    <2> DEFINE j == i - Len(q)
    <2>1. j \in 1..Len(b) /\ i = Len(q) + j /\ i \in 1..Len(r)
      BY <1>1, <1>3, <1>7
    <2> HIDE DEF j
    <2>2. r[i] = [n |-> published + j, body |-> b[j]]
      BY <2>1, <1>5, <1>7
    <2> QED
      BY <2>1, <2>2 DEF j
  <1> QED
    BY <1>7, <1>8, <1>9, <1>10 DEF q, r

LEMMA PublishOK ==
  ASSUME BusInv, NEW b \in Seq(Bodies), Publish(b)
  PROVE  BusInv'
  <1>1. published' = published + Len(b) /\ HistoryOK' /\ Len(b) \in Nat
    BY PublishAdds
  <1>2. \A p \in Pages : p \notin joined => queue'[p] = queue[p]
    BY DEF Publish, BusInv, BusTypes
  <1>3. \A p \in Pages : queue'[p] \in Seq(Event)
    <2> SUFFICES ASSUME NEW p \in Pages PROVE queue'[p] \in Seq(Event)
      OBVIOUS
    <2>1. CASE p \in joined
      BY <2>1, PublishQueues
    <2>2. CASE p \notin joined
      BY <2>2, <1>2 DEF BusInv, BusTypes
    <2> QED
      BY <2>1, <2>2
  <1>4. BusTypes'
    BY <1>1, <1>2, <1>3 DEF Publish, BusInv, BusTypes
  <1>5. ASSUME NEW p \in joined PROVE QueueOK(p)'
    <2> DEFINE q == queue[p]
               r == queue'[p]
    <2>1. /\ r \in Seq(Event) /\ Len(r) <= QueueLimit /\ Len(q) <= Len(r)
          /\ \A i \in 1..Len(q) : r[i] = q[i]
          /\ \A i \in Len(q)+1..Len(r) :
                /\ i - Len(q) \in 1..Len(b)
                /\ r[i] = [n |-> published + (i - Len(q)), body |-> b[i - Len(q)]]
      BY PublishQueues
    <2>2. /\ p \in Pages /\ left'[p] = left[p] /\ since'[p] = since[p]
          /\ live'[p] = live[p] /\ at'[p] = at[p]
      BY DEF Publish, BusInv, BusTypes
    <2>3. /\ published \in Nat /\ left[p] \in Nat /\ since[p] \in Nat /\ at[p] \in Nat
          /\ q \in Seq(Event) /\ Len(q) \in Nat /\ Len(r) \in Nat
      BY <2>1, <2>2 DEF BusInv, BusTypes
    <2>4. /\ left[p] <= Len(q) /\ since[p] <= published /\ (live[p] => left[p] = 0)
          /\ \A i \in 1..Len(q) :
                /\ q[i].n > at[p] /\ q[i].n <= published
                /\ i <= left[p] <=> q[i].n <= since[p]
                /\ \A j \in 1..Len(q) : i < j => q[i].n < q[j].n
      BY DEF BusInv, QueueOK
    <2>5. at[p] <= published
      BY DEF BusInv, QueueOK
    <2> DEFINE total == published + Len(b)
    <2> HIDE DEF q, r
    <2>6. ASSUME NEW i \in 1..Len(r)
          PROVE  /\ r[i].n > at[p] /\ r[i].n <= total
                 /\ i <= left[p] <=> r[i].n <= since[p]
                 /\ i > Len(q) => r[i].n = published + (i - Len(q))
      <3>1. CASE i <= Len(q)
        <4>1. i \in 1..Len(q) /\ r[i] = q[i]
          BY <3>1, <2>1, <2>3
        <4>2. /\ q[i].n > at[p] /\ q[i].n <= published
              /\ i <= left[p] <=> q[i].n <= since[p]
          BY <4>1, <2>4
        <4>3. q[i].n \in Nat
          BY <4>1, <2>3, EventParts
        <4> QED
          BY <3>1, <4>1, <4>2, <4>3, <1>1, <2>3
      <3>2. CASE i > Len(q)
        <4>1. i \in Len(q)+1..Len(r)
          BY <3>2, <2>3
        <4>2. /\ i - Len(q) \in 1..Len(b)
              /\ r[i] = [n |-> published + (i - Len(q)), body |-> b[i - Len(q)]]
          BY <4>1, <2>1
        <4>3. r[i].n = published + (i - Len(q))
          BY <4>2
        <4>4. published < r[i].n /\ r[i].n <= total
          BY <4>2, <4>3, <1>1, <2>3
        <4>5. r[i].n > at[p] /\ ~(r[i].n <= since[p])
          BY <4>4, <4>3, <2>3, <2>4, <2>5
        <4>6. ~(i <= left[p])
          BY <3>2, <2>3, <2>4
        <4> QED
          BY <4>3, <4>4, <4>5, <4>6
      <3> QED
        BY <3>1, <3>2, <2>3
    <2>7. ASSUME NEW i \in 1..Len(r), NEW j \in 1..Len(r), i < j PROVE r[i].n < r[j].n
      <3>1. CASE j <= Len(q)
        <4>1. i \in 1..Len(q) /\ j \in 1..Len(q) /\ r[i] = q[i] /\ r[j] = q[j]
          BY <3>1, <2>1, <2>3, <2>7
        <4> QED
          BY <4>1, <2>4, <2>7
      <3>2. CASE j > Len(q) /\ i <= Len(q)
        <4>1. i \in 1..Len(q) /\ r[i] = q[i] /\ q[i].n <= published
          BY <3>2, <2>1, <2>3, <2>4
        <4>2. q[i].n \in Nat
          BY <4>1, <2>3, EventParts
        <4> QED
          BY <3>2, <4>1, <4>2, <2>3, <2>6
      <3>3. CASE i > Len(q)
        <4>1. r[i].n = published + (i - Len(q)) /\ r[j].n = published + (j - Len(q))
          BY <3>3, <2>3, <2>6, <2>7
        <4> QED
          BY <4>1, <2>3, <2>7
      <3> QED
        BY <3>1, <3>2, <3>3, <2>3
    <2>8. published' = total /\ queue'[p] = r
      BY <1>1 DEF r
    <2>9. total \in Nat /\ published <= total
      BY <1>1, <2>3
    <2> HIDE DEF total
    <2> QED
      BY <2>1, <2>2, <2>3, <2>4, <2>5, <2>6, <2>7, <2>8, <2>9 DEF QueueOK
  <1> QED
    BY <1>1, <1>4, <1>5 DEF BusInv, Publish

-----------------------------------------------------------------------------
(* Steps of a stream. *)

LEMMA SubscribeOK == ASSUME BusInv, NEW p \in Pages, Subscribe(p) PROVE BusInv'
  <1>1. /\ history \in Seq(Event) /\ published \in Nat
        /\ Len(history) \in Nat /\ Len(history) <= QueueLimit
        /\ \A i \in 1..Len(history) : history[i].n = published - Len(history) + i
        /\ Len(history) <= published
    <2>1. /\ history \in Seq(Event) /\ published \in Nat
          /\ Len(history) = IF published > HistoryLimit THEN HistoryLimit ELSE published
      BY DEF BusInv, BusTypes, HistoryOK
    <2>2. Len(history) \in Nat /\ Len(history) <= QueueLimit /\ Len(history) <= published
      BY <2>1
    <2> QED
      BY <2>1, <2>2 DEF BusInv, HistoryOK
  <1>2. Replayed \in Seq(Event) /\ Len(Replayed) = Len(history)
        /\ \A i \in 1..Len(history) : Replayed[i] = history[i]
    BY <1>1, FittingKeeps DEF Replayed
  <1>3. /\ queue'[p] = Replayed /\ left'[p] = Len(Replayed) /\ since'[p] = published
        /\ at'[p] = 0 /\ live'[p] = FALSE /\ published' = published
    BY DEF Subscribe, Backlog, BusInv, BusTypes
  <1>4. QueueOK(p)'
    <2> DEFINE r == queue'[p]
    <2>1. /\ r \in Seq(Event) /\ Len(r) = Len(history)
          /\ \A i \in 1..Len(r) : r[i].n = published - Len(r) + i
      BY <1>1, <1>2, <1>3
    <2> HIDE DEF r
    <2>2. \A i \in 1..Len(r) : r[i].n > 0 /\ r[i].n <= published
      BY <1>1, <2>1
    <2>3. \A i, j \in 1..Len(r) : i < j => r[i].n < r[j].n
      BY <1>1, <2>1
    <2>4. left'[p] = Len(r) /\ queue'[p] = r
      BY <1>3 DEF r
    <2> QED
      BY <1>1, <1>3, <2>1, <2>2, <2>3, <2>4 DEF QueueOK
  <1>5. ASSUME NEW q \in joined, q # p PROVE QueueOK(q)'
    BY <1>5 DEF Subscribe, BusInv, BusTypes, QueueOK
  <1>6. BusTypes'
    BY <1>1, <1>2, <1>3 DEF Subscribe, BusInv, BusTypes, Backlog
  <1> QED
    BY <1>4, <1>5, <1>6 DEF Subscribe, BusInv, HistoryOK

LEMMA UnsubscribeOK == ASSUME BusInv, NEW p \in Pages, Unsubscribe(p) PROVE BusInv'
  <1>1. queue' \in [Pages -> Seq(Event)] /\ joined' \in SUBSET Pages
        /\ \A q \in Pages : q \notin joined' => queue'[q] = <<>>
    BY DEF Unsubscribe, Unsubscribed, BusInv, BusTypes
  <1>3. BusTypes' /\ HistoryOK'
    BY <1>1 DEF Unsubscribe, Unsubscribed, BusInv, BusTypes, HistoryOK
  <1>2. ASSUME NEW q \in joined' PROVE QueueOK(q)'
    BY <1>2 DEF Unsubscribe, Unsubscribed, BusInv, BusTypes, QueueOK
  <1> QED
    BY <1>2, <1>3 DEF BusInv

LEMMA ReadyOK == ASSUME BusInv, NEW p \in Pages, Ready(p) PROVE BusInv'
  <1>1. BusTypes' /\ HistoryOK'
    BY DEF Ready, BusInv, BusTypes, HistoryOK
  <1>2. ASSUME NEW q \in joined' PROVE QueueOK(q)'
    BY <1>2 DEF Ready, BusInv, BusTypes, QueueOK
  <1> QED
    BY <1>1, <1>2 DEF BusInv

(* The event sent is the oldest queued, of the history while some is left. *)
LEMMA SendOK ==
  ASSUME BusInv, NEW p \in Pages, NEW stays \in BOOLEAN, Send(p, stays)
  PROVE  /\ BusInv'
         /\ queue[p] # <<>> /\ Head(queue[p]) \in Event /\ Head(queue[p]) = queue[p][1]
         /\ at'[p] = Head(queue[p]).n /\ at'[p] > at[p]
         /\ live[p] <=> at'[p] > since[p]
         /\ stays => /\ queue'[p] \in Seq(Event) /\ Len(queue'[p]) = Len(queue[p]) - 1
                     /\ \A i \in 1..Len(queue'[p]) : queue'[p][i] = queue[p][i + 1]
  <1> DEFINE q == queue[p]
             r == queue'[p]
  <1>1. /\ p \in joined /\ q # <<>> /\ (left[p] > 0 \/ live[p])
        /\ at' = [at EXCEPT ![p] = Head(q).n] /\ published' = published
        /\ since' = since /\ history' = history
    BY DEF Send, Sendable
  <1>2. /\ q \in Seq(Event) /\ Len(q) \in Nat /\ Len(q) > 0
        /\ left[p] \in Nat /\ since[p] \in Nat /\ at[p] \in Nat /\ published \in Nat
        /\ live[p] \in BOOLEAN
    BY <1>1 DEF BusInv, BusTypes
  <1>3. /\ left[p] <= Len(q) /\ since[p] <= published /\ (live[p] => left[p] = 0)
        /\ \A i \in 1..Len(q) :
              /\ q[i].n > at[p] /\ q[i].n <= published
              /\ i <= left[p] <=> q[i].n <= since[p]
              /\ \A j \in 1..Len(q) : i < j => q[i].n < q[j].n
    BY <1>1 DEF BusInv, QueueOK
  <1>4. /\ Head(q) = q[1] /\ 1 \in 1..Len(q) /\ q[1] \in Event /\ q[1].n \in Nat
        /\ Tail(q) \in Seq(Event) /\ Len(Tail(q)) = Len(q) - 1
        /\ \A i \in 1..Len(Tail(q)) : Tail(q)[i] = q[i + 1]
    <2> HIDE DEF q
    <2>1. 1 \in 1..Len(q)
      BY <1>2
    <2>2. q[1] \in Event /\ q[1].n \in Nat
      BY <1>2, <2>1, EventParts
    <2>3. /\ Tail(q) \in Seq(Event) /\ Len(Tail(q)) = Len(q) - 1
          /\ \A i \in 1..Len(Tail(q)) : Tail(q)[i] = q[i + 1]
      BY <1>1, <1>2, HeadTailProperties
    <2> QED
      BY <1>2, <2>1, <2>2, <2>3
  <1>5. at'[p] = q[1].n /\ at'[p] > at[p] /\ at'[p] <= published
    BY <1>1, <1>2, <1>3, <1>4 DEF BusInv, BusTypes
  <1>6. live[p] <=> at'[p] > since[p]
    BY <1>1, <1>2, <1>3, <1>4, <1>5
  <1>7. CASE stays
    <2>1. /\ queue' = [queue EXCEPT ![p] = Tail(q)] /\ joined' = joined /\ live' = live
          /\ left' = [left EXCEPT ![p] = IF left[p] > 0 THEN left[p] - 1 ELSE 0]
      BY <1>7 DEF Send
    <2>2. r = Tail(q) /\ left'[p] = IF left[p] > 0 THEN left[p] - 1 ELSE 0
      BY <2>1 DEF BusInv, BusTypes
    <2>3. BusTypes'
      BY <1>1, <1>2, <1>4, <2>1 DEF Send, BusInv, BusTypes
    <2>4. ASSUME NEW o \in joined, o # p PROVE QueueOK(o)'
      BY <1>1, <2>1, <2>4 DEF BusInv, BusTypes, QueueOK
    <2>5. QueueOK(p)'
      <3> HIDE DEF q, r
      <3>1. r \in Seq(Event) /\ Len(r) = Len(q) - 1 /\ \A i \in 1..Len(r) : r[i] = q[i + 1]
        BY <1>4, <2>2
      <3>2. /\ \A i \in 1..Len(r) : i + 1 \in 1..Len(q) /\ (1 < i + 1)
            /\ left'[p] \in Nat /\ left'[p] <= Len(r)
            /\ \A i \in 1..Len(r) : i <= left'[p] <=> i + 1 <= left[p]
        BY <1>2, <1>3, <2>2, <3>1
      <3>3. \A i \in 1..Len(r) :
              /\ r[i].n > q[1].n /\ r[i].n <= published
              /\ i <= left'[p] <=> r[i].n <= since[p]
        BY <1>3, <1>4, <3>1, <3>2
      <3>4. ASSUME NEW i \in 1..Len(r), NEW j \in 1..Len(r), i < j PROVE r[i].n < r[j].n
        <4>1. i + 1 \in 1..Len(q) /\ j + 1 \in 1..Len(q) /\ i + 1 < j + 1
          BY <3>2, <3>4
        <4> QED
          BY <1>3, <3>1, <4>1
      <3>5. Len(r) <= QueueLimit
        BY <1>1, <1>2, <3>1 DEF BusInv, QueueOK, q
      <3>6. queue'[p] = r /\ since'[p] = since[p] /\ live'[p] = live[p] /\ (live[p] => left'[p] = 0)
        BY <1>1, <1>3, <2>1, <2>2 DEF r
      <3> QED
        BY <1>1, <1>3, <1>5, <3>1, <3>2, <3>3, <3>4, <3>5, <3>6 DEF QueueOK
    <2> QED
      BY <1>1, <1>4, <1>5, <1>6, <2>1, <2>2, <2>3, <2>4, <2>5 DEF BusInv, HistoryOK
  <1>8. CASE ~stays
    <2>1. Unsubscribed(p)
      BY <1>8 DEF Send
    <2>2. BusTypes'
      BY <1>1, <1>4, <2>1 DEF Send, Unsubscribed, BusInv, BusTypes
    <2>3. ASSUME NEW o \in joined' PROVE QueueOK(o)'
      BY <1>1, <2>1, <2>3 DEF Unsubscribed, BusInv, BusTypes, QueueOK
    <2> QED
      BY <1>1, <1>4, <1>5, <1>6, <1>8, <2>2, <2>3 DEF BusInv, HistoryOK
  <1> QED
    BY <1>7, <1>8

-----------------------------------------------------------------------------
(* What is published. *)

LEMMA StatusPublished ==
  /\ <<>> \in Seq(Bodies)
  /\ \A g \in Guests \cup {None} : <<Status(g)>> \in Seq(Bodies)
  BY DEF Status, Bodies

LEMMA Counted ==
  ASSUME NEW g \in Guests, NEW found \in SUBSET ({g} \X Subjects)
  PROVE  /\ IsFiniteSet(found) /\ Cardinality(found) \in 0..Cardinality(Subjects)
         /\ found \subseteq Findings
         /\ Cardinality(ToTell(found)) \in Nat /\ IsFiniteSet(ToTell(found))
  <1>1. IsFiniteSet({g}) /\ Cardinality({g}) = 1
    BY FS_Singleton
  <1>2. Cardinality(Subjects) \in Nat
    BY FS_CardinalityType
  <1>3. IsFiniteSet({g} \X Subjects) /\ Cardinality({g} \X Subjects) = 1 * Cardinality(Subjects)
    BY <1>1, FS_Product
  <1>4. IsFiniteSet(found) /\ Cardinality(found) <= Cardinality({g} \X Subjects)
    BY <1>3, FS_Subset
  <1>5. Cardinality(found) \in Nat
    BY <1>4, FS_CardinalityType
  <1>6. ToTell(found) \in SUBSET found
    BY DEF ToTell
  <1>7. IsFiniteSet(ToTell(found)) /\ Cardinality(ToTell(found)) \in Nat
    BY <1>4, <1>6, FS_Subset, FS_CardinalityType
  <1> QED
    BY <1>2, <1>3, <1>4, <1>5, <1>7 DEF Findings

LEMMA ReportIs ==
  ASSUME NEW g \in Guests, NEW found \in SUBSET ({g} \X Subjects),
         NEW order \in Orders(ToTell(found))
  PROVE  LET n == Cardinality(ToTell(found)) IN
         /\ DOMAIN order = 1..n /\ n \in Nat
         /\ \A i \in 1..n : order[i] \in ToTell(found)
         /\ Report(order, g, found) \in Seq(Bodies)
         /\ Len(Report(order, g, found)) = n + 1
         /\ \A i \in 1..n : Report(order, g, found)[i] = Detection(order[i])
         /\ Report(order, g, found)[n + 1] = ScanDone(g, Cardinality(found))
  <1> DEFINE n == Cardinality(ToTell(found))
             ds == [i \in DOMAIN order |-> Detection(order[i])]
             e == ScanDone(g, Cardinality(found))
  <1>1. n \in Nat /\ Cardinality(found) \in 0..Cardinality(Subjects)
    BY Counted
  <1>2. DOMAIN order = 1..n /\ \A i \in 1..n : order[i] \in ToTell(found)
    BY DEF Orders
  <1>3. e \in Bodies
    BY <1>1 DEF ScanDone, Bodies
  <1>4. \A d \in ToTell(found) : Detection(d) \in Bodies
    <2> SUFFICES ASSUME NEW d \in ToTell(found) PROVE Detection(d) \in Bodies
      OBVIOUS
    <2>1. d[1] \in Guests /\ d[2] \in Subjects
      BY DEF ToTell
    <2> QED
      BY <2>1 DEF Detection, Bodies
  <1>5. ds \in [1..n -> Bodies]
    BY <1>2, <1>4
  <1> HIDE DEF n, ds, e
  <1>6. ds \in Seq(Bodies) /\ Len(ds) = n
    BY <1>1, <1>5, SeqDef
  <1>7. Report(order, g, found) = Append(ds, e)
    BY DEF Report, ds, e
  <1>8. /\ Append(ds, e) \in Seq(Bodies) /\ Len(Append(ds, e)) = n + 1
        /\ \A i \in 1..n : Append(ds, e)[i] = ds[i]
        /\ Append(ds, e)[n + 1] = e
    BY <1>3, <1>6, AppendProperties
  <1>9. \A i \in 1..n : ds[i] = Detection(order[i])
    BY <1>2 DEF ds
  <1> QED
    BY <1>1, <1>2, <1>7, <1>8, <1>9 DEF n, e

LEMMA BusStep == BusInv /\ [Next]_vars => BusInv'
  <1> SUFFICES ASSUME BusInv, [Next]_vars PROVE BusInv'
    OBVIOUS
  <1>1. ASSUME UNCHANGED bus PROVE BusInv'
    <2>1. BusTypes' /\ HistoryOK'
      BY <1>1 DEF bus, BusInv, BusTypes, HistoryOK
    <2>2. ASSUME NEW p \in joined' PROVE QueueOK(p)'
      BY <1>1, <2>2 DEF bus, BusInv, QueueOK
    <2> QED
      BY <2>1, <2>2 DEF BusInv
  <1>2. CASE Start
    BY <1>2, StatusPublished, PublishOK DEF Start
  <1>3. CASE ListVms
    BY <1>1, <1>3, StatusPublished, PublishOK DEF ListVms
  <1>4. ASSUME NEW g \in Guests, ScanFails(g) PROVE BusInv'
    BY <1>4, StatusPublished, PublishOK DEF ScanFails
  <1>5. ASSUME NEW g \in Guests, NEW found \in SUBSET ({g} \X Subjects), Scan(g, found)
        PROVE BusInv'
    BY <1>5, ReportIs, PublishOK DEF Scan
  <1>6. ASSUME NEW p \in Pages, Connect(p) PROVE BusInv'
    BY <1>6, SubscribeOK DEF Connect
  <1>7. ASSUME NEW p \in Pages, Disconnect(p) PROVE BusInv'
    BY <1>7, UnsubscribeOK DEF Disconnect
  <1>8. ASSUME NEW p \in Pages, GetsReady(p) PROVE BusInv'
    BY <1>8, ReadyOK DEF GetsReady
  <1>9. ASSUME NEW p \in Pages, DashboardGets(p) PROVE BusInv'
    BY <1>9, SendOK DEF DashboardGets
  <1>10. ASSUME NEW p \in Pages, IntrospectGets(p) PROVE BusInv'
    <2>1. Send(p, ~Reloads(p, Head(queue[p]).body)) /\ (~Reloads(p, Head(queue[p]).body)) \in BOOLEAN
      BY <1>10 DEF IntrospectGets, Reloads, Concerns
    <2> QED
      BY <2>1, SendOK
  <1>11. ASSUME NEW p \in Pages, LoadDashboard(p) \/ LoadIntrospect(p) PROVE BusInv'
    BY <1>1, <1>11 DEF LoadDashboard, LoadIntrospect, Load
  <1>12. CASE Stop \/ Forget \/ PassBreaks \/ UNCHANGED vars
    BY <1>1, <1>12 DEF Stop, Forget, PassBreaks, vars
  <1> QED
    BY <1>2, <1>3, <1>4, <1>5, <1>6, <1>7, <1>8, <1>9, <1>10, <1>11, <1>12 DEF Next

LEMMA BusStart == Init => BusInv
  <1> SUFFICES ASSUME Init PROVE BusInv
    OBVIOUS
  <1>1. <<>> \in Seq(Event) /\ Len(<<>>) = 0
    OBVIOUS
  <1> QED
    BY <1>1 DEF Init, BusInit, BusInv, BusTypes, HistoryOK

-----------------------------------------------------------------------------
(* The types of the scanner and of the pages. *)

Counts == 0..Cardinality(Subjects) \cup {Null}

ViewTypes ==
    /\ joined = {p \in Pages : phase[p] = "joined"}
    /\ scanning \in BOOLEAN /\ todo \subseteq Guests
    /\ reported \subseteq Findings /\ latest \subseteq reported
    /\ phase \in [Pages -> {"blank", "loaded", "joined", "reloading"}]
    /\ path \in [Pages -> {"dashboard", "introspect"}]
    /\ shown \in [Pages -> SUBSET Findings]
    /\ viewed \in [Pages -> Guests \cup {None}]
    /\ lastCount \in [Pages -> Counts]
    /\ announced \in [Findings -> Nat]
    /\ told \in [Guests -> Counts]
    /\ news \in [Pages -> BOOLEAN] /\ cut \in [Pages -> BOOLEAN]

LEMMA TypesTogether == BusInv /\ ViewTypes => TypeOK
  <1> SUFFICES ASSUME BusInv, ViewTypes PROVE TypeOK
    OBVIOUS
  <1>1. Len(history) <= HistoryLimit
    BY DEF BusInv, BusTypes, HistoryOK
  <1>2. ASSUME NEW p \in Pages PROVE Len(queue[p]) <= QueueLimit
    <2>1. CASE p \in joined
      BY <2>1 DEF BusInv, QueueOK
    <2>2. CASE p \notin joined
      BY <2>2 DEF BusInv, BusTypes
    <2> QED
      BY <2>1, <2>2
  <1> QED
    BY <1>1, <1>2 DEF BusInv, BusTypes, HistoryOK, ViewTypes, Counts, TypeOK

LEMMA ViewStart == Init => ViewTypes
  <1> SUFFICES ASSUME Init PROVE ViewTypes
    OBVIOUS
  <1>1. joined = {p \in Pages : phase[p] = "joined"}
    BY DEF Init, BusInit
  <1>2. Null \in Counts
    BY DEF Counts
  <1> QED
    BY <1>1, <1>2 DEF Init, ViewTypes

LEMMA ScanTypes ==
  ASSUME BusInv, ViewTypes, NEW g \in Guests, NEW found \in SUBSET ({g} \X Subjects),
         Scan(g, found)
  PROVE  ViewTypes'
  <1>1. /\ found \subseteq Findings /\ Cardinality(found) \in Counts
        /\ published \in Nat
    BY Counted DEF Counts, BusInv, BusTypes
  <1>2. PICK order \in Orders(ToTell(found)) :
          /\ Publish(Report(order, g, found))
          /\ announced' = [d \in Findings |-> IF d \in ToTell(found)
                              THEN published + (CHOOSE i \in DOMAIN order : order[i] = d)
                              ELSE announced[d]]
    BY DEF Scan
  <1>3. announced' \in [Findings -> Nat]
    <2>1. ASSUME NEW d \in ToTell(found)
          PROVE (CHOOSE i \in DOMAIN order : order[i] = d) \in DOMAIN order
      BY <1>2 DEF Orders
    <2>2. DOMAIN order \subseteq Nat
      BY ReportIs
    <2>3. ASSUME NEW d \in Findings PROVE announced'[d] \in Nat
      <3>1. CASE d \in ToTell(found)
        <4>1. (CHOOSE i \in DOMAIN order : order[i] = d) \in Nat
          BY <2>1, <2>2, <3>1
        <4>2. announced'[d] = published + (CHOOSE i \in DOMAIN order : order[i] = d)
          BY <1>2, <3>1
        <4> QED
          BY <1>1, <4>1, <4>2
      <3>2. CASE d \notin ToTell(found)
        BY <1>2, <3>2 DEF ViewTypes
      <3> QED
        BY <3>1, <3>2
    <2> QED
      BY <1>2, <2>3
  <1>4. joined' = joined
    BY <1>2 DEF Publish
  <1>5. latest' \subseteq reported' /\ reported' \subseteq Findings
    BY <1>1 DEF Scan, ViewTypes
  <1>6. told' \in [Guests -> Counts] /\ news' \in [Pages -> BOOLEAN]
    <2>1. told' \in [Guests -> Counts]
      BY <1>1 DEF Scan, ViewTypes
    <2>2. news' = [p \in Pages |-> news[p] \/ /\ viewed[p] = g
                                              /\ told[g] \notin {Null, Cardinality(found)}]
      BY DEF Scan
    <2>3. \A p \in Pages : news[p] \in BOOLEAN
      BY DEF ViewTypes
    <2> HIDE DEF ViewTypes
    <2> QED
      BY <2>1, <2>2, <2>3, Zenon
  <1> QED
    BY <1>3, <1>4, <1>5, <1>6 DEF Scan, ViewTypes, scanner, pages

LEMMA ViewStep == BusInv /\ ViewTypes /\ [Next]_vars => ViewTypes'
  <1> SUFFICES ASSUME BusInv, ViewTypes, [Next]_vars PROVE ViewTypes'
    OBVIOUS
  <1>1. CASE Start \/ Stop \/ Forget \/ ListVms \/ PassBreaks
    BY <1>1 DEF Start, Stop, Forget, ListVms, PassBreaks, Publish, ViewTypes, bus, pages
  <1>2. ASSUME NEW g \in Guests, ScanFails(g) PROVE ViewTypes'
    BY <1>2 DEF ScanFails, Publish, ViewTypes, pages
  <1>3. ASSUME NEW g \in Guests, NEW found \in SUBSET ({g} \X Subjects), Scan(g, found)
        PROVE ViewTypes'
    BY <1>3, ScanTypes
  <1>4. ASSUME NEW p \in Pages, LoadDashboard(p) \/ LoadIntrospect(p) PROVE ViewTypes'
    <2> USE DEF ViewTypes
    <2>1. PICK to \in {"dashboard", "introspect"}, findings \in SUBSET Findings,
               guest \in Guests \cup {None} : phase[p] # "joined" /\ Load(p, to, findings, guest)
      <3>1. CASE LoadDashboard(p)
        <4>1. /\ AllDetections \in SUBSET Findings /\ phase[p] # "joined"
              /\ Load(p, "dashboard", AllDetections, None)
          BY <3>1 DEF LoadDashboard, AllDetections
        <4> QED
          BY <4>1
      <3>2. CASE LoadIntrospect(p)
        BY <3>2 DEF LoadIntrospect
      <3> QED
        BY <1>4, <3>1, <3>2
    <2>2. /\ Null \in Counts
          /\ joined' = {q \in Pages : phase'[q] = "joined"}
      BY <2>1 DEF Load, bus, Counts
    <2> QED
      BY <2>1, <2>2 DEF Load, scanner
  <1>5. ASSUME NEW p \in Pages, Connect(p) PROVE ViewTypes'
    BY <1>5 DEF Connect, Subscribe, ViewTypes, scanner
  <1>6. ASSUME NEW p \in Pages, Disconnect(p) PROVE ViewTypes'
    <2>1. cut' \in [Pages -> BOOLEAN]
      <3>1. (cut[p] \/ ~live[p]) \in BOOLEAN
        BY Zenon
      <3> QED
        BY <1>6, <3>1 DEF Disconnect, ViewTypes
    <2> QED
      BY <1>6, <2>1 DEF Disconnect, Unsubscribe, Unsubscribed, ViewTypes, scanner
  <1>7. ASSUME NEW p \in Pages, GetsReady(p) PROVE ViewTypes'
    BY <1>7 DEF GetsReady, Ready, ViewTypes, scanner, pages
  <1>8. ASSUME NEW p \in Pages, DashboardGets(p) PROVE ViewTypes'
    <2> DEFINE body == Head(queue[p]).body
    <2>1. /\ Send(p, TRUE) /\ joined' = joined
          /\ shown' = [shown EXCEPT ![p] = IF body.type = "detection"
                                     THEN @ \cup {<<body.vm, body.item>>} ELSE @]
      BY <1>8 DEF DashboardGets, Send
    <2>2. body \in Bodies
      BY <2>1, SendOK DEF Event
    <2>3. body.type = "detection" => <<body.vm, body.item>> \in Findings
      BY <2>2 DEF Bodies, Findings
    <2> QED
      BY <1>8, <2>1, <2>3 DEF DashboardGets, ViewTypes, scanner
  <1>9. ASSUME NEW p \in Pages, IntrospectGets(p) PROVE ViewTypes'
    <2> DEFINE body == Head(queue[p]).body
               reloads == Reloads(p, body)
    <2>1. /\ Send(p, ~reloads) /\ (~reloads) \in BOOLEAN
          /\ phase' = [phase EXCEPT ![p] = IF reloads THEN "reloading" ELSE @]
          /\ lastCount' = [lastCount EXCEPT ![p] = IF Concerns(p, body) THEN body.item ELSE @]
      BY <1>9 DEF IntrospectGets, Reloads, Concerns
    <2>2. body \in Bodies
      BY <2>1, SendOK DEF Event
    <2>3. Concerns(p, body) => body.item \in Counts
      BY <2>2 DEF Concerns, Bodies, Counts
    <2>4. joined' = IF reloads THEN joined \ {p} ELSE joined
      BY <2>1 DEF Send, Unsubscribed
    <2>5. p \in joined
      BY <2>1 DEF Send, Sendable
    <2> HIDE DEF body, reloads
    <2>6. joined' = {q \in Pages : phase'[q] = "joined"}
      BY <2>1, <2>4, <2>5 DEF ViewTypes
    <2>7. /\ phase' \in [Pages -> {"blank", "loaded", "joined", "reloading"}]
          /\ lastCount' \in [Pages -> Counts]
      BY <2>1, <2>3 DEF ViewTypes
    <2> QED
      BY <1>9, <2>6, <2>7 DEF IntrospectGets, ViewTypes, scanner
  <1>10. CASE UNCHANGED vars
    BY <1>10 DEF vars, bus, scanner, pages, ViewTypes
  <1> QED
    BY <1>1, <1>2, <1>3, <1>4, <1>5, <1>6, <1>7, <1>8, <1>9, <1>10 DEF Next

LEMMA Types == Spec => [](BusInv /\ ViewTypes)
  <1>1. Init => BusInv /\ ViewTypes
    BY BusStart, ViewStart
  <1>2. (BusInv /\ ViewTypes) /\ [Next]_vars => (BusInv /\ ViewTypes)'
    BY BusStep, ViewStep
  <1> QED
    BY <1>1, <1>2, PTL DEF Spec

(* Every variable has its type, history and queues keep their limits, and a  *)
(* page has a place on the bus exactly while its stream is open (events.py).  *)
THEOREM TypeCorrect == Spec => []TypeOK
  BY Types, TypesTogether, PTL

-----------------------------------------------------------------------------
(* The marker. *)

LEMMA BoundaryStep ==
  ASSUME BusInv, [Next]_vars
  PROVE  \A p \in Pages : at'[p] \notin {0, at[p]} =>
             at'[p] > at[p] /\ (live[p] <=> at'[p] > since[p])
  <1> USE DEF BusInv, BusTypes
  <1> SUFFICES ASSUME NEW p \in Pages, at'[p] \notin {0, at[p]}
               PROVE  at'[p] > at[p] /\ (live[p] <=> at'[p] > since[p])
    OBVIOUS
  <1>1. ASSUME NEW q \in Pages, NEW stays \in BOOLEAN, Send(q, stays)
        PROVE  at'[p] > at[p] /\ (live[p] <=> at'[p] > since[p])
    <2>1. at' = [at EXCEPT ![q] = Head(queue[q]).n]
      BY <1>1 DEF Send
    <2>2. p = q
      BY <2>1
    <2> QED
      BY <1>1, <2>2, SendOK
  <1>2. ASSUME NEW q \in Pages, DashboardGets(q)
        PROVE  at'[p] > at[p] /\ (live[p] <=> at'[p] > since[p])
    BY <1>1, <1>2 DEF DashboardGets
  <1>3. ASSUME NEW q \in Pages, IntrospectGets(q)
        PROVE  at'[p] > at[p] /\ (live[p] <=> at'[p] > since[p])
    <2>1. /\ Send(q, ~Reloads(q, Head(queue[q]).body))
          /\ (~Reloads(q, Head(queue[q]).body)) \in BOOLEAN
      BY <1>3 DEF IntrospectGets, Reloads, Concerns
    <2> QED
      BY <1>1, <2>1
  <1>4. CASE at' = at
    BY <1>4
  <1>5. ASSUME NEW q \in Pages, Connect(q) \/ Disconnect(q) PROVE FALSE
    BY <1>5 DEF Connect, Disconnect, Subscribe, Unsubscribe
  <1>6. CASE Start \/ Stop \/ Forget \/ ListVms \/ PassBreaks
    BY <1>4, <1>6 DEF Start, Stop, Forget, ListVms, PassBreaks, Publish, bus
  <1>7. ASSUME NEW g \in Guests, \/ ScanFails(g)
                                 \/ \E found \in SUBSET ({g} \X Subjects) : Scan(g, found)
        PROVE  at' = at
    BY <1>7 DEF ScanFails, Scan, Publish
  <1>8. ASSUME NEW q \in Pages, LoadDashboard(q) \/ LoadIntrospect(q) \/ GetsReady(q)
        PROVE  at' = at
    BY <1>8 DEF LoadDashboard, LoadIntrospect, GetsReady, Load, Ready, bus
  <1>9. CASE UNCHANGED vars
    BY <1>4, <1>9 DEF vars, bus
  <1> QED
    BY <1>2, <1>3, <1>4, <1>5, <1>6, <1>7, <1>8, <1>9 DEF Next

(* On a stream, events come in the order published, the ready marker between *)
(* those published before the page subscribed and those after.               *)
THEOREM MarkerAtBoundary == Spec => Boundary
  <1>1. BusInv /\ [Next]_vars =>
          [\A p \in Pages : at'[p] \notin {0, at[p]} =>
                    /\ at'[p] > at[p]
                    /\ live[p] <=> at'[p] > since[p]]_vars
    BY BoundaryStep
  <1> QED
    BY <1>1, Types, PTL DEF Spec, Boundary

-----------------------------------------------------------------------------
(* What a dashboard shows. *)

AnnouncedOK ==
    \A d \in Findings :
        /\ announced[d] <= published
        /\ \A i \in 1..Len(history) :
              announced[d] # 0 /\ history[i].n = announced[d] => history[i].body = Detection(d)

(* A finding the page is owed is on it or on its way. *)
Owed(p, d) == announced[d] # 0 /\ announced[d] > since[p] - HistoryLimit
Coming(p, d) == \E i \in 1..Len(queue[p]) : queue[p][i].body = Detection(d)

SeenOK(p) ==
    path[p] = "dashboard" /\ ~dropped[p] =>
        \A d \in Findings : Owed(p, d) => d \in shown[p] \/ Coming(p, d)

SeenInv ==
    /\ AnnouncedOK
    /\ \A p \in joined : SeenOK(p)
    /\ \A p \in Pages : live[p] => p \in joined

Inv == BusInv /\ ViewTypes /\ SeenInv

LEMMA PublishParts ==
  ASSUME Inv, NEW b \in Seq(Bodies), Publish(b)
  PROVE  /\ published' = published + Len(b) /\ published \in Nat /\ Len(b) \in Nat
         /\ announced \in [Findings -> Nat] /\ history \in Seq(Event)
         /\ \A i \in 1..Len(history') :
               \/ \E j \in 1..Len(history) : history'[i] = history[j]
               \/ \E j \in 1..Len(b) : history'[i] = [n |-> published + j, body |-> b[j]]
  <1>1. BusInv /\ published \in Nat /\ announced \in [Findings -> Nat] /\ history \in Seq(Event)
    BY DEF Inv, BusInv, BusTypes, ViewTypes, HistoryOK
  <1>2. Len(b) \in Nat
    OBVIOUS
  <1>3. /\ published' = published + Len(b)
        /\ \A i \in 1..Len(history') :
               \/ \E j \in 1..Len(history) : history'[i] = history[j]
               \/ \E j \in 1..Len(b) : history'[i] = [n |-> published + j, body |-> b[j]]
    BY <1>1, PublishAdds
  <1> QED
    BY <1>1, <1>2, <1>3

LEMMA StillComing ==
  ASSUME Inv, NEW b \in Seq(Bodies), Publish(b), NEW p \in joined, NEW d \in Findings, Coming(p, d)
  PROVE  Coming(p, d)'
  <1>1. /\ queue[p] \in Seq(Event) /\ queue'[p] \in Seq(Event)
        /\ Len(queue[p]) <= Len(queue'[p])
        /\ \A i \in 1..Len(queue[p]) : queue'[p][i] = queue[p][i]
    BY PublishQueues DEF Inv, BusInv, QueueOK
  <1>2. PICK i \in 1..Len(queue[p]) : queue[p][i].body = Detection(d)
    BY DEF Coming
  <1>3. Len(queue[p]) \in Nat /\ Len(queue'[p]) \in Nat
    BY <1>1
  <1>4. i \in 1..Len(queue'[p]) /\ queue'[p][i].body = Detection(d)
    BY <1>1, <1>2, <1>3
  <1> QED
    BY <1>4 DEF Coming, Detection

LEMMA QuietSeen ==
  ASSUME Inv, NEW b \in Seq(Bodies), Publish(b),
         announced' = announced, path' = path, shown' = shown
  PROVE  SeenInv'
  <1>1. /\ published' = published + Len(b) /\ published \in Nat /\ Len(b) \in Nat
        /\ announced \in [Findings -> Nat] /\ history \in Seq(Event)
        /\ \A i \in 1..Len(history') :
               \/ \E j \in 1..Len(history) : history'[i] = history[j]
               \/ \E j \in 1..Len(b) : history'[i] = [n |-> published + j, body |-> b[j]]
    BY PublishParts
  <1>2. AnnouncedOK'
    <2> SUFFICES ASSUME NEW d \in Findings
                 PROVE  /\ announced[d] <= published'
                        /\ \A i \in 1..Len(history') :
                              announced[d] # 0 /\ history'[i].n = announced[d] =>
                                  history'[i].body = Detection(d)
      BY DEF AnnouncedOK, Detection
    <2>1. announced[d] \in Nat /\ announced[d] <= published
      BY <1>1 DEF Inv, SeenInv, AnnouncedOK
    <2>2. ASSUME NEW i \in 1..Len(history'), announced[d] # 0, history'[i].n = announced[d]
          PROVE  history'[i].body = Detection(d)
      <3>1. ~ \E j \in 1..Len(b) : history'[i] = [n |-> published + j, body |-> b[j]]
        <4> SUFFICES ASSUME NEW j \in 1..Len(b),
                            history'[i] = [n |-> published + j, body |-> b[j]]
                     PROVE  FALSE
          OBVIOUS
        <4>1. announced[d] = published + j
          BY <2>2
        <4> QED
          BY <1>1, <2>1, <4>1
      <3>2. PICK j \in 1..Len(history) : history'[i] = history[j]
        BY <1>1, <3>1
      <3> QED
        BY <2>2, <3>2 DEF Inv, SeenInv, AnnouncedOK
    <2> QED
      BY <1>1, <2>1, <2>2
  <1>3. joined' = joined /\ live' = live /\ since' = since
    BY DEF Publish
  <1>4. ASSUME NEW p \in joined PROVE SeenOK(p)'
    <2> SUFFICES ASSUME path[p] = "dashboard", ~dropped'[p], NEW d \in Findings, Owed(p, d)
                 PROVE  d \in shown[p] \/ Coming(p, d)'
      BY <1>3 DEF SeenOK, Owed
    <2>1. ~dropped[p]
      BY PublishQueues DEF Inv
    <2>2. d \in shown[p] \/ Coming(p, d)
      BY <2>1 DEF Inv, SeenInv, SeenOK
    <2> QED
      BY <2>2, StillComing
  <1> QED
    BY <1>2, <1>3, <1>4 DEF Inv, SeenInv

(* What a scan announces goes to every queue with room. *)
LEMMA ScanSeen ==
  ASSUME Inv, NEW g \in Guests, NEW found \in SUBSET ({g} \X Subjects), Scan(g, found)
  PROVE  SeenInv'
  <1> DEFINE n == Cardinality(ToTell(found))
             told2 == ToTell(found)
             b(order) == Report(order, g, found)
             at2(order) == [d \in Findings |-> IF d \in told2
                              THEN published + (CHOOSE i \in DOMAIN order : order[i] = d)
                              ELSE announced[d]]
  <1>1. PICK order \in Orders(told2) : Publish(b(order)) /\ announced' = at2(order)
    BY DEF Scan
  <1>2. /\ DOMAIN order = 1..n /\ n \in Nat
        /\ b(order) \in Seq(Bodies) /\ Len(b(order)) = n + 1
        /\ \A i \in 1..n : b(order)[i] = Detection(order[i])
    BY ReportIs
  <1> DEFINE r == b(order)
             num(d) == CHOOSE i \in DOMAIN order : order[i] = d
  <1>3. ASSUME NEW d \in told2 PROVE num(d) \in 1..n /\ order[num(d)] = d
    <2>1. \E i \in DOMAIN order : order[i] = d
      BY DEF Orders
    <2>2. num(d) \in DOMAIN order /\ order[num(d)] = d
      BY <2>1
    <2> QED
      BY <1>2, <2>2
  <1>4. \A d \in Findings : announced'[d] = IF d \in told2 THEN published + num(d) ELSE announced[d]
    BY <1>1
  <1> HIDE DEF n, told2, num, b, at2
  <1>5. \A d \in told2 : num(d) \in 1..Len(r) /\ num(d) # n + 1 /\ r[num(d)] = Detection(d)
    BY <1>2, <1>3
  <1>6. Publish(r) /\ r \in Seq(Bodies)
    BY <1>1, <1>2
  <1>7. /\ published' = published + Len(r) /\ published \in Nat /\ Len(r) \in Nat
        /\ announced \in [Findings -> Nat] /\ history \in Seq(Event)
        /\ \A i \in 1..Len(history') :
               \/ \E j \in 1..Len(history) : history'[i] = history[j]
               \/ \E j \in 1..Len(r) : history'[i] = [n |-> published + j, body |-> r[j]]
    BY <1>6, PublishParts
  <1> HIDE DEF r
  <1>8. \A d \in Findings : announced[d] \in Nat /\ announced[d] <= published
    BY <1>7 DEF Inv, SeenInv, AnnouncedOK
  <1>9. AnnouncedOK'
    <2> SUFFICES ASSUME NEW d \in Findings
                 PROVE  /\ announced'[d] <= published'
                        /\ \A i \in 1..Len(history') :
                              announced'[d] # 0 /\ history'[i].n = announced'[d] =>
                                  history'[i].body = Detection(d)
      BY DEF AnnouncedOK, Detection
    <2>1. announced'[d] <= published'
      <3>1. CASE d \in told2
        <4>1. num(d) \in 1..Len(r) /\ announced'[d] = published + num(d)
          BY <3>1, <1>4, <1>5
        <4> QED
          BY <4>1, <1>7
      <3>2. CASE d \notin told2
        BY <3>2, <1>4, <1>7, <1>8
      <3> QED
        BY <3>1, <3>2
    <2>2. ASSUME NEW i \in 1..Len(history'), announced'[d] # 0, history'[i].n = announced'[d]
          PROVE  history'[i].body = Detection(d)
      <3>1. CASE \E j \in 1..Len(history) : history'[i] = history[j]
        <4>1. PICK j \in 1..Len(history) : history'[i] = history[j]
          BY <3>1
        <4>2. history[j].n <= published
          <5>1. /\ history[j].n = published - Len(history) + j
                /\ Len(history) \in Nat
            BY DEF Inv, BusInv, HistoryOK
          <5> QED
            BY <5>1, <1>7
        <4>3. d \notin told2
          <5> SUFFICES ASSUME d \in told2 PROVE FALSE
            OBVIOUS
          <5>1. num(d) \in 1..Len(r) /\ history[j].n = published + num(d)
            BY <1>4, <1>5, <2>2, <4>1
          <5> QED
            BY <5>1, <4>2, <1>7
        <4> QED
          BY <1>4, <2>2, <4>1, <4>3 DEF Inv, SeenInv, AnnouncedOK
      <3>2. CASE \E j \in 1..Len(r) : history'[i] = [n |-> published + j, body |-> r[j]]
        <4>1. PICK j \in 1..Len(r) : history'[i] = [n |-> published + j, body |-> r[j]]
          BY <3>2
        <4>2. announced'[d] = published + j
          BY <2>2, <4>1
        <4>3. d \in told2
          BY <1>4, <1>7, <1>8, <4>2
        <4>4. num(d) \in 1..Len(r) /\ announced'[d] = published + num(d)
          BY <1>4, <1>5, <4>3
        <4>5. j = num(d)
          BY <1>7, <4>2, <4>4
        <4> QED
          BY <1>5, <4>1, <4>3, <4>5
      <3> QED
        BY <3>1, <3>2, <1>7
    <2> QED
      BY <2>1, <2>2
  <1>10. /\ joined' = joined /\ live' = live /\ since' = since
         /\ path' = path /\ shown' = shown
    BY <1>6 DEF Publish, Scan, pages
  <1>11. ASSUME NEW p \in joined PROVE SeenOK(p)'
    <2> SUFFICES ASSUME path[p] = "dashboard", ~dropped'[p], NEW d \in Findings, Owed(p, d)'
                 PROVE  d \in shown[p] \/ Coming(p, d)'
      BY <1>10 DEF SeenOK
    <2>1. ~dropped[p] /\ Len(queue'[p]) = Len(queue[p]) + Len(r)
      BY <1>6, PublishQueues DEF Inv
    <2>2. CASE d \in told2
      <3>1. /\ queue[p] \in Seq(Event) /\ Len(queue[p]) \in Nat
            /\ \A i \in Len(queue[p])+1..Len(queue'[p]) :
                  queue'[p][i] = [n |-> published + (i - Len(queue[p])), body |-> r[i - Len(queue[p])]]
        <4>1. queue[p] \in Seq(Event)
          BY DEF Inv, BusInv, QueueOK
        <4>2. \A i \in Len(queue[p])+1..Len(queue'[p]) :
                  queue'[p][i] = [n |-> published + (i - Len(queue[p])), body |-> r[i - Len(queue[p])]]
          BY <1>6, PublishQueues DEF Inv
        <4> QED
          BY <4>1, <4>2
      <3> DEFINE k == Len(queue[p]) + num(d)
      <3>2. /\ k \in Len(queue[p])+1..Len(queue'[p]) /\ k - Len(queue[p]) = num(d)
            /\ k \in 1..Len(queue'[p])
        <4>1. num(d) \in 1..Len(r)
          BY <1>5, <2>2
        <4> HIDE DEF num
        <4>2. Len(queue'[p]) = Len(queue[p]) + Len(r) /\ Len(queue[p]) \in Nat /\ Len(r) \in Nat
          BY <1>7, <2>1, <3>1
        <4> QED
          BY <4>1, <4>2
      <3> HIDE DEF k
      <3>3. queue'[p][k] = [n |-> published + num(d), body |-> r[num(d)]]
        BY <3>1, <3>2
      <3>4. queue'[p][k].body = Detection(d)
        BY <1>5, <2>2, <3>3
      <3> QED
        BY <3>2, <3>4 DEF Coming, Detection
    <2>3. CASE d \notin told2
      <3>1. Owed(p, d)
        BY <1>4, <1>10, <2>3 DEF Owed
      <3>2. d \in shown[p] \/ Coming(p, d)
        BY <2>1, <3>1 DEF Inv, SeenInv, SeenOK
      <3> QED
        BY <3>2, <1>6, StillComing
    <2> QED
      BY <2>2, <2>3
  <1> QED
    BY <1>9, <1>10, <1>11 DEF Inv, SeenInv

(* A page that connects is owed what the history holds. *)
LEMMA ConnectSeen == ASSUME Inv, NEW p \in Pages, Connect(p) PROVE SeenInv'
  <1>1. /\ history \in Seq(Event) /\ published \in Nat /\ Len(history) \in Nat
        /\ Len(history) = IF published > HistoryLimit THEN HistoryLimit ELSE published
        /\ \A i \in 1..Len(history) : history[i].n = published - Len(history) + i
    BY DEF Inv, BusInv, BusTypes, HistoryOK
  <1>2. /\ queue'[p] = Replayed /\ since'[p] = published
        /\ joined' = joined \cup {p}
        /\ live' = [live EXCEPT ![p] = FALSE]
        /\ live \in [Pages -> BOOLEAN]
        /\ \A q \in joined : q # p => queue'[q] = queue[q] /\ since'[q] = since[q] /\ dropped'[q] = dropped[q]
        /\ history' = history /\ published' = published
        /\ path' = path /\ shown' = shown /\ announced' = announced
    BY DEF Connect, Subscribe, Inv, BusInv, BusTypes
  <1>3. /\ Replayed \in Seq(Event) /\ Len(Replayed) = Len(history)
        /\ \A i \in 1..Len(history) : Replayed[i] = history[i]
    <2>1. /\ Replayed \in Seq(Event)
          /\ Len(Replayed) = IF Len(history) > QueueLimit THEN QueueLimit ELSE Len(history)
          /\ \A i \in 1..Len(Replayed) : Replayed[i] = history[i]
      BY <1>1, FittingKeeps DEF Replayed
    <2> QED
      BY <1>1, <2>1
  <1>4. SeenOK(p)'
    <2> SUFFICES ASSUME NEW d \in Findings, Owed(p, d)' PROVE Coming(p, d)'
      BY DEF SeenOK
    <2>1. /\ announced[d] \in Nat /\ announced[d] # 0 /\ announced[d] <= published
          /\ announced[d] > published - HistoryLimit
      BY <1>2 DEF Owed, Inv, SeenInv, AnnouncedOK, ViewTypes
    <2> DEFINE i == announced[d] - published + Len(history)
    <2>2. i \in 1..Len(history) /\ history[i].n = announced[d]
      <3> DEFINE a == announced[d]
                 m == Len(history)
      <3>2. /\ a \in Nat /\ a # 0 /\ a <= published /\ a > published - HistoryLimit
            /\ m \in Nat /\ published \in Nat
            /\ m = IF published > HistoryLimit THEN HistoryLimit ELSE published
        BY <1>1, <2>1
      <3> HIDE DEF a, m
      <3>3. a - published + m \in 1..m /\ published - m + (a - published + m) = a
        BY <3>2
      <3>1. i \in 1..Len(history) /\ published - Len(history) + i = announced[d]
        BY <3>3 DEF a, m
      <3> QED
        BY <1>1, <3>1
    <2> HIDE DEF i
    <2>3. history[i].body = Detection(d)
      BY <2>1, <2>2 DEF Inv, SeenInv, AnnouncedOK
    <2>4. i \in 1..Len(queue'[p]) /\ queue'[p][i].body = Detection(d)
      BY <1>2, <1>3, <2>2, <2>3
    <2> QED
      BY <2>4 DEF Coming, Detection
  <1>5. ASSUME NEW q \in joined, q # p PROVE SeenOK(q)'
    BY <1>2, <1>5 DEF Inv, SeenInv, SeenOK, Owed, Coming, Detection
  <1>6. AnnouncedOK'
    BY <1>2 DEF Inv, SeenInv, AnnouncedOK, Detection
  <1> QED
    BY <1>2, <1>4, <1>5, <1>6 DEF Inv, SeenInv

(* What the page is sent it shows. *)
LEMMA DashboardSeen == ASSUME Inv, NEW p \in Pages, DashboardGets(p) PROVE SeenInv'
  <1> DEFINE body == Head(queue[p]).body
  <1>1. /\ Send(p, TRUE)
        /\ shown' = [shown EXCEPT ![p] = IF body.type = "detection"
                                     THEN @ \cup {<<body.vm, body.item>>} ELSE @]
        /\ path' = path /\ announced' = announced
    BY DEF DashboardGets
  <1>2. /\ p \in joined /\ joined' = joined /\ live' = live /\ history' = history
        /\ published' = published /\ since' = since /\ dropped' = dropped
        /\ \A q \in joined : q # p => queue'[q] = queue[q]
    BY <1>1 DEF Send, Sendable, Inv, BusInv, BusTypes
  <1>3. /\ Head(queue[p]) = queue[p][1]
        /\ queue[p] \in Seq(Event) /\ queue'[p] \in Seq(Event) /\ Len(queue'[p]) = Len(queue[p]) - 1
        /\ \A i \in 1..Len(queue'[p]) : queue'[p][i] = queue[p][i + 1]
    <2>1. BusInv /\ TRUE \in BOOLEAN
      BY DEF Inv
    <2>2. /\ Head(queue[p]) = queue[p][1]
          /\ queue'[p] \in Seq(Event) /\ Len(queue'[p]) = Len(queue[p]) - 1
          /\ \A i \in 1..Len(queue'[p]) : queue'[p][i] = queue[p][i + 1]
      BY <1>1, <2>1, SendOK
    <2> QED
      BY <2>1, <2>2 DEF BusInv, BusTypes
  <1>4. shown'[p] = IF body.type = "detection"
                    THEN shown[p] \cup {<<body.vm, body.item>>} ELSE shown[p]
    BY <1>1 DEF Inv, ViewTypes
  <1>5. SeenOK(p)'
    <2> SUFFICES ASSUME path[p] = "dashboard", ~dropped[p], NEW d \in Findings, Owed(p, d)
                 PROVE  d \in shown'[p] \/ Coming(p, d)'
      BY <1>1, <1>2 DEF SeenOK, Owed
    <2>1. CASE d \in shown[p]
      BY <1>4, <2>1
    <2>2. CASE Coming(p, d)
      <3>1. PICK i \in 1..Len(queue[p]) : queue[p][i].body = Detection(d)
        BY <2>2 DEF Coming
      <3>2. CASE i = 1
        <4>1. body = Detection(d) /\ d = <<d[1], d[2]>>
          BY <1>3, <3>1, <3>2 DEF Findings
        <4>2. body.type = "detection" /\ body.vm = d[1] /\ body.item = d[2]
          BY <4>1 DEF Detection
        <4>3. <<body.vm, body.item>> = d
          BY <4>1, <4>2
        <4> HIDE DEF body
        <4> QED
          BY <1>4, <4>2, <4>3
      <3>3. CASE i # 1
        <4> DEFINE k == i - 1
        <4>1. k \in 1..Len(queue'[p]) /\ i = k + 1
          BY <1>3, <3>1, <3>3
        <4> HIDE DEF k
        <4>2. queue'[p][k].body = Detection(d)
          BY <1>3, <3>1, <4>1
        <4> QED
          BY <4>1, <4>2 DEF Coming, Detection
      <3> QED
        BY <3>2, <3>3
    <2>3. d \in shown[p] \/ Coming(p, d)
      BY <1>2 DEF Inv, SeenInv, SeenOK
    <2> QED
      BY <2>1, <2>2, <2>3
  <1>6. ASSUME NEW q \in joined, q # p PROVE SeenOK(q)'
    <2>1. q \in Pages /\ shown'[q] = shown[q]
      BY <1>1, <1>6 DEF Inv, BusInv, BusTypes, ViewTypes
    <2> QED
      BY <1>1, <1>2, <1>6, <2>1 DEF Inv, SeenInv, SeenOK, Owed, Coming, Detection
  <1>7. AnnouncedOK'
    BY <1>1, <1>2 DEF Inv, SeenInv, AnnouncedOK, Detection
  <1> QED
    BY <1>2, <1>5, <1>6, <1>7 DEF Inv, SeenInv

(* A step of the others: nothing is published, and what it does to a page   *)
(* does not concern an open dashboard.                                       *)
LEMMA OthersSeen ==
  ASSUME Inv, announced' = announced, history' = history, published' = published,
         joined' \subseteq joined,
         \A p \in joined' : /\ path'[p] = path[p]
                            /\ path[p] = "dashboard" =>
                                /\ queue'[p] = queue[p] /\ since'[p] = since[p]
                                /\ dropped'[p] = dropped[p] /\ shown'[p] = shown[p],
         \A p \in Pages : live'[p] => p \in joined'
  PROVE  SeenInv'
  <1>1. ASSUME NEW p \in joined' PROVE SeenOK(p)'
    BY <1>1 DEF Inv, SeenInv, SeenOK, Owed, Coming, Detection
  <1>2. AnnouncedOK'
    BY DEF Inv, SeenInv, AnnouncedOK, Detection
  <1> QED
    BY <1>1, <1>2 DEF SeenInv

LEMMA SeenStep == Inv /\ [Next]_vars => SeenInv'
  <1> SUFFICES ASSUME Inv, [Next]_vars PROVE SeenInv'
    OBVIOUS
  <1>1. /\ \A p \in Pages : live[p] => p \in joined
        /\ joined \subseteq Pages /\ live \in [Pages -> BOOLEAN]
        /\ joined = {p \in Pages : phase[p] = "joined"}
    BY DEF Inv, SeenInv, BusInv, BusTypes, ViewTypes
  <1>2. ASSUME UNCHANGED bus, UNCHANGED <<path, shown, announced>> PROVE SeenInv'
    BY <1>1, <1>2, OthersSeen DEF bus
  <1>3. CASE Start
    BY <1>3, StatusPublished, QuietSeen DEF Start, pages
  <1>4. CASE ListVms
    BY <1>2, <1>4, StatusPublished, QuietSeen DEF ListVms, pages
  <1>5. ASSUME NEW g \in Guests, ScanFails(g) PROVE SeenInv'
    BY <1>5, StatusPublished, QuietSeen DEF ScanFails, pages
  <1>6. ASSUME NEW g \in Guests, NEW found \in SUBSET ({g} \X Subjects), Scan(g, found)
        PROVE SeenInv'
    BY <1>6, ScanSeen
  <1>7. ASSUME NEW p \in Pages, LoadDashboard(p) \/ LoadIntrospect(p) PROVE SeenInv'
    <2>1. /\ UNCHANGED <<bus, announced>> /\ p \notin joined
          /\ \A q \in joined : path'[q] = path[q] /\ shown'[q] = shown[q]
      BY <1>1, <1>7 DEF LoadDashboard, LoadIntrospect, Load, Inv, ViewTypes
    <2> QED
      BY <1>1, <2>1, OthersSeen DEF bus
  <1>8. ASSUME NEW p \in Pages, Connect(p) PROVE SeenInv'
    BY <1>8, ConnectSeen
  <1>9. ASSUME NEW p \in Pages, Disconnect(p) PROVE SeenInv'
    <2>1. /\ UNCHANGED <<announced, path, shown, history, published>>
          /\ joined' = joined \ {p} /\ live' = [live EXCEPT ![p] = FALSE]
          /\ \A q \in joined' : /\ queue'[q] = queue[q] /\ since'[q] = since[q]
                                 /\ dropped'[q] = dropped[q]
      BY <1>1, <1>9 DEF Disconnect, Unsubscribe, Unsubscribed, Inv, BusInv, BusTypes
    <2> QED
      BY <1>1, <2>1, OthersSeen
  <1>10. ASSUME NEW p \in Pages, GetsReady(p) PROVE SeenInv'
    <2>1. /\ UNCHANGED <<announced, path, shown, history, published, joined, queue, since, dropped>>
          /\ live' = [live EXCEPT ![p] = TRUE] /\ p \in joined
      BY <1>10 DEF GetsReady, Ready, pages
    <2> QED
      BY <1>1, <2>1, OthersSeen
  <1>11. ASSUME NEW p \in Pages, DashboardGets(p) PROVE SeenInv'
    BY <1>11, DashboardSeen
  <1>12. ASSUME NEW p \in Pages, IntrospectGets(p) PROVE SeenInv'
    <2> DEFINE stays == ~Reloads(p, Head(queue[p]).body)
    <2>1. Send(p, stays) /\ path[p] # "dashboard" /\ UNCHANGED <<announced, path, shown>>
      BY <1>12 DEF IntrospectGets
    <2> HIDE DEF stays
    <2>2. /\ UNCHANGED <<history, published, since, dropped>> /\ joined' \subseteq joined
          /\ \A q \in joined' : q # p => queue'[q] = queue[q]
      BY <1>1, <2>1 DEF Send, Unsubscribed, Inv, BusInv, BusTypes
    <2>3. \A q \in Pages : live'[q] => q \in joined'
      BY <1>1, <2>1 DEF Send, Unsubscribed
    <2> QED
      BY <2>1, <2>2, <2>3, OthersSeen
  <1>13. CASE Stop \/ Forget \/ PassBreaks
    BY <1>2, <1>13 DEF Stop, Forget, PassBreaks, pages
  <1>14. CASE UNCHANGED vars
    BY <1>2, <1>14 DEF vars, pages
  <1> QED
    BY <1>3, <1>4, <1>5, <1>6, <1>7, <1>8, <1>9, <1>10, <1>11, <1>12, <1>13, <1>14 DEF Next

LEMMA Invariant == Spec => []Inv
  <1>1. Init => Inv
    <2> SUFFICES ASSUME Init PROVE Inv
      OBVIOUS
    <2>1. SeenInv
      BY DEF Init, BusInit, SeenInv, AnnouncedOK
    <2> QED
      BY <2>1, BusStart, ViewStart DEF Inv
  <1>2. Inv /\ [Next]_vars => Inv'
    BY BusStep, ViewStep, SeenStep DEF Inv
  <1> QED
    BY <1>1, <1>2, PTL DEF Spec

(* A dashboard that was sent all it was queued and lost nothing shows every *)
(* finding announced since it subscribed or within the history it was        *)
(* replayed: none falls between the two, however often the stream broke.     *)
THEOREM AllAnnouncedShown == Spec => []NothingUnseen
  <1>1. Inv => NothingUnseen
    <2> SUFFICES ASSUME Inv, NEW p \in Pages, path[p] = "dashboard", live[p],
                        queue[p] = <<>>, ~dropped[p], NEW d \in Findings, Owed(p, d)
                 PROVE  d \in shown[p]
      BY DEF NothingUnseen, Owed
    <2>1. p \in joined /\ ~Coming(p, d)
      BY DEF Inv, SeenInv, Coming
    <2> QED
      BY <2>1 DEF Inv, SeenInv, SeenOK
  <1> QED
    BY <1>1, Invariant, PTL
-----------------------------------------------------------------------------
(* What /introspect counts from. *)

Tells(body, g) == body.type = "scan" /\ body.vm = g

(* A guest whose scans were never announced is in no history and no queue,   *)
(* of any other the history's last scan has the count announced last.        *)
Untold(g) ==
    told[g] = Null =>
        /\ \A i \in 1..Len(history) : ~Tells(history[i].body, g)
        /\ \A p \in Pages : \A i \in 1..Len(queue[p]) : ~Tells(queue[p][i].body, g)
LastTold(g) ==
    \A i \in 1..Len(history) : Tells(history[i].body, g) =>
        \/ history[i].body.item = told[g]
        \/ \E j \in 1..Len(history) : i < j /\ Tells(history[j].body, g)

(* What is queued for a page that has missed nothing and seen nothing change *)
(* has that count too, but for what the replay still comes to correct; and so *)
(* has the page itself.                                                       *)
QueueTold(p, g) ==
    \A i \in 1..Len(queue[p]) : Tells(queue[p][i].body, g) =>
        \/ queue[p][i].body.item = told[g]
        \/ \E j \in 1..Len(queue[p]) : i < j /\ j <= left[p] /\ Tells(queue[p][j].body, g)
BaseTold(p, g) ==
    \/ lastCount[p] \in {Null, told[g]}
    \/ \E j \in 1..Len(queue[p]) : j <= left[p] /\ Tells(queue[p][j].body, g)

Calm(p) == viewed[p] # None /\ ~news[p] /\ ~cut[p]

NewsInv ==
    /\ \A g \in Guests : Untold(g) /\ LastTold(g)
    /\ \A p \in Pages : /\ path[p] = "dashboard" => viewed[p] = None
                        /\ Calm(p) => QueueTold(p, viewed[p]) /\ BaseTold(p, viewed[p])

(* The history keeps its order.                                              *)
LEMMA HistoryOrder ==
  ASSUME BusInv, NEW b \in Seq(Bodies), Publish(b),
         NEW i \in 1..Len(history'), NEW j \in 1..Len(history), history'[i] = history[j],
         NEW k \in 1..Len(history), j < k
  PROVE  \E l \in 1..Len(history') : i < l /\ history'[l] = history[k]
  <1>1. /\ published' = published + Len(b) /\ HistoryOK'
        /\ \A l \in 1..Len(history') :
               \/ \E m \in 1..Len(history) : history'[l] = history[m]
               \/ \E m \in 1..Len(b) : history'[l] = [n |-> published + m, body |-> b[m]]
    BY PublishAdds
  <1>2. /\ published \in Nat /\ Len(b) \in Nat /\ Len(history) \in Nat /\ Len(history') \in Nat
        /\ \A m \in 1..Len(history) : history[m].n = published - Len(history) + m
        /\ \A l \in 1..Len(history') : history'[l].n = published' - Len(history') + l
    <2>1. Len(b) \in Nat
      OBVIOUS
    <2>2. Len(history) \in Nat /\ \A m \in 1..Len(history) : history[m].n = published - Len(history) + m
      BY DEF BusInv, HistoryOK
    <2>3. /\ Len(history') \in Nat
          /\ \A l \in 1..Len(history') : history'[l].n = published' - Len(history') + l
      BY <1>1 DEF HistoryOK
    <2> QED
      BY <2>1, <2>2, <2>3 DEF BusInv, BusTypes
  <1> DEFINE l == i + (k - j)
  <1>3. published - Len(history) + j = published' - Len(history') + i
    BY <1>2
  <1>4. l \in 1..Len(history') /\ i < l /\ published' - Len(history') + l = published - Len(history) + k
    <2> DEFINE a == published
               c == published'
               s == Len(history)
               t == Len(history')
               d == Len(b)
    <2>1. /\ a \in Nat /\ s \in Nat /\ t \in Nat /\ d \in Nat /\ c = a + d /\ j < k
          /\ i \in 1..t /\ j \in 1..s /\ k \in 1..s /\ a - s + j = c - t + i
      BY <1>1, <1>2, <1>3
    <2> HIDE DEF a, c, s, t, d
    <2>2. t - i = d + s - j
      BY <2>1
    <2>3. k - j > 0 /\ k - j <= t - i
      BY <2>1, <2>2
    <2>4. i + (k - j) \in 1..t /\ i < i + (k - j)
      BY <2>1, <2>3
    <2>5. c - t + (i + (k - j)) = a - s + k
      BY <2>1
    <2> QED
      BY <2>4, <2>5 DEF a, c, s, t
  <1> HIDE DEF l
  <1>5. ~ \E m \in 1..Len(b) : history'[l] = [n |-> published + m, body |-> b[m]]
    <2> SUFFICES ASSUME NEW m \in 1..Len(b), history'[l] = [n |-> published + m, body |-> b[m]]
                 PROVE  FALSE
      OBVIOUS
    <2>1. history'[l].n = published + m
      OBVIOUS
    <2> QED
      BY <1>2, <1>4, <2>1
  <1>6. PICK m \in 1..Len(history) : history'[l] = history[m]
    BY <1>1, <1>4, <1>5
  <1>7. m = k
    <2>1. published - Len(history) + m = published - Len(history) + k
      BY <1>2, <1>4, <1>6
    <2> QED
      BY <1>2, <2>1
  <1> QED
    BY <1>4, <1>6, <1>7

(* A publication that does not tell of a guest changes nothing of it.        *)
LEMMA NotTold ==
  ASSUME BusInv, NEW b \in Seq(Bodies), Publish(b), NEW g, \A i \in 1..Len(b) : ~Tells(b[i], g),
         told'[g] = told[g], lastCount' = lastCount
  PROVE  /\ Untold(g) => Untold(g)'
         /\ LastTold(g) => LastTold(g)'
         /\ \A p \in Pages : (QueueTold(p, g) => QueueTold(p, g)') /\ (BaseTold(p, g) => BaseTold(p, g)')
  <1>1. /\ \A i \in 1..Len(history') :
               \/ \E j \in 1..Len(history) : history'[i] = history[j]
               \/ \E j \in 1..Len(b) : history'[i] = [n |-> published + j, body |-> b[j]]
    BY PublishAdds
  <1>2. ASSUME NEW i \in 1..Len(history'), Tells(history'[i].body, g)
        PROVE  \E j \in 1..Len(history) : history'[i] = history[j]
    <2> SUFFICES ASSUME NEW j \in 1..Len(b), history'[i] = [n |-> published + j, body |-> b[j]]
                 PROVE  FALSE
      BY <1>1
    <2>1. history'[i].body = b[j]
      OBVIOUS
    <2> QED
      BY <1>2, <2>1
  <1>3. ASSUME NEW p \in Pages
        PROVE  /\ queue[p] \in Seq(Event) /\ queue'[p] \in Seq(Event) /\ Len(queue[p]) <= Len(queue'[p])
               /\ \A i \in 1..Len(queue[p]) : queue'[p][i] = queue[p][i]
               /\ \A i \in 1..Len(queue'[p]) :
                     Tells(queue'[p][i].body, g) => i \in 1..Len(queue[p])
    <2>1. CASE p \in joined
      <3>1. /\ queue'[p] \in Seq(Event) /\ Len(queue[p]) <= Len(queue'[p])
            /\ \A i \in 1..Len(queue[p]) : queue'[p][i] = queue[p][i]
            /\ \A i \in Len(queue[p])+1..Len(queue'[p]) :
                  /\ i - Len(queue[p]) \in 1..Len(b)
                  /\ queue'[p][i] = [n |-> published + (i - Len(queue[p])),
                                     body |-> b[i - Len(queue[p])]]
        BY <2>1, PublishQueues
      <3>2. queue[p] \in Seq(Event) /\ Len(queue[p]) \in Nat /\ Len(queue'[p]) \in Nat
        BY <3>1 DEF BusInv, BusTypes
      <3>3. ASSUME NEW i \in 1..Len(queue'[p]), Tells(queue'[p][i].body, g), i \notin 1..Len(queue[p])
            PROVE  FALSE
        <4>1. i \in Len(queue[p])+1..Len(queue'[p])
          BY <3>2, <3>3
        <4>2. /\ i - Len(queue[p]) \in 1..Len(b)
              /\ queue'[p][i] = [n |-> published + (i - Len(queue[p])), body |-> b[i - Len(queue[p])]]
          BY <3>1, <4>1
        <4>3. queue'[p][i].body = b[i - Len(queue[p])]
          BY <4>2
        <4> QED
          BY <3>3, <4>2, <4>3
      <3> QED
        BY <3>1, <3>2, <3>3
    <2>2. CASE p \notin joined
      BY <2>2 DEF Publish, BusInv, BusTypes
    <2> QED
      BY <2>1, <2>2
  <1>4. left' = left
    BY DEF Publish
  <1>5. Untold(g) => Untold(g)'
    <2> SUFFICES ASSUME Untold(g), told[g] = Null
                 PROVE  /\ \A i \in 1..Len(history') : ~Tells(history'[i].body, g)
                        /\ \A p \in Pages : \A i \in 1..Len(queue'[p]) : ~Tells(queue'[p][i].body, g)
      BY DEF Untold, Tells
    <2>1. \A i \in 1..Len(history') : ~Tells(history'[i].body, g)
      BY <1>2 DEF Untold
    <2>2. ASSUME NEW p \in Pages, NEW i \in 1..Len(queue'[p]) PROVE ~Tells(queue'[p][i].body, g)
      BY <1>3 DEF Untold
    <2> QED
      BY <2>1, <2>2
  <1>6. LastTold(g) => LastTold(g)'
    <2> SUFFICES ASSUME LastTold(g), NEW i \in 1..Len(history'), Tells(history'[i].body, g)
                 PROVE  \/ history'[i].body.item = told[g]
                        \/ \E l \in 1..Len(history') : i < l /\ Tells(history'[l].body, g)
      BY DEF LastTold, Tells
    <2>1. PICK j \in 1..Len(history) : history'[i] = history[j]
      BY <1>2
    <2>2. CASE history[j].body.item = told[g]
      BY <2>1, <2>2
    <2>3. CASE \E k \in 1..Len(history) : j < k /\ Tells(history[k].body, g)
      <3>1. PICK k \in 1..Len(history) : j < k /\ Tells(history[k].body, g)
        BY <2>3
      <3>2. PICK l \in 1..Len(history') : i < l /\ history'[l] = history[k]
        BY <2>1, <3>1, HistoryOrder
      <3> QED
        BY <3>1, <3>2
    <2> QED
      BY <2>1, <2>2, <2>3 DEF LastTold
  <1>7. ASSUME NEW p \in Pages, QueueTold(p, g) PROVE QueueTold(p, g)'
    <2> SUFFICES ASSUME NEW i \in 1..Len(queue'[p]), Tells(queue'[p][i].body, g)
                 PROVE  \/ queue'[p][i].body.item = told[g]
                        \/ \E j \in 1..Len(queue'[p]) : i < j /\ j <= left[p] /\ Tells(queue'[p][j].body, g)
      BY <1>4 DEF QueueTold, Tells
    <2>1. i \in 1..Len(queue[p]) /\ queue'[p][i] = queue[p][i]
      BY <1>3
    <2>2. \A j \in 1..Len(queue[p]) : j \in 1..Len(queue'[p]) /\ queue'[p][j] = queue[p][j]
      BY <1>3
    <2> QED
      BY <1>7, <2>1, <2>2 DEF QueueTold
  <1>8. ASSUME NEW p \in Pages, BaseTold(p, g) PROVE BaseTold(p, g)'
    <2>1. \A j \in 1..Len(queue[p]) : j \in 1..Len(queue'[p]) /\ queue'[p][j] = queue[p][j]
      BY <1>3
    <2> QED
      BY <1>4, <1>8, <2>1 DEF BaseTold, Tells
  <1> QED
    BY <1>5, <1>6, <1>7, <1>8

(* A scan of a guest is the last of history and of every queue with room.    *)
LEMMA ScanTold ==
  ASSUME Inv, NewsInv, NEW g \in Guests, NEW found \in SUBSET ({g} \X Subjects), Scan(g, found)
  PROVE  NewsInv'
  <1> DEFINE c == Cardinality(found)
             n == Cardinality(ToTell(found))
             r(order) == Report(order, g, found)
  <1>1. PICK order \in Orders(ToTell(found)) : Publish(r(order))
    BY DEF Scan
  <1> DEFINE b == r(order)
  <1>2. /\ n \in Nat /\ b \in Seq(Bodies) /\ Len(b) = n + 1
        /\ \A i \in 1..n : b[i] = Detection(order[i])
        /\ b[n + 1] = ScanDone(g, c)
    BY ReportIs
  <1>3. c \in Nat /\ Publish(b) /\ BusInv
    BY <1>1, Counted DEF Inv
  <1> HIDE DEF c, n, r, b
  <1>4. ASSUME NEW i \in 1..n PROVE b[i].type = "detection"
    <2>1. b[i] = Detection(order[i])
      BY <1>2
    <2> QED
      BY <2>1 DEF Detection
  <1>5. b[n + 1].item = c /\ \A h : Tells(b[n + 1], h) <=> h = g
    BY <1>2 DEF Tells, ScanDone
  <1>6. \A h : \A i \in 1..Len(b) : Tells(b[i], h) => i = n + 1 /\ h = g /\ b[i].item = c
    <2> SUFFICES ASSUME NEW h, NEW i \in 1..Len(b), Tells(b[i], h)
                 PROVE  i = n + 1 /\ h = g /\ b[i].item = c
      OBVIOUS
    <2>1. CASE i = n + 1
      BY <1>5, <2>1
    <2>2. CASE i # n + 1
      <3>1. i \in 1..n
        BY <1>2, <2>2
      <3> QED
        BY <1>4, <3>1 DEF Tells
    <2> QED
      BY <2>1, <2>2
  <1>7. /\ told' = [told EXCEPT ![g] = c] /\ told \in [Guests -> Counts]
        /\ UNCHANGED <<path, viewed, lastCount, cut, left>>
    BY <1>3 DEF Scan, pages, Publish, Inv, ViewTypes, c
  <1>8. ASSUME NEW p \in Pages, ~news'[p]
        PROVE  ~news[p] /\ (viewed[p] = g => told[g] \in {Null, c})
    BY <1>8 DEF Scan, c
  <1>9. ASSUME NEW h \in Guests, h # g
        PROVE  /\ Untold(h)' /\ LastTold(h)'
               /\ \A p \in Pages : /\ QueueTold(p, h) => QueueTold(p, h)'
                                   /\ BaseTold(p, h) => BaseTold(p, h)'
    <2>1. told'[h] = told[h] /\ lastCount' = lastCount /\ \A i \in 1..Len(b) : ~Tells(b[i], h)
      BY <1>6, <1>7, <1>9
    <2> QED
      BY <1>2, <1>3, <2>1, NotTold DEF NewsInv
  <1>10. told'[g] = c /\ c # Null
    BY <1>3, <1>7 DEF Null
  <1>11. Untold(g)'
    BY <1>10 DEF Untold, Null
  <1>12. LastTold(g)'
    <2> DEFINE m == Len(history')
    <2>1. /\ published' = published + Len(b) /\ HistoryOK'
          /\ \A i \in 1..Len(history') :
               \/ \E j \in 1..Len(history) : history'[i] = history[j]
               \/ \E j \in 1..Len(b) : history'[i] = [n |-> published + j, body |-> b[j]]
      BY <1>2, <1>3, PublishAdds
    <2>2. /\ published \in Nat /\ published' = published + (n + 1) /\ m \in 1..m /\ m \in Nat
          /\ history'[m].n = published'
      <3>1. published \in Nat /\ published' = published + (n + 1)
        BY <1>2, <1>3, <2>1 DEF BusInv, BusTypes
      <3>2. m \in Nat /\ m = IF published' > HistoryLimit THEN HistoryLimit ELSE published'
        BY <2>1, <3>1 DEF HistoryOK
      <3>3. m \in 1..m
        BY <1>2, <3>1, <3>2
      <3>4. history'[m].n = published' - m + m
        BY <2>1, <3>3 DEF HistoryOK
      <3>5. published' - m + m = published'
        BY <1>2, <3>1, <3>2
      <3> QED
        BY <3>1, <3>2, <3>3, <3>4, <3>5
    <2> HIDE DEF m
    <2>3. ASSUME NEW j \in 1..Len(history) PROVE history'[m] # history[j]
      <3>1. history[j].n = published - Len(history) + j /\ Len(history) \in Nat
        BY <1>3 DEF BusInv, HistoryOK
      <3> QED
        BY <1>2, <2>2, <3>1
    <2>4. PICK j \in 1..Len(b) : history'[m] = [n |-> published + j, body |-> b[j]]
      BY <2>1, <2>2, <2>3 DEF m
    <2>5. j = n + 1
      <3>1. history'[m].n = published + j
        BY <2>4
      <3> QED
        BY <1>2, <2>2, <3>1
    <2>6. history'[m].body = b[n + 1]
      BY <2>4, <2>5
    <2>7. Tells(history'[m].body, g) /\ history'[m].body.item = c
      BY <1>5, <2>6
    <2> SUFFICES ASSUME NEW i \in 1..m
                 PROVE  \/ history'[i].body.item = c
                        \/ \E k \in 1..m : i < k /\ Tells(history'[k].body, g)
      BY <1>10 DEF LastTold, Tells, m
    <2>8. i = m \/ i < m
      BY <2>2
    <2> QED
      BY <2>2, <2>7, <2>8
  <1>13. ASSUME NEW p \in Pages, viewed[p] = g, ~news'[p], ~news[p], ~cut[p]
         PROVE  QueueTold(p, g)' /\ BaseTold(p, g)'
    <2>1. QueueTold(p, g) /\ BaseTold(p, g)
      BY <1>13 DEF NewsInv, Calm
    <2>2. told[g] \in {Null, c}
      BY <1>8, <1>13
    <2>3. /\ Len(queue[p]) \in Nat /\ Len(queue'[p]) \in Nat /\ Len(queue[p]) <= Len(queue'[p])
          /\ \A i \in 1..Len(queue[p]) : queue'[p][i] = queue[p][i]
          /\ \A i \in 1..Len(queue'[p]) : i \notin 1..Len(queue[p]) /\ Tells(queue'[p][i].body, g) =>
                queue'[p][i].body.item = c
      <3>1. CASE p \in joined
        <4>1. /\ queue'[p] \in Seq(Event) /\ Len(queue[p]) <= Len(queue'[p])
              /\ \A i \in 1..Len(queue[p]) : queue'[p][i] = queue[p][i]
              /\ \A i \in Len(queue[p])+1..Len(queue'[p]) :
                    /\ i - Len(queue[p]) \in 1..Len(b)
                    /\ queue'[p][i] = [n |-> published + (i - Len(queue[p])),
                                       body |-> b[i - Len(queue[p])]]
          BY <1>2, <1>3, <3>1, PublishQueues
        <4>2. queue[p] \in Seq(Event) /\ Len(queue[p]) \in Nat /\ Len(queue'[p]) \in Nat
          BY <1>3, <4>1 DEF BusInv, BusTypes
        <4>3. ASSUME NEW i \in 1..Len(queue'[p]), Tells(queue'[p][i].body, g),
                     i \notin 1..Len(queue[p])
              PROVE  queue'[p][i].body.item = c
          <5>1. i \in Len(queue[p])+1..Len(queue'[p])
            BY <4>2, <4>3
          <5>2. /\ i - Len(queue[p]) \in 1..Len(b)
                /\ queue'[p][i] = [n |-> published + (i - Len(queue[p])),
                                   body |-> b[i - Len(queue[p])]]
            BY <4>1, <5>1
          <5>3. queue'[p][i].body = b[i - Len(queue[p])]
            BY <5>2
          <5> QED
            BY <1>6, <4>3, <5>2, <5>3
        <4> QED
          BY <4>1, <4>2, <4>3
      <3>2. CASE p \notin joined
        BY <1>3, <3>2 DEF Publish, BusInv, BusTypes
      <3> QED
        BY <3>1, <3>2
    <2>4. told[g] = Null => \A i \in 1..Len(queue[p]) : ~Tells(queue[p][i].body, g)
      BY DEF NewsInv, Untold
    <2>5. \A j \in 1..Len(queue[p]) : j \in 1..Len(queue'[p]) /\ queue'[p][j] = queue[p][j]
      BY <2>3
    <2>6. ASSUME NEW i \in 1..Len(queue'[p]), Tells(queue'[p][i].body, g)
          PROVE  \/ queue'[p][i].body.item = c
                 \/ \E j \in 1..Len(queue'[p]) : i < j /\ j <= left[p] /\ Tells(queue'[p][j].body, g)
      <3>1. CASE i \in 1..Len(queue[p])
        <4>1. queue'[p][i] = queue[p][i] /\ told[g] = c
          BY <2>2, <2>4, <2>5, <2>6, <3>1
        <4> QED
          BY <2>1, <2>5, <2>6, <3>1, <4>1 DEF QueueTold
      <3>2. CASE i \notin 1..Len(queue[p])
        BY <2>3, <2>6, <3>2
      <3> QED
        BY <3>1, <3>2
    <2>7. QueueTold(p, g)'
      BY <1>7, <1>10, <2>6 DEF QueueTold, Tells
    <2>8. BaseTold(p, g)'
      <3>1. CASE lastCount[p] \in {Null, told[g]}
        BY <1>7, <1>10, <2>2, <3>1 DEF BaseTold
      <3>2. CASE \E j \in 1..Len(queue[p]) : j <= left[p] /\ Tells(queue[p][j].body, g)
        BY <1>7, <2>5, <3>2 DEF BaseTold, Tells
      <3> QED
        BY <2>1, <3>1, <3>2 DEF BaseTold
    <2> QED
      BY <2>7, <2>8
  <1>14. \A h \in Guests : Untold(h)' /\ LastTold(h)'
    BY <1>9, <1>11, <1>12
  <1>15. ASSUME NEW p \in Pages, Calm(p)' PROVE QueueTold(p, viewed[p])' /\ BaseTold(p, viewed[p])'
    <2>1. viewed[p] \in Guests /\ ~news'[p] /\ ~news[p] /\ ~cut[p]
      BY <1>7, <1>8, <1>15 DEF Calm, Inv, ViewTypes
    <2>2. CASE viewed[p] = g
      <3>1. QueueTold(p, g)' /\ BaseTold(p, g)'
        BY <1>13, <2>1, <2>2
      <3> QED
        BY <1>7, <2>2, <3>1
    <2>3. CASE viewed[p] # g
      <3>1. QueueTold(p, viewed[p]) /\ BaseTold(p, viewed[p])
        BY <2>1 DEF NewsInv, Calm
      <3>2. PICK h \in Guests : h = viewed[p]
        BY <2>1
      <3>3. QueueTold(p, h)' /\ BaseTold(p, h)'
        BY <1>9, <2>3, <3>1, <3>2
      <3> QED
        BY <1>7, <3>2, <3>3
    <2> QED
      BY <2>2, <2>3
  <1> QED
    BY <1>7, <1>14, <1>15 DEF NewsInv

(* Nothing is published: a page of which nothing changes stays as it was.    *)
LEMMA OthersTold ==
  ASSUME NewsInv, UNCHANGED <<history, told>>,
         \A p \in Pages : \A g \in Guests : told[g] = Null =>
             \A i \in 1..Len(queue'[p]) : ~Tells(queue'[p][i].body, g),
         \A p \in Pages :
             \/ UNCHANGED <<queue[p], left[p], lastCount[p], viewed[p], news[p], cut[p], path[p]>>
             \/ /\ path'[p] = "dashboard" => viewed'[p] = None
                /\ Calm(p)' => QueueTold(p, viewed[p])' /\ BaseTold(p, viewed[p])'
  PROVE  NewsInv'
  <1>1. ASSUME NEW g \in Guests PROVE Untold(g)' /\ LastTold(g)'
    BY DEF NewsInv, Untold, LastTold, Tells
  <1>2. ASSUME NEW p \in Pages
        PROVE  /\ path'[p] = "dashboard" => viewed'[p] = None
               /\ Calm(p)' => QueueTold(p, viewed[p])' /\ BaseTold(p, viewed[p])'
    <2>1. CASE UNCHANGED <<queue[p], left[p], lastCount[p], viewed[p], news[p], cut[p], path[p]>>
      BY <2>1 DEF NewsInv, Calm, QueueTold, BaseTold, Tells
    <2> QED
      BY <2>1
  <1> QED
    BY <1>1, <1>2 DEF NewsInv

(* A page that connects is replayed the history, whose last word is told.    *)
LEMMA ConnectTold == ASSUME Inv, NewsInv, NEW p \in Pages, Connect(p) PROVE NewsInv'
  <1>1. /\ queue'[p] = Replayed /\ left'[p] = Len(Replayed)
        /\ UNCHANGED <<history, told, path, viewed, lastCount, news, cut>>
        /\ \A q \in Pages : q # p => queue'[q] = queue[q] /\ left'[q] = left[q]
    BY DEF Connect, Subscribe, Backlog, Inv, BusInv, BusTypes
  <1>2. /\ history \in Seq(Event) /\ Len(history) \in Nat /\ Len(history) <= QueueLimit
        /\ queue[p] = <<>>
    <2>1. /\ history \in Seq(Event)
          /\ Len(history) = IF published > HistoryLimit THEN HistoryLimit ELSE published
          /\ published \in Nat
      BY DEF Inv, BusInv, BusTypes, HistoryOK
    <2> QED
      BY <2>1 DEF Connect, Subscribe, Inv, BusInv, BusTypes
  <1>3. Len(queue'[p]) = Len(history) /\ \A i \in 1..Len(history) : queue'[p][i] = history[i]
    BY <1>1, <1>2, FittingKeeps DEF Replayed
  <1>4. ASSUME Calm(p)' PROVE QueueTold(p, viewed[p])' /\ BaseTold(p, viewed[p])'
    <2>1. PICK g \in Guests : g = viewed[p]
      BY <1>1, <1>4 DEF Calm, Inv, ViewTypes
    <2>2. LastTold(g) /\ BaseTold(p, g)
      BY <1>1, <1>4, <2>1 DEF NewsInv, Calm
    <2>3. QueueTold(p, g)'
      <3> SUFFICES ASSUME NEW i \in 1..Len(queue'[p]), Tells(queue'[p][i].body, g)
                   PROVE  \/ queue'[p][i].body.item = told[g]
                          \/ \E j \in 1..Len(queue'[p]) :
                                i < j /\ j <= left'[p] /\ Tells(queue'[p][j].body, g)
        BY <1>1 DEF QueueTold, Tells
      <3>1. \A j \in 1..Len(history) : j \in 1..Len(queue'[p]) /\ j <= left'[p]
        BY <1>1, <1>2, <1>3
      <3>2. i \in 1..Len(history) /\ queue'[p][i] = history[i]
        BY <1>3
      <3> QED
        BY <1>3, <2>2, <3>1, <3>2 DEF LastTold
    <2>4. BaseTold(p, g)'
      BY <1>1, <1>2, <2>2 DEF BaseTold
    <2> QED
      BY <1>1, <2>1, <2>3, <2>4
  <1>5. \A q \in Pages : \A g \in Guests : told[g] = Null =>
             \A i \in 1..Len(queue'[q]) : ~Tells(queue'[q][i].body, g)
    BY <1>1, <1>3 DEF NewsInv, Untold
  <1>6. ASSUME NEW q \in Pages, q # p
        PROVE  UNCHANGED <<queue[q], left[q], lastCount[q], viewed[q], news[q], cut[q], path[q]>>
    BY <1>1, <1>6
  <1>7. path'[p] = "dashboard" => viewed'[p] = None
    BY <1>1 DEF NewsInv
  <1> QED
    BY <1>1, <1>4, <1>5, <1>6, <1>7, OthersTold

(* What /introspect is sent: while it has missed nothing and nothing changed, *)
(* after the marker every count is the one it has.                           *)
LEMMA IntrospectTold ==
  ASSUME Inv, NewsInv, NEW p \in Pages, IntrospectGets(p)
  PROVE  /\ NewsInv'
         /\ Calm(p) => ~Reloads(p, Head(queue[p]).body)
  <1> DEFINE body == Head(queue[p]).body
             stays == ~Reloads(p, body)
  <1>1. /\ Send(p, stays) /\ stays \in BOOLEAN /\ path[p] = "introspect"
        /\ lastCount' = [lastCount EXCEPT ![p] = IF Concerns(p, body) THEN body.item ELSE @]
        /\ UNCHANGED <<told, path, viewed, news, cut>>
    BY DEF IntrospectGets, Reloads, Concerns
  <1>2. /\ p \in joined /\ queue[p] \in Seq(Event) /\ Len(queue[p]) \in Nat /\ Len(queue[p]) >= 1
        /\ body = queue[p][1].body /\ (left[p] > 0 \/ live[p])
        /\ left[p] \in Nat /\ (live[p] => left[p] = 0) /\ live[p] \in BOOLEAN
        /\ lastCount \in [Pages -> Counts]
    <2>1. queue[p] # <<>> /\ Head(queue[p]) = queue[p][1]
      BY <1>1, SendOK DEF Inv
    <2>2. p \in joined /\ (left[p] > 0 \/ live[p])
      BY <1>1 DEF Send, Sendable
    <2>3. queue[p] \in Seq(Event)
      BY DEF Inv, BusInv, BusTypes
    <2> QED
      BY <2>1, <2>2, <2>3 DEF Inv, BusInv, BusTypes, QueueOK, ViewTypes
  <1> HIDE DEF body
  <1>3. /\ UNCHANGED history
        /\ \A q \in Pages : q # p => queue'[q] = queue[q] /\ left'[q] = left[q]
                                     /\ lastCount'[q] = lastCount[q]
    BY <1>1 DEF Send, Unsubscribed, Inv, BusInv, BusTypes
  <1>4. \/ stays /\ /\ Len(queue'[p]) = Len(queue[p]) - 1
                    /\ \A i \in 1..Len(queue'[p]) : queue'[p][i] = queue[p][i + 1]
                    /\ left'[p] = IF left[p] > 0 THEN left[p] - 1 ELSE 0
        \/ ~stays /\ queue'[p] = <<>>
    <2>1. CASE stays
      <3>1. /\ Len(queue'[p]) = Len(queue[p]) - 1
            /\ \A i \in 1..Len(queue'[p]) : queue'[p][i] = queue[p][i + 1]
        BY <1>1, <2>1, SendOK DEF Inv
      <3>2. left'[p] = IF left[p] > 0 THEN left[p] - 1 ELSE 0
        BY <1>1, <2>1 DEF Send, Inv, BusInv, BusTypes
      <3> QED
        BY <2>1, <3>1, <3>2
    <2>2. CASE ~stays
      BY <1>1, <2>2 DEF Send, Unsubscribed, Inv, BusInv, BusTypes
    <2> QED
      BY <2>1, <2>2
  <1>5. ASSUME Calm(p)
        PROVE  stays /\ QueueTold(p, viewed[p])' /\ BaseTold(p, viewed[p])'
    <2>1. PICK g \in Guests : g = viewed[p]
      BY <1>5 DEF Calm, Inv, ViewTypes
    <2>2. QueueTold(p, g) /\ BaseTold(p, g) /\ g # None
      BY <1>5, <2>1 DEF NewsInv, Calm
    <2>3. Concerns(p, body) <=> Tells(body, g)
      BY <2>1, <2>2 DEF Concerns, Tells
    <2>4. lastCount'[p] = IF Tells(body, g) THEN body.item ELSE lastCount[p]
      BY <1>1, <1>2, <2>3
    <2>5. ASSUME Tells(body, g), body.item # told[g]
          PROVE  \E j \in 1..Len(queue[p]) : 1 < j /\ j <= left[p] /\ Tells(queue[p][j].body, g)
      <3>1. 1 \in 1..Len(queue[p])
        BY <1>2
      <3> QED
        BY <1>2, <2>2, <2>5, <3>1 DEF QueueTold
    <2>6. stays
      <3> SUFFICES ASSUME Tells(body, g), live[p], lastCount[p] \notin {Null, body.item}
                   PROVE  FALSE
        BY <2>3 DEF Reloads
      <3>1. left[p] = 0 /\ \A j \in 1..Len(queue[p]) : ~(j <= left[p])
        BY <1>2
      <3>2. body.item = told[g]
        BY <2>5, <3>1
      <3>3. lastCount[p] \in {Null, told[g]}
        BY <2>2, <3>1 DEF BaseTold
      <3> QED
        BY <3>2, <3>3
    <2>7. /\ Len(queue'[p]) = Len(queue[p]) - 1
          /\ \A i \in 1..Len(queue'[p]) : queue'[p][i] = queue[p][i + 1]
          /\ left'[p] = IF left[p] > 0 THEN left[p] - 1 ELSE 0
      BY <1>4, <2>6
    <2> HIDE DEF stays
    <2>8. ASSUME NEW j \in 1..Len(queue[p]), 1 < j, j <= left[p], Tells(queue[p][j].body, g)
          PROVE  /\ j - 1 \in 1..Len(queue'[p]) /\ j - 1 <= left'[p]
                 /\ queue'[p][j - 1] = queue[p][j]
      <3>1. j - 1 \in 1..Len(queue'[p]) /\ j - 1 <= left'[p] /\ (j - 1) + 1 = j
        BY <1>2, <2>7, <2>8
      <3> QED
        BY <2>7, <3>1
    <2>9. QueueTold(p, g)'
      <3> SUFFICES ASSUME NEW i \in 1..Len(queue'[p]), Tells(queue'[p][i].body, g)
                   PROVE  \/ queue'[p][i].body.item = told[g]
                          \/ \E j \in 1..Len(queue'[p]) :
                                i < j /\ j <= left'[p] /\ Tells(queue'[p][j].body, g)
        BY <1>1 DEF QueueTold, Tells
      <3>1. i + 1 \in 1..Len(queue[p]) /\ queue'[p][i] = queue[p][i + 1]
        BY <1>2, <2>7
      <3>2. CASE \E j \in 1..Len(queue[p]) : i + 1 < j /\ j <= left[p] /\ Tells(queue[p][j].body, g)
        <4>1. PICK j \in 1..Len(queue[p]) : i + 1 < j /\ j <= left[p] /\ Tells(queue[p][j].body, g)
          BY <3>2
        <4>2. i < j - 1 /\ 1 < j
          BY <4>1
        <4>3. j - 1 \in 1..Len(queue'[p]) /\ j - 1 <= left'[p] /\ Tells(queue'[p][j - 1].body, g)
          BY <2>8, <4>1, <4>2
        <4> QED
          BY <4>2, <4>3
      <3> QED
        BY <2>2, <3>1, <3>2 DEF QueueTold
    <2>10. BaseTold(p, g)'
      <3>1. CASE Tells(body, g) /\ body.item = told[g]
        BY <1>1, <2>4, <3>1 DEF BaseTold
      <3>2. CASE \E j \in 1..Len(queue[p]) : 1 < j /\ j <= left[p] /\ Tells(queue[p][j].body, g)
        <4>1. PICK j \in 1..Len(queue[p]) : 1 < j /\ j <= left[p] /\ Tells(queue[p][j].body, g)
          BY <3>2
        <4>2. j - 1 \in 1..Len(queue'[p]) /\ j - 1 <= left'[p] /\ Tells(queue'[p][j - 1].body, g)
          BY <2>8, <4>1
        <4> QED
          BY <4>2 DEF BaseTold, Tells
      <3>3. CASE ~Tells(body, g) /\ lastCount[p] \in {Null, told[g]}
        BY <1>1, <2>4, <3>3 DEF BaseTold
      <3>4. CASE ~Tells(body, g) /\ \E j \in 1..Len(queue[p]) : j <= left[p] /\ Tells(queue[p][j].body, g)
        <4>1. PICK j \in 1..Len(queue[p]) : j <= left[p] /\ Tells(queue[p][j].body, g)
          BY <3>4
        <4>2. j # 1
          BY <1>2, <3>4, <4>1
        <4>3. 1 < j
          BY <4>2
        <4> QED
          BY <3>2, <4>1, <4>3
      <3> QED
        BY <2>2, <2>5, <3>1, <3>2, <3>3, <3>4 DEF BaseTold
    <2> QED
      BY <1>1, <2>1, <2>6, <2>9, <2>10
  <1>6. \A q \in Pages : \A g \in Guests : told[g] = Null =>
             \A i \in 1..Len(queue'[q]) : ~Tells(queue'[q][i].body, g)
    <2> SUFFICES ASSUME NEW q \in Pages, NEW g \in Guests, told[g] = Null,
                        NEW i \in 1..Len(queue'[q])
                 PROVE  ~Tells(queue'[q][i].body, g)
      OBVIOUS
    <2>1. \A k \in 1..Len(queue[q]) : ~Tells(queue[q][k].body, g)
      BY DEF NewsInv, Untold
    <2>2. CASE q # p
      BY <1>3, <2>1, <2>2
    <2>3. CASE q = p /\ queue'[p] = <<>>
      BY <2>3
    <2>4. CASE q = p /\ queue'[p] # <<>>
      <3>1. Len(queue'[p]) = Len(queue[p]) - 1 /\ queue'[p][i] = queue[p][i + 1]
        BY <1>4, <2>4
      <3>2. i + 1 \in 1..Len(queue[p])
        BY <1>2, <2>4, <3>1
      <3> QED
        BY <2>1, <2>4, <3>1, <3>2
    <2> QED
      BY <2>2, <2>3, <2>4
  <1>7. ASSUME NEW q \in Pages, q # p
        PROVE  UNCHANGED <<queue[q], left[q], lastCount[q], viewed[q], news[q], cut[q], path[q]>>
    BY <1>1, <1>3, <1>7
  <1>8. /\ path'[p] = "dashboard" => viewed'[p] = None
        /\ Calm(p)' => QueueTold(p, viewed[p])' /\ BaseTold(p, viewed[p])'
    BY <1>1, <1>5 DEF Calm
  <1>9. NewsInv'
    BY <1>1, <1>3, <1>6, <1>7, <1>8, OthersTold
  <1> QED
    BY <1>5, <1>9 DEF body

LEMMA NewsStep == Inv /\ NewsInv /\ [Next]_vars => NewsInv'
  <1> SUFFICES ASSUME Inv, NewsInv, [Next]_vars PROVE NewsInv'
    OBVIOUS
  <1>1. ASSUME UNCHANGED <<history, queue, left>>, UNCHANGED <<told, lastCount, viewed, news, cut, path>>
        PROVE  NewsInv'
    BY <1>1 DEF NewsInv, Untold, LastTold, QueueTold, BaseTold, Calm, Tells
  <1>2. ASSUME NEW b \in Seq(Bodies), Publish(b), \A i \in 1..Len(b) : b[i].type = "status",
               UNCHANGED <<told, lastCount, viewed, news, cut, path>>
        PROVE  NewsInv'
    <2>1. ASSUME NEW g
          PROVE  /\ Untold(g) => Untold(g)'
                 /\ LastTold(g) => LastTold(g)'
                 /\ \A p \in Pages : /\ QueueTold(p, g) => QueueTold(p, g)'
                                     /\ BaseTold(p, g) => BaseTold(p, g)'
      <3>1. told'[g] = told[g] /\ lastCount' = lastCount /\ \A i \in 1..Len(b) : ~Tells(b[i], g)
        BY <1>2 DEF Tells
      <3> QED
        BY <1>2, <3>1, NotTold DEF Inv
    <2>2. ASSUME NEW p \in Pages, Calm(p) PROVE QueueTold(p, viewed[p])' /\ BaseTold(p, viewed[p])'
      <3>1. QueueTold(p, viewed[p]) /\ BaseTold(p, viewed[p])
        BY <2>2 DEF NewsInv
      <3>2. PICK g : g = viewed[p]
        OBVIOUS
      <3>3. QueueTold(p, g)' /\ BaseTold(p, g)'
        BY <2>1, <3>1, <3>2
      <3> QED
        BY <1>2, <3>2, <3>3
    <2> QED
      BY <1>2, <2>1, <2>2 DEF NewsInv, Calm
  <1>3. /\ <<>> \in Seq(Bodies) /\ \A i \in 1..Len(<<>>) : <<>>[i].type = "status"
        /\ \A g \in Guests \cup {None} : /\ <<Status(g)>> \in Seq(Bodies)
                                         /\ \A i \in 1..Len(<<Status(g)>>) : <<Status(g)>>[i].type = "status"
    BY StatusPublished DEF Status
  <1>4. CASE Start
    BY <1>2, <1>3, <1>4 DEF Start, pages
  <1>5. CASE ListVms
    BY <1>1, <1>2, <1>3, <1>5 DEF ListVms, pages, bus
  <1>6. ASSUME NEW g \in Guests, ScanFails(g) PROVE NewsInv'
    BY <1>2, <1>3, <1>6 DEF ScanFails, pages
  <1>7. ASSUME NEW g \in Guests, NEW found \in SUBSET ({g} \X Subjects), Scan(g, found)
        PROVE NewsInv'
    BY <1>7, ScanTold
  <1>8. ASSUME NEW p \in Pages, LoadDashboard(p) \/ LoadIntrospect(p) PROVE NewsInv'
    <2>1. PICK to, findings, guest :
              /\ Load(p, to, findings, guest) /\ phase[p] # "joined"
              /\ to = "dashboard" => guest = None
      BY <1>8 DEF LoadDashboard, LoadIntrospect
    <2>2. /\ UNCHANGED <<history, told, queue, left>> /\ queue[p] = <<>>
          /\ path'[p] = to /\ viewed'[p] = guest /\ lastCount'[p] = Null
          /\ \A q \in Pages : q # p =>
                UNCHANGED <<queue[q], left[q], lastCount[q], viewed[q], news[q], cut[q], path[q]>>
      BY <2>1 DEF Load, bus, Inv, BusInv, BusTypes, ViewTypes
    <2>3. QueueTold(p, viewed[p])' /\ BaseTold(p, viewed[p])'
      BY <2>2 DEF QueueTold, BaseTold
    <2>4. \A q \in Pages : \A g \in Guests : told[g] = Null =>
             \A i \in 1..Len(queue'[q]) : ~Tells(queue'[q][i].body, g)
      BY <2>2 DEF NewsInv, Untold
    <2> QED
      BY <2>1, <2>2, <2>3, <2>4, OthersTold
  <1>9. ASSUME NEW p \in Pages, Connect(p) PROVE NewsInv'
    BY <1>9, ConnectTold
  <1>10. ASSUME NEW p \in Pages, Disconnect(p) PROVE NewsInv'
    <2>1. /\ UNCHANGED <<history, told, path, viewed, lastCount, news>>
          /\ queue'[p] = <<>> /\ cut'[p] = (cut[p] \/ ~live[p])
          /\ \A q \in Pages : q # p => UNCHANGED <<queue[q], left[q], cut[q]>>
      BY <1>10 DEF Disconnect, Unsubscribe, Unsubscribed, Inv, BusInv, BusTypes, ViewTypes
    <2>2. ASSUME Calm(p)' PROVE QueueTold(p, viewed[p])' /\ BaseTold(p, viewed[p])'
      <3>1. live[p] /\ Calm(p)
        BY <2>1, <2>2 DEF Calm
      <3>2. p \in joined
        BY <1>10 DEF Disconnect, Unsubscribe
      <3>3. left[p] = 0 /\ Len(queue[p]) \in Nat
        BY <3>1, <3>2 DEF Inv, BusInv, BusTypes, QueueOK
      <3>4. lastCount[p] \in {Null, told[viewed[p]]}
        BY <3>1, <3>3 DEF NewsInv, BaseTold
      <3> QED
        BY <2>1, <3>4 DEF QueueTold, BaseTold
    <2>3. \A q \in Pages : \A g \in Guests : told[g] = Null =>
             \A i \in 1..Len(queue'[q]) : ~Tells(queue'[q][i].body, g)
      BY <2>1 DEF NewsInv, Untold
    <2>4. path'[p] = "dashboard" => viewed'[p] = None
      BY <2>1 DEF NewsInv
    <2>5. ASSUME NEW q \in Pages, q # p
          PROVE  UNCHANGED <<queue[q], left[q], lastCount[q], viewed[q], news[q], cut[q], path[q]>>
      BY <2>1, <2>5
    <2> QED
      BY <2>1, <2>2, <2>3, <2>4, <2>5, OthersTold
  <1>11. ASSUME NEW p \in Pages, GetsReady(p) PROVE NewsInv'
    BY <1>1, <1>11 DEF GetsReady, Ready, pages
  <1>12. ASSUME NEW p \in Pages, DashboardGets(p) PROVE NewsInv'
    <2>1. /\ Send(p, TRUE) /\ UNCHANGED <<told, path, viewed, lastCount, cut, news>>
          /\ path[p] = "dashboard"
      BY <1>12 DEF DashboardGets
    <2>2. /\ UNCHANGED history /\ viewed[p] = None
          /\ \A q \in Pages : q # p => queue'[q] = queue[q] /\ left'[q] = left[q]
      BY <2>1 DEF Send, NewsInv, Inv, BusInv, BusTypes
    <2>3. /\ Len(queue'[p]) = Len(queue[p]) - 1 /\ Len(queue[p]) \in Nat
          /\ \A i \in 1..Len(queue'[p]) : queue'[p][i] = queue[p][i + 1]
      <3>1. queue[p] \in Seq(Event)
        BY DEF Inv, BusInv, BusTypes
      <3>2. BusInv /\ TRUE \in BOOLEAN
        BY DEF Inv
      <3>3. /\ Len(queue'[p]) = Len(queue[p]) - 1
            /\ \A i \in 1..Len(queue'[p]) : queue'[p][i] = queue[p][i + 1]
        BY <2>1, <3>2, SendOK
      <3> QED
        BY <3>1, <3>3
    <2>4. \A q \in Pages : \A g \in Guests : told[g] = Null =>
             \A i \in 1..Len(queue'[q]) : ~Tells(queue'[q][i].body, g)
      <3> SUFFICES ASSUME NEW q \in Pages, NEW g \in Guests, told[g] = Null,
                          NEW i \in 1..Len(queue'[q])
                   PROVE  ~Tells(queue'[q][i].body, g)
        OBVIOUS
      <3>1. \A k \in 1..Len(queue[q]) : ~Tells(queue[q][k].body, g)
        BY DEF NewsInv, Untold
      <3>2. CASE q # p
        BY <2>2, <3>1, <3>2
      <3>3. CASE q = p
        <4>1. i + 1 \in 1..Len(queue[p]) /\ queue'[p][i] = queue[p][i + 1]
          BY <2>3, <3>3
        <4> QED
          BY <3>1, <3>3, <4>1
      <3> QED
        BY <3>2, <3>3
    <2>5. ~Calm(p)' /\ viewed'[p] = None
      BY <2>1, <2>2 DEF Calm
    <2>6. ASSUME NEW q \in Pages, q # p
          PROVE  UNCHANGED <<queue[q], left[q], lastCount[q], viewed[q], news[q], cut[q], path[q]>>
      BY <2>1, <2>2, <2>6
    <2> QED
      BY <2>1, <2>2, <2>4, <2>5, <2>6, OthersTold
  <1>13. ASSUME NEW p \in Pages, IntrospectGets(p) PROVE NewsInv'
    BY <1>13, IntrospectTold
  <1>14. CASE Stop \/ Forget \/ PassBreaks
    BY <1>1, <1>14 DEF Stop, Forget, PassBreaks, pages, bus
  <1>15. CASE UNCHANGED vars
    BY <1>1, <1>15 DEF vars, pages, bus
  <1> QED
    BY <1>4, <1>5, <1>6, <1>7, <1>8, <1>9, <1>10, <1>11, <1>12, <1>13, <1>14, <1>15 DEF Next

LEMMA NewsInvariant == Spec => [](Inv /\ NewsInv)
  <1>1. Init => NewsInv
    BY DEF Init, BusInit, NewsInv, Untold, LastTold, Calm
  <1>2. Inv /\ NewsInv /\ [Next]_vars => NewsInv'
    BY NewsStep
  <1> QED
    BY <1>1, <1>2, Invariant, PTL DEF Spec

(* /introspect reloads only for a count that changed since the page was       *)
(* loaded, unless a stream broke before its marker: a replayed count is never *)
(* news (app.js:191-209).                                                    *)
THEOREM ReloadsAreNews == Spec => ReloadsForNews
  <1>1. Inv /\ NewsInv /\ [Next]_vars =>
          [\A p \in Pages :
              viewed[p] # None /\ phase[p] = "joined" /\ phase'[p] = "reloading" => news[p] \/ cut[p]]_vars
    <2> SUFFICES ASSUME Inv, NewsInv, [Next]_vars, NEW p \in Pages,
                        viewed[p] # None, phase[p] = "joined", phase'[p] = "reloading"
                 PROVE  news[p] \/ cut[p]
      OBVIOUS
    <2>1. CASE \E q \in Pages : IntrospectGets(q)
      <3>1. PICK q \in Pages : IntrospectGets(q)
        BY <2>1
      <3>2. phase' = [phase EXCEPT ![q] = IF Reloads(q, Head(queue[q]).body) THEN "reloading" ELSE @]
        BY <3>1 DEF IntrospectGets
      <3>3. q = p /\ Reloads(p, Head(queue[p]).body)
        BY <3>2 DEF Inv, ViewTypes
      <3>4. ~Calm(p)
        BY <3>1, <3>3, IntrospectTold
      <3> QED
        BY <3>4 DEF Calm
    <2>2. ASSUME UNCHANGED phase PROVE FALSE
      BY <2>2
    <2>3. ASSUME NEW q \in Pages, NEW to, NEW findings, NEW guest, Load(q, to, findings, guest)
          PROVE  FALSE
      BY <2>3 DEF Load, Inv, ViewTypes
    <2>4. ASSUME NEW q \in Pages, Connect(q) \/ Disconnect(q) PROVE FALSE
      BY <2>4 DEF Connect, Disconnect, Inv, ViewTypes
    <2>5. CASE Start \/ Stop \/ Forget \/ ListVms \/ PassBreaks \/ UNCHANGED vars
      BY <2>2, <2>5 DEF Start, Stop, Forget, ListVms, PassBreaks, vars, pages
    <2>6. ASSUME NEW g \in Guests, \/ ScanFails(g)
                                   \/ \E found \in SUBSET ({g} \X Subjects) : Scan(g, found)
          PROVE  FALSE
      BY <2>2, <2>6 DEF ScanFails, Scan, pages
    <2>7. ASSUME NEW q \in Pages, LoadDashboard(q) \/ LoadIntrospect(q) PROVE FALSE
      BY <2>3, <2>7 DEF LoadDashboard, LoadIntrospect
    <2>8. ASSUME NEW q \in Pages, GetsReady(q) \/ DashboardGets(q) PROVE FALSE
      BY <2>2, <2>8 DEF GetsReady, DashboardGets, pages
    <2> QED
      BY <2>1, <2>4, <2>5, <2>6, <2>7, <2>8 DEF Next
  <1> QED
    BY <1>1, NewsInvariant, PTL DEF Spec, ReloadsForNews
===============================================================================
