------------------------------- MODULE EventRing -------------------------------
(***************************************************************************)
(* The event ring of an rv handle (src/src/impl/bind/rv_hook.c): hook       *)
(* callbacks push numbered events into RV_EVENTS_MAX slots while the client *)
(* polls, and rv_events copies out the oldest ones.                         *)
(***************************************************************************)
EXTENDS Integers, Sequences

CONSTANTS
    RvEventsMax,    \* RV_EVENTS_MAX
    Events,         \* what a callback reports
    Empty,          \* a slot as calloc left it
    SeqBound        \* bound: the events pushed in a run

ASSUME RvEventsMaxAssumption == RvEventsMax \in Nat \ {0}
ASSUME EmptyAssumption == Empty \notin [seq : Nat, ev : Events]
ASSUME SeqBoundAssumption == SeqBound \in Nat

VARIABLES
    events,     \* events[RV_EVENTS_MAX]
    head,       \* the oldest event not read
    count,      \* how many are not read
    seq,        \* the next event's number
    dropped,    \* overwritten since the last rv_events
    got,        \* what the last rv_events call returned: [out, dropped]
    seen        \* history: all events returned to the client or counted as dropped

ring == <<events, head, count, seq, dropped>>
vars == <<events, head, count, seq, dropped, got, seen>>

Index == 0..(RvEventsMax - 1)
Item  == [seq : Nat, ev : Events]

Init ==
    /\ events = [i \in Index |-> Empty]
    /\ head = 0 /\ count = 0 /\ seq = 0 /\ dropped = 0
    /\ got = [out |-> <<>>, dropped |-> 0]
    /\ seen = 0

(* i places after the oldest event, i <= RV_EVENTS_MAX. *)
At(i) == (head + i) % RvEventsMax

(* ring_slot, then push_event's assignment: a full ring gives up its oldest *)
(* event, and the slot after the newest is written.                         *)
OneTooLate  == IF count > RvEventsMax THEN 1 ELSE 0
Overwritten == IF count = RvEventsMax THEN 1 ELSE 0

Uncounted == dropped
Counted   == dropped + Overwritten

OldHeadSlot == (head + count - Overwritten) % RvEventsMax
FreeSlot    == (head + count) % RvEventsMax

PushEvent(e) ==
    /\ seq < SeqBound
    /\ head' = (head + Overwritten) % RvEventsMax
    /\ count' = count - Overwritten + 1
    /\ dropped' = Counted
    /\ events' = [events EXCEPT ![FreeSlot] = [seq |-> seq, ev |-> e]]
    /\ seq' = seq + 1
    /\ UNCHANGED <<got, seen>>

(* rv_events with room for max events. *)
TakeAll(max) == max
Take(max)    == IF count < max THEN count ELSE max

NotReset == dropped
Reset    == 0

RvEvents(max) ==
    LET take == Take(max)
    IN  /\ got' = [out |-> [i \in 1..take |-> events[At(i - 1)]], dropped |-> dropped]
        /\ head' = (head + take) % RvEventsMax
        /\ count' = count - take
        /\ dropped' = Reset
        /\ seen' = seen + take + dropped
        /\ UNCHANGED <<events, seq>>

(* The client's room never matters beyond the ring's size. *)
Next == (\E e \in Events : PushEvent(e)) \/ (\E max \in 0..RvEventsMax : RvEvents(max))

Spec == Init /\ [][Next]_vars

-----------------------------------------------------------------------------
(***************************************************************************)
(* Properties.                                                              *)
(***************************************************************************)
(* head and count stay within the ring, and what it holds are events.       *)
TypeOK ==
    /\ events \in [Index -> Item \cup {Empty}]
    /\ head \in Index
    /\ count \in 0..RvEventsMax
    /\ seq \in Nat /\ dropped \in Nat /\ seen \in Nat
    /\ got.dropped \in Nat
    /\ got.out \in Seq(Item \cup {Empty})

(* The ring's content, read from head as rv_events reads it, is the last    *)
(* count events in the order they were pushed: across any number of wraps   *)
(* and overwrites no slot is stale, skipped or reordered (rv_hook.c:31-63). *)
NewestInOrder ==
    \A i \in 0..(count - 1) :
        /\ events[At(i)] # Empty
        /\ events[At(i)].seq = seq - count + i

(* Every event pushed is unread, was returned, or is counted as dropped     *)
(* (rv_hook.c:145-156): none is lost without notice, none counted twice.    *)
Conservation == seen + dropped + count = seq

(* What the client can rely on: a read continues where the previous one     *)
(* stopped, leaving out exactly the events it reports as dropped.           *)
ReadsContinue ==
    [][(\E max \in 0..RvEventsMax : RvEvents(max))
        => \A i \in 1..Len(got'.out) :
             got'.out[i] # Empty /\ got'.out[i].seq = seen + got'.dropped + i - 1]_vars

(* The ring implements the lossy queue.                                     *)
Held == [i \in 1..count |-> events[At(i - 1)]]

Queue == INSTANCE LossyQueue WITH
            Capacity <- RvEventsMax, held <- Held, next <- seq, lost <- dropped

QueueSpec == Queue!Spec
=============================================================================
