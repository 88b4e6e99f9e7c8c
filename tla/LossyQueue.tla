------------------------------ MODULE LossyQueue ------------------------------
(***************************************************************************)
(* What the event buffer of an rv handle promises its reader: a bounded     *)
(* first-in first-out queue of numbered events that makes room by losing    *)
(* its oldest one, and tells with each read how many it lost since the last *)
(* one.  EventRing implements it.                                           *)
(***************************************************************************)
EXTENDS Integers, Sequences

CONSTANTS
    Capacity,   \* how many events it holds, at least one
    Events

VARIABLES
    held,   \* the events not read yet, oldest first, with their numbers
    next,   \* the number of the next event
    lost    \* how many were lost since the last read

lvars == <<held, next, lost>>

Init == held = <<>> /\ next = 0 /\ lost = 0

Push(e) ==
    LET new == [seq |-> next, ev |-> e]
    IN  /\ IF Len(held) = Capacity
              THEN held' = Append(Tail(held), new) /\ lost' = lost + 1
              ELSE held' = Append(held, new) /\ UNCHANGED lost
        /\ next' = next + 1

Read(n) ==
    /\ held' = SubSeq(held, n + 1, Len(held))
    /\ lost' = 0
    /\ UNCHANGED next

Next == (\E e \in Events : Push(e)) \/ (\E n \in 0..Len(held) : Read(n))

Spec == Init /\ [][Next]_lvars

=============================================================================
