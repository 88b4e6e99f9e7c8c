------------------------------- MODULE EventBus -------------------------------
(***************************************************************************)
(* The event bus of the web server and the stream it feeds each connected    *)
(* page (src/src/ui/dynamic/rootview_web/events.py).  Publishing never waits: *)
(* an event goes to the history and to every queue with room.  A page that    *)
(* connects is sent the history, then a marker, then what is published.       *)
(* All of it runs on one event loop, so a step is what happens between two    *)
(* awaits.                                                                    *)
(***************************************************************************)
EXTENDS Integers, Sequences

CONSTANTS
    Pages,          \* browser tabs that may connect
    HistoryLimit,   \* HISTORY_LIMIT
    QueueLimit,     \* QUEUE_LIMIT
    MaxPublished    \* bound: the events published in a run

ASSUME LimitsAssumption ==
    HistoryLimit \in Nat \ {0} /\ QueueLimit \in Nat /\ HistoryLimit < QueueLimit
ASSUME MaxPublishedAssumption == MaxPublished \in Nat

VARIABLES
    history,    \* EventBus._history
    published,  \* how many events were published; an event carries its number
    joined,     \* EventBus._subscribers: the pages with an open stream
    queue,      \* each subscriber's queue
    left,       \* how much of the replayed history sse_source has yet to send
    live,       \* whether the page was sent the ready marker
    since,      \* history: how many events were published when it subscribed
    at,         \* history: the last event it was sent on this stream, 0 if none
    dropped     \* history: whether its queue was ever full

bus == <<history, published, joined, queue, left, live, since, at, dropped>>

BusInit ==
    /\ history = <<>> /\ published = 0 /\ joined = {}
    /\ queue = [p \in Pages |-> <<>>]
    /\ left = [p \in Pages |-> 0]
    /\ live = [p \in Pages |-> FALSE]
    /\ since = [p \in Pages |-> 0]
    /\ at = [p \in Pages |-> 0]
    /\ dropped = [p \in Pages |-> FALSE]

(* deque(maxlen=history_limit) keeps the newest events, a queue the first   *)
(* that fit: put_nowait raises QueueFull for the others.                     *)
Newest(s) == SubSeq(s, IF Len(s) > HistoryLimit THEN Len(s) - HistoryLimit + 1 ELSE 1, Len(s))

Overfull(s) == SubSeq(s, 1, IF Len(s) > QueueLimit + 1 THEN QueueLimit + 1 ELSE Len(s))
Fitting(s)  == SubSeq(s, 1, IF Len(s) > QueueLimit THEN QueueLimit ELSE Len(s))

Numbered(bodies) == [i \in 1..Len(bodies) |-> [n |-> published + i, body |-> bodies[i]]]

(* publish, for the events one stretch of code publishes without awaiting.  *)
Publish(bodies) ==
    /\ published + Len(bodies) <= MaxPublished
    /\ published' = published + Len(bodies)
    /\ history' = Newest(history \o Numbered(bodies))
    /\ queue' = [p \in Pages |-> IF p \in joined
                                 THEN Fitting(queue[p] \o Numbered(bodies)) ELSE queue[p]]
    /\ dropped' = [p \in Pages |-> dropped[p] \/ /\ p \in joined
                                                 /\ Len(queue[p]) + Len(bodies) > QueueLimit]
    /\ UNCHANGED <<joined, left, live, since, at>>

(* What sse_source counts as history: all that is queued when it starts.    *)
NoBacklog(replayed) == 0
Backlog(replayed)   == Len(replayed)

NoReplay == <<>>
Replayed == Fitting(history)

Subscribe(p) ==
    /\ p \notin joined
    /\ joined' = joined \cup {p}
    /\ queue' = [queue EXCEPT ![p] = Replayed]
    /\ left' = [left EXCEPT ![p] = Backlog(Replayed)]
    /\ live' = [live EXCEPT ![p] = FALSE]
    /\ since' = [since EXCEPT ![p] = published]
    /\ at' = [at EXCEPT ![p] = 0]
    /\ dropped' = [dropped EXCEPT ![p] = FALSE]
    /\ UNCHANGED <<history, published>>

Unsubscribed(p) ==
    /\ joined' = joined \ {p}
    /\ queue' = [queue EXCEPT ![p] = <<>>]
    /\ left' = [left EXCEPT ![p] = 0]
    /\ live' = [live EXCEPT ![p] = FALSE]

(* The generator is closed: the connection went down or the page went away. *)
Unsubscribe(p) ==
    /\ p \in joined
    /\ Unsubscribed(p)
    /\ since' = [since EXCEPT ![p] = 0]
    /\ at' = [at EXCEPT ![p] = 0]
    /\ dropped' = [dropped EXCEPT ![p] = FALSE]
    /\ UNCHANGED <<history, published>>

(* The marker is sent once the history has been. *)
Ready(p) ==
    /\ p \in joined /\ left[p] = 0 /\ ~live[p]
    /\ live' = [live EXCEPT ![p] = TRUE]
    /\ UNCHANGED <<history, published, joined, queue, left, since, at, dropped>>

Sendable(p) == p \in joined /\ queue[p] # <<>> /\ (left[p] > 0 \/ live[p])

(* The next event goes to the page, which either stays or, reloading,       *)
(* closes the stream.                                                        *)
Send(p, stays) ==
    /\ Sendable(p)
    /\ at' = [at EXCEPT ![p] = Head(queue[p]).n]
    /\ \/ /\ stays
          /\ queue' = [queue EXCEPT ![p] = Tail(@)]
          /\ left' = [left EXCEPT ![p] = IF @ > 0 THEN @ - 1 ELSE 0]
          /\ UNCHANGED <<joined, live>>
       \/ ~stays /\ Unsubscribed(p)
    /\ UNCHANGED <<history, published, since, dropped>>
===============================================================================
