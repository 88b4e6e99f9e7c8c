------------------------------- MODULE LiveView -------------------------------
(***************************************************************************)
(* The live view of the web server: the scanner (services.py) publishes what *)
(* its passes over the guests find, and the pages (static/js/app.js), which   *)
(* the server rendered with what stood at that moment (routers/pages.py),     *)
(* follow its events over the bus.                                            *)
(***************************************************************************)
EXTENDS FiniteSets, EventBus

CONSTANTS
    Guests, Subjects,   \* a finding is a subject of a guest
    None                \* no guest

Findings == Guests \X Subjects

ASSUME GuestsAssumption == None \notin Guests /\ IsFiniteSet(Subjects)
Bodies == [type : {"detection"}, vm : Guests, item : Subjects]
    \cup [type : {"scan"}, vm : Guests, item : 0..Cardinality(Subjects)]
    \cup [type : {"status"}, vm : Guests \cup {None}, item : {0}]
Event == [n : Nat, body : Bodies]

VARIABLES
    scanning,   \* whether the scanner's task runs
    todo,       \* the guests the current pass has yet to scan
    reported,   \* ScannerService._reported
    latest,     \* the detections in ScannerService._latest
    phase,      \* of a tab: "blank", its page "loaded", its stream "joined", "reloading"
    path,       \* "dashboard" shows all findings, "introspect" the state of one guest
    shown,      \* seen: the findings a dashboard shows
    viewed,     \* the guest whose state the page shows, if any
    lastCount,  \* lastCount
    announced,  \* history: the number of the last event that announced a finding, or 0
    told,       \* history: the count of the last scan event of a guest
    news,       \* history: whether such a count changed since the page was loaded
    cut         \* history: whether a stream of this load ended before its marker

scanner == <<scanning, todo, reported, latest>>
pages   == <<phase, path, shown, viewed, lastCount, cut>>
vars    == <<bus, scanner, pages, announced, told, news>>

Null == -1      \* null of app.js

Detection(d) == [type |-> "detection", vm |-> d[1], item |-> d[2]]
ScanDone(g, n) == [type |-> "scan", vm |-> g, item |-> n]
Status(g) == [type |-> "status", vm |-> g, item |-> 0]

(* Detections are published in the order of their severity, which is left   *)
(* open here.                                                                *)
Orders(S) == {f \in [1..Cardinality(S) -> S] : \A d \in S : \E i \in DOMAIN f : f[i] = d}

Init ==
    /\ BusInit
    /\ scanning = FALSE /\ todo = {} /\ reported = {} /\ latest = {}
    /\ phase = [p \in Pages |-> "blank"]
    /\ path = [p \in Pages |-> "dashboard"]
    /\ shown = [p \in Pages |-> {}]
    /\ viewed = [p \in Pages |-> None]
    /\ lastCount = [p \in Pages |-> Null]
    /\ announced = [d \in Findings |-> 0]
    /\ told = [g \in Guests |-> Null]
    /\ news = [p \in Pages |-> FALSE]
    /\ cut = [p \in Pages |-> FALSE]

-----------------------------------------------------------------------------
(* ScannerService *)

(* A backend that cannot start is reported; the loop runs all the same. *)
Start ==
    /\ ~scanning
    /\ scanning' = TRUE /\ todo' = {}
    /\ \E said \in {<<>>, <<Status(None)>>} : Publish(said)
    /\ UNCHANGED <<reported, latest, pages, announced, told, news>>

(* The task is cancelled at whatever it awaits; nothing of the guest being  *)
(* scanned is kept.                                                          *)
Stop ==
    /\ scanning
    /\ scanning' = FALSE /\ todo' = {}
    /\ UNCHANGED <<bus, reported, latest, pages, announced, told, news>>

Forget ==
    /\ reported' = {} /\ latest' = {}
    /\ UNCHANGED <<bus, scanning, todo, pages, announced, told, news>>

(* A pass begins: the backend fails or lists the guests, some running. *)
ListVms ==
    /\ scanning /\ todo = {}
    /\ \/ /\ Publish(<<Status(None)>>)
          /\ UNCHANGED todo
       \/ /\ \E running \in SUBSET Guests \ {{}} : todo' = running
          /\ UNCHANGED bus
    /\ UNCHANGED <<scanning, reported, latest, pages, announced, told, news>>

ScanFails(g) ==
    /\ g \in todo
    /\ todo' = todo \ {g}
    /\ Publish(<<Status(g)>>)
    /\ UNCHANGED <<scanning, reported, latest, pages, announced, told, news>>

(* Any other error ends the pass; the loop begins another. *)
PassBreaks ==
    /\ todo # {}
    /\ todo' = {}
    /\ UNCHANGED <<bus, scanning, reported, latest, pages, announced, told, news>>

ToTell(found) == found \ reported
Report(order, g, found) ==
    Append([i \in DOMAIN order |-> Detection(order[i])], ScanDone(g, Cardinality(found)))

(* The backend answers with the findings of the guest (none when it stopped *)
(* meanwhile): they become its latest result, and those never reported are   *)
(* published before the scan itself.                                         *)
Scan(g, found) ==
    /\ g \in todo
    /\ todo' = todo \ {g}
    /\ latest' = {d \in latest : d[1] # g} \cup found
    /\ reported' = reported \cup found
    /\ \E order \in Orders(ToTell(found)) :
          /\ Publish(Report(order, g, found))
          /\ announced' = [d \in Findings |-> IF d \in ToTell(found)
                              THEN published + (CHOOSE i \in DOMAIN order : order[i] = d)
                              ELSE announced[d]]
    /\ told' = [told EXCEPT ![g] = Cardinality(found)]
    /\ news' = [p \in Pages |-> news[p] \/ /\ viewed[p] = g
                                           /\ told[g] \notin {Null, Cardinality(found)}]
    /\ UNCHANGED <<scanning, pages>>

-----------------------------------------------------------------------------
(* Pages *)

(* all_detections *)
AllDetections == latest

(* The server renders a page, the browser loads it and its script starts    *)
(* anew: a dashboard with the findings that stand, /introspect with the guest *)
(* asked for or the first that runs, if any does.                             *)
Load(p, to, findings, guest) ==
    /\ phase' = [phase EXCEPT ![p] = "loaded"]
    /\ path' = [path EXCEPT ![p] = to]
    /\ shown' = [shown EXCEPT ![p] = findings]
    /\ viewed' = [viewed EXCEPT ![p] = guest]
    /\ lastCount' = [lastCount EXCEPT ![p] = Null]
    /\ news' = [news EXCEPT ![p] = FALSE]
    /\ cut' = [cut EXCEPT ![p] = FALSE]
    /\ UNCHANGED <<bus, scanner, announced, told>>

LoadDashboard(p) ==
    phase[p] \in {"blank", "loaded"} /\ Load(p, "dashboard", AllDetections, None)

LoadIntrospect(p) ==
    /\ phase[p] # "joined"
    /\ \E g \in Guests \cup {None} : Load(p, "introspect", {}, g)

(* EventSource opens the stream, at first or again. *)
Connect(p) ==
    /\ phase[p] = "loaded"
    /\ phase' = [phase EXCEPT ![p] = "joined"]
    /\ Subscribe(p)
    /\ UNCHANGED <<scanner, path, shown, viewed, lastCount, cut, announced, told, news>>

(* The connection breaks or the user leaves the page. EventSource retries.   *)
Disconnect(p) ==
    /\ phase[p] = "joined"
    /\ phase' = [phase EXCEPT ![p] = "loaded"]
    /\ cut' = [cut EXCEPT ![p] = @ \/ ~live[p]]
    /\ Unsubscribe(p)
    /\ UNCHANGED <<scanner, path, shown, viewed, lastCount, announced, told, news>>

GetsReady(p) ==
    /\ Ready(p)
    /\ UNCHANGED <<scanner, pages, announced, told, news>>

(* The detection handler of a dashboard: a finding shown once stays. *)
DashboardGets(p) ==
    LET body == Head(queue[p]).body IN
    /\ path[p] = "dashboard"
    /\ Send(p, TRUE)
    /\ shown' = [shown EXCEPT ![p] = IF body.type = "detection"
                                     THEN @ \cup {<<body.vm, body.item>>} ELSE @]
    /\ UNCHANGED <<scanner, phase, path, viewed, lastCount, cut, announced, told, news>>

(* The scan handler of /introspect: what comes before the marker is the baseline. *)
Concerns(p, body) == body.type = "scan" /\ viewed[p] \in {None, body.vm}

ReloadsAnyway(p, body) ==
    Concerns(p, body) /\ lastCount[p] \notin {Null, body.item}
Reloads(p, body) ==
    Concerns(p, body) /\ live[p] /\ lastCount[p] \notin {Null, body.item}

IntrospectGets(p) ==
    LET body == Head(queue[p]).body IN
    /\ path[p] = "introspect"
    /\ Send(p, ~Reloads(p, body))
    /\ phase' = [phase EXCEPT ![p] = IF Reloads(p, body) THEN "reloading" ELSE @]
    /\ lastCount' = [lastCount EXCEPT ![p] = IF Concerns(p, body) THEN body.item ELSE @]
    /\ UNCHANGED <<scanner, path, shown, viewed, cut, announced, told, news>>

Next ==
    \/ Start \/ Stop \/ Forget \/ ListVms \/ PassBreaks
    \/ \E g \in Guests : ScanFails(g) \/ \E found \in SUBSET ({g} \X Subjects) : Scan(g, found)
    \/ \E p \in Pages :
          \/ LoadDashboard(p) \/ LoadIntrospect(p)
          \/ Connect(p) \/ Disconnect(p) \/ GetsReady(p)
          \/ DashboardGets(p) \/ IntrospectGets(p)

Spec == Init /\ [][Next]_vars

-----------------------------------------------------------------------------
(* Types, the limits of history and queues, and that a page has a place on  *)
(* the bus exactly while its stream is open (sse_source).                    *)
TypeOK ==
    /\ published \in Nat
    /\ history \in Seq(Event) /\ Len(history) <= HistoryLimit
    /\ queue \in [Pages -> Seq(Event)]
    /\ \A p \in Pages : Len(queue[p]) <= QueueLimit
    /\ joined = {p \in Pages : phase[p] = "joined"}
    /\ left \in [Pages -> Nat] /\ live \in [Pages -> BOOLEAN]
    /\ since \in [Pages -> Nat] /\ at \in [Pages -> Nat] /\ dropped \in [Pages -> BOOLEAN]
    /\ scanning \in BOOLEAN /\ todo \subseteq Guests
    /\ reported \subseteq Findings /\ latest \subseteq reported
    /\ phase \in [Pages -> {"blank", "loaded", "joined", "reloading"}]
    /\ path \in [Pages -> {"dashboard", "introspect"}]
    /\ shown \in [Pages -> SUBSET Findings]
    /\ viewed \in [Pages -> Guests \cup {None}]
    /\ lastCount \in [Pages -> 0..Cardinality(Subjects) \cup {Null}]
    /\ announced \in [Findings -> Nat]
    /\ told \in [Guests -> 0..Cardinality(Subjects) \cup {Null}]
    /\ news \in [Pages -> BOOLEAN] /\ cut \in [Pages -> BOOLEAN]

(* The marker stands at the true boundary (events.py:167-170): on a stream,  *)
(* events come in the order published, those published before the page        *)
(* subscribed before the marker and all others after it.                      *)
Boundary == [][\A p \in Pages : at'[p] \notin {0, at[p]} =>
                    /\ at'[p] > at[p]
                    /\ live[p] <=> at'[p] > since[p]]_vars

(* A page that was sent all it was queued and lost nothing shows every        *)
(* finding announced since it subscribed or within the history it was         *)
(* replayed (events.py:25-27, 105-127), however often its connection broke.   *)
NothingUnseen ==
    \A p \in Pages : path[p] = "dashboard" /\ live[p] /\ queue[p] = <<>> /\ ~dropped[p] =>
        \A d \in Findings :
            announced[d] # 0 /\ announced[d] > since[p] - HistoryLimit => d \in shown[p]

(* /introspect reloads only for a change that came while it was open               *)
(* (app.js:191-196), unless it lost a stream before its marker: the baseline   *)
(* of a history cut short may be older than the page.                         *)
ReloadsForNews == [][\A p \in Pages :
    viewed[p] # None /\ phase[p] = "joined" /\ phase'[p] = "reloading" => news[p] \/ cut[p]]_vars
===============================================================================
