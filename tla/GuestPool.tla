------------------------------- MODULE GuestPool -------------------------------
(***************************************************************************)
(* The web server's pool of attached guests                                 *)
(* (src/src/ui/dynamic/rootview_web/engine/pool.py).  Requests and scans    *)
(* run their jobs on worker threads (asyncio.to_thread): each takes the     *)
(* guest's lock, attaches if nobody has yet, uses the handle and drops it   *)
(* when the guest is found dead.  A lifecycle request drops the handle      *)
(* under the lock and then starts, stops, restarts or destroys the guest    *)
(* without it.  Cancelling a request does not stop its job, so jobs and the *)
(* pool's close overlap freely.                                             *)
(*                                                                          *)
(* Handles and profile errors are also read without the lock (GuestDetails),*)
(* and one route forgets an error without it: each statement that changes   *)
(* one of the two is a step of its own, in the code's order.                *)
(***************************************************************************)
EXTENDS Integers, FiniteSets

CONSTANTS
    Vms,        \* guest names
    Threads,    \* worker threads
    None,       \* no thread, no guest
    Works,      \* what requests do with a guest: "work", or "profile" (reload)
    MaxBoots,   \* bound: how often guests boot
    MaxHandles  \* bound: the handles attached in a run

ASSUME NoneAssumption == None \notin Threads \cup Vms
ASSUME WorksAssumption == Works \subseteq {"work", "profile"}
ASSUME BoundsAssumption == MaxBoots \in Nat /\ MaxHandles \in Nat

VARIABLES
    ready,      \* GuestPool.ready
    guests,     \* _guests: the handle attached to each guest, 0 if none
    locks,      \* _locks: the thread that holds each guest's lock
    errors,     \* the guests in profile_errors
    todo,       \* the guests _close_all has yet to drop
    job,        \* each thread's place in its job, with the job's locals
    open,       \* external: the rv handles not detached yet
    profiled,   \* external: the handles whose kernel profile is loaded
    at,         \* external: the boot each handle was attached to
    boot,       \* external: which boot a guest runs, 0 when it does not
    known,      \* external: the guests in the store
    boots       \* external: how many boots there were

pool  == <<ready, guests, locks, errors, todo>>
store == <<boot, known, boots>>
libs  == <<open, profiled, at>>
vars  == <<pool, job, libs, store>>

Handles == 1..MaxHandles
Ops     == {"start", "stop", "restart", "destroy"}
Places  == {"idle", "want", "list", "attach", "profile", "publish", "use", "failed",
            "clear", "drop", "pop", "detach", "forget", "call", "close"}
Job     == [pc : Places, vm : Vms \cup {None}, g : Handles \cup {0},
            op : Ops \cup Works \cup {"close", "none"}]

Idle == [pc |-> "idle", vm |-> None, g |-> 0, op |-> "none"]

Attached == {v \in Vms : guests[v] # 0}

(***************************************************************************)
(* What jobs are made of.                                                   *)
(***************************************************************************)
Free(v) == locks[v] = None

(* Threads take a guest's lock with "with self._lock(vm_id)".               *)
LockAnyway(v, t) == locks' = [locks EXCEPT ![v] = t]
Lock(v, t)       == Free(v) /\ locks' = [locks EXCEPT ![v] = t]

Goto(t, place) == job' = [job EXCEPT ![t].pc = place]
Takes(t, h, place) == job' = [job EXCEPT ![t].pc = place, ![t].g = h]

(* The job leaves its lock and goes on as j.                                *)
LeaveLockedAs(t, j) == job' = [job EXCEPT ![t] = j] /\ UNCHANGED locks
LeaveAs(t, j) ==
    /\ job' = [job EXCEPT ![t] = j]
    /\ locks' = [locks EXCEPT ![job[t].vm] = None]

Leave(t) == LeaveAs(t, Idle)

(***************************************************************************)
(* A request, or a scan, that works on a guest: _with_guest.                *)
(***************************************************************************)
(* get_engine and the backend turn requests away until the pool is started; *)
(* one that was let in goes on although the pool closes meanwhile.          *)
Admitted == ready

Guest(t, v, o) ==
    /\ job[t] = Idle /\ Admitted
    /\ job' = [job EXCEPT ![t] = [pc |-> "want", vm |-> v, g |-> 0, op |-> o]]
    /\ UNCHANGED <<pool, libs, store>>

WithGuest(t) ==
    LET v == job[t].vm IN
    /\ job[t].pc = "want"
    /\ Lock(v, t)
    /\ IF v \in Attached THEN Takes(t, guests[v], "use") ELSE Goto(t, "list")
    /\ UNCHANGED <<ready, guests, errors, todo, libs, store>>

(* _attach: an unknown guest is refused, ... *)
ListVms(t) ==
    /\ job[t].pc = "list"
    /\ IF job[t].vm \in known THEN Goto(t, "attach") /\ UNCHANGED locks ELSE Leave(t)
    /\ UNCHANGED <<ready, guests, errors, todo, libs, store>>

(* ... one that does not run cannot be attached to, ... *)
Attach(t) ==
    /\ job[t].pc = "attach"
    /\ \/ Leave(t) /\ UNCHANGED <<open, at>>
       \/ /\ boot[job[t].vm] # 0
          /\ \E h \in Handles :
               /\ at[h] = 0 /\ \A i \in 1..(h - 1) : at[i] # 0
               /\ at' = [at EXCEPT ![h] = boot[job[t].vm]]
               /\ open' = open \cup {h}
               /\ Takes(t, h, "profile")
          /\ UNCHANGED locks
    /\ UNCHANGED <<ready, guests, errors, todo, profiled, store>>

Unrecorded(v) == errors
Recorded(v)   == errors \cup {v}

(* ... and a profile that does not load is remembered, not fatal: its error *)
(* is there before the handle is.                                           *)
LoadProfile(t) ==
    LET v == job[t].vm  h == job[t].g IN
    /\ job[t].pc = "profile"
    /\ \/ at[h] = boot[v] /\ profiled' = profiled \cup {h} /\ errors' = errors \ {v}
       \/ profiled' = profiled /\ errors' = Recorded(v)
    /\ Goto(t, "publish")
    /\ UNCHANGED <<ready, guests, locks, todo, open, at, store>>

Publish(t) ==
    /\ job[t].pc = "publish"
    /\ guests' = [guests EXCEPT ![job[t].vm] = job[t].g]
    /\ Goto(t, "use")
    /\ UNCHANGED <<ready, locks, errors, todo, libs, store>>

(* fn(g) may fail at any time, and must when the handle's guest is gone.    *)
(* Loading a profile drops the one there was before it tries (rv_prof).     *)
Worked(t) ==
    LET h == job[t].g IN
    /\ at[h] = boot[job[t].vm]
    /\ IF job[t].op = "profile"
       THEN profiled' = profiled \cup {h} /\ LeaveAs(t, [job[t] EXCEPT !.pc = "clear", !.g = 0])
       ELSE UNCHANGED profiled /\ Leave(t)

Broke(t) ==
    /\ profiled' = IF job[t].op = "profile" THEN profiled \ {job[t].g} ELSE profiled
    /\ Goto(t, "failed")
    /\ UNCHANGED locks

Use(t) ==
    /\ job[t].pc = "use"
    /\ Worked(t) \/ Broke(t)
    /\ UNCHANGED <<ready, guests, errors, todo, open, at, store>>

(* The handle of a guest that no longer runs is dropped, any other kept.    *)
Failed(t) ==
    /\ job[t].pc = "failed"
    /\ IF boot[job[t].vm] = 0 THEN Goto(t, "pop") /\ UNCHANGED locks ELSE Leave(t)
    /\ UNCHANGED <<ready, guests, errors, todo, libs, store>>

(* The reload route forgets the guest's error when its job is done, without *)
(* the lock; if it was cancelled meanwhile, it does not.                    *)
Clear(t) ==
    /\ job[t].pc = "clear"
    /\ errors' \in {errors, errors \ {job[t].vm}}
    /\ job' = [job EXCEPT ![t] = Idle]
    /\ UNCHANGED <<ready, guests, locks, todo, libs, store>>

(***************************************************************************)
(* _drop_locked, inside the guest's lock: the handle leaves the pool, is    *)
(* detached, and its error is forgotten.                                    *)
(***************************************************************************)
Pop(t) ==
    LET v == job[t].vm IN
    /\ job[t].pc = "pop"
    /\ guests' = [guests EXCEPT ![v] = 0]
    /\ Takes(t, guests[v], IF v \in Attached THEN "detach" ELSE "forget")
    /\ UNCHANGED <<ready, locks, errors, todo, libs, store>>

NotDetached(h) == open
Detached(h)    == open \ {h}

Detach(t) ==
    /\ job[t].pc = "detach"
    /\ open' = Detached(job[t].g)
    /\ profiled' = profiled \ {job[t].g}
    /\ Takes(t, 0, "forget")
    /\ UNCHANGED <<pool, at, store>>

ErrorKept(v)    == errors
ErrorDropped(v) == errors \ {v}

(* Then a lifecycle request makes its call, close goes on with the next     *)
(* guest, and a failed request is over.                                     *)
After(j) ==
    CASE j.op \in Ops -> [j EXCEPT !.pc = "call"]
      [] j.op = "close" -> [j EXCEPT !.pc = "close", !.vm = None]
      [] OTHER -> Idle

Forget(t) ==
    /\ job[t].pc = "forget"
    /\ errors' = ErrorDropped(job[t].vm)
    /\ LeaveAs(t, After(job[t]))
    /\ UNCHANGED <<ready, guests, todo, libs, store>>

(***************************************************************************)
(* Lifecycle requests: _drop, then the call.                                *)
(***************************************************************************)
Lifecycle(t, v, o) ==
    /\ job[t] = Idle /\ Admitted
    /\ job' = [job EXCEPT ![t] = [pc |-> "drop", vm |-> v, g |-> 0, op |-> o]]
    /\ UNCHANGED <<pool, libs, store>>

Drop(t) ==
    /\ job[t].pc = "drop"
    /\ Lock(job[t].vm, t)
    /\ Goto(t, "pop")
    /\ UNCHANGED <<ready, guests, errors, todo, libs, store>>

(* External: what the call does to a guest in the store, if it succeeds. *)
Boots(v) ==
    /\ v \in known /\ boots < MaxBoots
    /\ boots' = boots + 1
    /\ boot' = [boot EXCEPT ![v] = boots + 1]
    /\ UNCHANGED known

Halts(v) ==
    /\ boot[v] # 0
    /\ boot' = [boot EXCEPT ![v] = 0]
    /\ UNCHANGED <<boots, known>>

Does(o, v) ==
    \/ o = "start" /\ boot[v] = 0 /\ Boots(v)
    \/ o = "stop" /\ Halts(v)
    \/ o = "restart" /\ (Boots(v) \/ Halts(v))      \* the start may fail
    \/ /\ o = "destroy" /\ v \in known
       /\ known' = known \ {v}
       /\ boot' = [boot EXCEPT ![v] = 0]
       /\ UNCHANGED boots

Call(t) ==
    /\ job[t].pc = "call"
    /\ Does(job[t].op, job[t].vm) \/ UNCHANGED store
    /\ job' = [job EXCEPT ![t] = Idle]
    /\ UNCHANGED <<pool, libs>>

(* External: a guest halts by itself, and the command line boots guests     *)
(* without telling the server.                                              *)
Outside ==
    /\ \E v \in Vms : Halts(v) \/ (boot[v] = 0 /\ Boots(v))
    /\ UNCHANGED <<pool, job, libs>>

(***************************************************************************)
(* The pool's own start and close.                                          *)
(***************************************************************************)
Start ==
    /\ ~ready
    /\ ready' = TRUE
    /\ UNCHANGED <<guests, locks, errors, todo, job, libs, store>>

Close(t) ==
    /\ job[t] = Idle /\ ready
    /\ \A u \in Threads : job[u].op # "close"
    /\ job' = [job EXCEPT ![t] = [Idle EXCEPT !.pc = "close", !.op = "close"]]
    /\ todo' = Attached
    /\ UNCHANGED <<ready, guests, locks, errors, libs, store>>

CloseAll(t) ==
    /\ job[t].pc = "close"
    /\ \/ /\ todo = {}
          /\ ready' = FALSE
          /\ job' = [job EXCEPT ![t] = Idle]
          /\ UNCHANGED <<locks, todo>>
       \/ \E v \in todo :
            /\ Lock(v, t)
            /\ todo' = todo \ {v}
            /\ job' = [job EXCEPT ![t].pc = "pop", ![t].vm = v]
            /\ UNCHANGED ready
    /\ UNCHANGED <<guests, errors, libs, store>>

-----------------------------------------------------------------------------
Init ==
    /\ ready = FALSE
    /\ guests = [v \in Vms |-> 0]
    /\ locks = [v \in Vms |-> None]
    /\ errors = {} /\ todo = {}
    /\ job = [t \in Threads |-> Idle]
    /\ open = {} /\ profiled = {} /\ at = [h \in Handles |-> 0]
    /\ boot = [v \in Vms |-> 0]
    /\ known = Vms /\ boots = 0

Request(t) ==
    \/ \E v \in Vms, o \in Works : Guest(t, v, o)
    \/ \E v \in Vms, o \in Ops : Lifecycle(t, v, o)
    \/ Close(t)

(* One step of the job a thread is in. *)
Step(t) ==
    \/ WithGuest(t)
    \/ ListVms(t)
    \/ Attach(t)
    \/ LoadProfile(t)
    \/ Publish(t)
    \/ Use(t)
    \/ Failed(t)
    \/ Clear(t)
    \/ Drop(t)
    \/ Pop(t)
    \/ Detach(t)
    \/ Forget(t)
    \/ Call(t)
    \/ CloseAll(t)

Next == Start \/ Outside \/ \E t \in Threads : Request(t) \/ Step(t)

Spec == Init /\ [][Next]_vars

(* A thread goes on with its job when it can. *)
FairSpec == Spec /\ \A t \in Threads : WF_vars(Step(t))

-----------------------------------------------------------------------------
(***************************************************************************)
(* Properties.                                                              *)
(***************************************************************************)
Inside == {"list", "attach", "profile", "publish", "use", "failed", "pop", "detach", "forget"}

(* Every variable has its type, and a guest's lock is held by exactly the   *)
(* job that is inside its "with" block.                                     *)
TypeOK ==
    /\ ready \in BOOLEAN
    /\ guests \in [Vms -> Handles \cup {0}]
    /\ locks \in [Vms -> Threads \cup {None}]
    /\ errors \in SUBSET Vms /\ todo \in SUBSET Vms
    /\ job \in [Threads -> Job]
    /\ open \in SUBSET Handles /\ profiled \in SUBSET Handles
    /\ at \in [Handles -> Nat]
    /\ boot \in [Vms -> Nat] /\ boots \in Nat
    /\ known \in SUBSET Vms
    /\ \A t \in Threads : job[t].pc \in {"idle", "close"} \/ job[t].vm \in Vms
    /\ \A v \in Vms, t \in Threads :
         locks[v] = t <=> job[t].pc \in Inside /\ job[t].vm = v

Using == {t \in Threads : job[t].pc \in {"use", "failed"}}

(* A handle is used only while it is attached, is the pool's, and belongs   *)
(* to the user alone: no drop, lifecycle request or close detaches it under *)
(* a job (pool.py:69-77, 99-107), and no two jobs share it.                 *)
UsedByOne ==
    \A t \in Using :
        /\ job[t].g \in open
        /\ guests[job[t].vm] = job[t].g
        /\ \A u \in Using \ {t} : job[u].g # job[t].g

(* The handles in the hands of one job only: attached and not yet the       *)
(* pool's, or no longer the pool's and not yet detached.                    *)
Holding == {t \in Threads : job[t].pc \in {"profile", "publish", "detach"}}

(* No handle is lost: each one not detached is the pool's, for one guest,   *)
(* or in the hands of the job that attached it or is about to detach it.    *)
(* A lost one would keep the guest's hooks and its kvmi connection for ever.*)
NoneLost ==
    /\ \A h \in open :
        \/ \E v \in Vms : guests[v] = h
        \/ \E t \in Holding : job[t].g = h
    /\ \A v \in Attached : guests[v] \in open
    /\ \A v, w \in Attached : guests[v] = guests[w] => v = w

(* Readers that take no lock may find the profile error of a guest that is  *)
(* not attached, but only while a job is between recording it and           *)
(* publishing the handle (pool.py:89-90), or between taking the handle from *)
(* the pool and forgetting the error (pool.py:104-107): no error stays      *)
(* behind, whatever attaches, drops, reloads and closes meanwhile.          *)
ErrorsSettle ==
    \A v \in errors \ Attached :
        \E t \in Threads : job[t].vm = v /\ job[t].pc \in {"publish", "detach", "forget"}

(* What a job holds alone: nobody else has that handle, and while the pool  *)
(* has nothing for the guest only this job changes that.                    *)
HeldAlone ==
    /\ \A t \in Holding :
         /\ job[t].g \in open
         /\ \A v \in Vms : guests[v] # job[t].g
         /\ \A u \in Holding \ {t} : job[u].g # job[t].g
    /\ \A t \in Threads :
         job[t].pc \in {"list", "attach", "profile", "publish", "detach", "forget"} =>
             job[t].vm \notin Attached
    /\ \A h \in open : at[h] # 0

(* Whatever becomes of a job, its guest's lock is given back.               *)
LocksReleased == \A v \in Vms : ~Free(v) ~> Free(v)

(* After a guest is stopped through the pool nothing is attached to it: the *)
(* lifecycle test asserts that the handle it had is closed                  *)
(* (tests/test_engine.py:306-309).                                          *)
StopDetaches ==
    [][\A t \in Threads :
        /\ job[t].pc = "call" /\ job[t].op = "stop" /\ job'[t] = Idle
        /\ boot'[job[t].vm] = 0
        => guests'[job[t].vm] = 0]_vars

=============================================================================
