--------------------------- MODULE GuestPoolProofs ---------------------------
(***************************************************************************)
(* Proofs about the pool of guests, for any number of guests and worker     *)
(* threads: no handle is used after it was detached, shared or lost.        *)
(***************************************************************************)
EXTENDS GuestPool, TLAPS

(* The two halves of TypeOK. *)
Types ==
    /\ ready \in BOOLEAN
    /\ guests \in [Vms -> Handles \cup {0}]
    /\ locks \in [Vms -> Threads \cup {None}]
    /\ errors \in SUBSET Vms /\ todo \in SUBSET Vms
    /\ job \in [Threads -> Job]
    /\ open \in SUBSET Handles /\ profiled \in SUBSET Handles
    /\ at \in [Handles -> Nat]
    /\ boot \in [Vms -> Nat] /\ boots \in Nat
    /\ known \in SUBSET Vms
    /\ \A t \in Threads : job[t].pc \in {"idle", "close"} \/ job[t].vm \in Vms

Holders ==
    \A v \in Vms, t \in Threads : locks[v] = t <=> job[t].pc \in Inside /\ job[t].vm = v

LEMMA Halves == TypeOK <=> Types /\ Holders
  BY DEF TypeOK, Types, Holders

(* The inductive invariant: what is used and kept also rests on who holds   *)
(* each lock, and on what a job holds before it tells the pool.             *)
PoolInv == Types /\ Holders /\ UsedByOne /\ NoneLost /\ ErrorsSettle /\ HeldAlone

LEMMA PoolInit == Init => PoolInv
  <1> SUFFICES ASSUME Init PROVE PoolInv
    OBVIOUS
  <1>1. \A t \in Threads : job[t] = Idle
    BY DEF Init
  <1>2. Idle \in Job /\ Idle.pc = "idle"
    BY DEF Idle, Job, Places, Ops
  <1>3. Types
    BY <1>2 DEF Init, Types
  <1>4. Holders
    BY <1>1, <1>2, NoneAssumption DEF Init, Holders, Inside
  <1>5. UsedByOne /\ NoneLost /\ ErrorsSettle /\ HeldAlone
    BY <1>1, <1>2 DEF Init, UsedByOne, Using, NoneLost, Attached, ErrorsSettle, HeldAlone, Holding
  <1> QED
    BY <1>3, <1>4, <1>5 DEF PoolInv

(* Only one job is inside a guest's lock.                                   *)
LEMMA Alone ==
    ASSUME PoolInv, NEW t \in Threads, NEW u \in Threads,
           job[t].pc \in Inside, job[u].pc \in Inside, job[t].vm = job[u].vm
    PROVE  t = u /\ job[t].vm \in Vms
  BY DEF PoolInv, Types, Holders, Inside

(* Nobody is inside a free lock.                                            *)
LEMMA Outsiders ==
    ASSUME PoolInv, NEW v \in Vms, Free(v)
    PROVE  \A t \in Threads : job[t].pc \in Inside => job[t].vm # v
  BY NoneAssumption DEF PoolInv, Holders, Free

(* Where the handle is in the job's hands, and where the pool has none.     *)
Hands == {"profile", "publish", "detach"}
Bare  == {"list", "attach", "profile", "publish", "detach", "forget"}

(* A job that leaves its lock, holding nothing and leaving no error behind, *)
(* leaves the pool sound.                                                   *)
LEMMA Leaves ==
    ASSUME PoolInv, NEW t \in Threads, NEW j \in Job, LeaveAs(t, j), Types',
           job[t].pc \in Inside \ Hands, j.pc \notin Inside,
           errors' \subseteq errors, job[t].pc = "forget" => job[t].vm \notin errors',
           UNCHANGED <<guests, open, at>>
    PROVE  PoolInv'
  <1>1. /\ job' = [job EXCEPT ![t] = j] /\ locks' = [locks EXCEPT ![job[t].vm] = None]
        /\ job'[t] = j /\ \A u \in Threads \ {t} : job'[u] = job[u]
    BY DEF LeaveAs, PoolInv, Types
  <1>2. locks[job[t].vm] = t /\ job[t].vm \in Vms
    BY DEF PoolInv, Types, Holders, Inside
  <1>3. Holders'
    BY <1>1, <1>2, NoneAssumption DEF PoolInv, Types, Holders, Inside
  <1>4. UsedByOne'
    BY <1>1 DEF PoolInv, Types, UsedByOne, Using, Inside
  <1>5. Holding' = Holding
    BY <1>1 DEF Holding, Hands, Inside
  <1>6. NoneLost'
    BY <1>1, <1>5 DEF PoolInv, NoneLost, Attached, Holding, Hands
  <1>7. ErrorsSettle'
    <2>1. ASSUME NEW v \in errors' \ Attached'
          PROVE  \E u \in Threads : job'[u].vm = v /\ job'[u].pc \in {"publish", "detach", "forget"}
      <3>1. PICK u \in Threads : job[u].vm = v /\ job[u].pc \in {"publish", "detach", "forget"}
        BY DEF PoolInv, ErrorsSettle, Attached
      <3>2. u # t
        BY <3>1 DEF Hands
      <3> QED
        BY <1>1, <3>1, <3>2
    <2> QED
      BY <2>1 DEF ErrorsSettle
  <1>8. HeldAlone'
    BY <1>1, <1>5 DEF PoolInv, HeldAlone, Attached, Holding, Hands, Inside
  <1> QED
    BY <1>3, <1>4, <1>6, <1>7, <1>8 DEF PoolInv

LEMMA Idles == Idle \in Job /\ Idle.pc = "idle" /\ Idle.pc \notin Inside
  BY DEF Idle, Job, Places, Ops, Inside

(* A job that goes on inside its lock with the same handle, which it holds  *)
(* alone, uses or neither as before, leaves the pool sound.                 *)
LEMMA Shifts ==
    ASSUME PoolInv, NEW t \in Threads, NEW p \in Inside, Types',
           job' = [job EXCEPT ![t].pc = p], job[t].pc \in Inside \ {"publish", "detach", "forget"},
           p \in Hands <=> job[t].pc \in Hands,
           p \in {"use", "failed"} => job[t].pc \in {"use", "failed"},
           p \in Bare => job[t].pc \in Bare,
           errors' \subseteq errors \/ (p = "publish" /\ errors' \subseteq errors \cup {job[t].vm}),
           UNCHANGED <<guests, locks, open, at>>
    PROVE  PoolInv'
  <1>1. /\ job'[t].pc = p /\ job'[t].g = job[t].g /\ job'[t].vm = job[t].vm
        /\ \A u \in Threads \ {t} : job'[u] = job[u]
    BY DEF PoolInv, Types, Job
  <1>2. Holders'
    BY <1>1 DEF PoolInv, Holders
  <1>3. UsedByOne'
    BY <1>1 DEF PoolInv, UsedByOne, Using
  <1>4. Holding' = Holding /\ \A u \in Threads : job'[u].g = job[u].g
    BY <1>1 DEF Holding, Hands
  <1>5. NoneLost'
    BY <1>1, <1>4 DEF PoolInv, NoneLost, Attached, Holding
  <1>6. ErrorsSettle'
    <2>1. ASSUME NEW v \in errors' \ Attached'
          PROVE  \E u \in Threads : job'[u].vm = v /\ job'[u].pc \in {"publish", "detach", "forget"}
      <3>1. CASE v \in errors
        <4>1. PICK u \in Threads : job[u].vm = v /\ job[u].pc \in {"publish", "detach", "forget"}
          BY <3>1 DEF PoolInv, ErrorsSettle, Attached
        <4> QED
          BY <1>1, <4>1
      <3>2. CASE v \notin errors
        BY <1>1, <3>2
      <3> QED
        BY <3>1, <3>2
    <2> QED
      BY <2>1 DEF ErrorsSettle
  <1>7. HeldAlone'
    BY <1>1, <1>4 DEF PoolInv, HeldAlone, Attached, Holding, Bare
  <1> QED
    BY <1>2, <1>3, <1>5, <1>6, <1>7 DEF PoolInv

(* Steps that leave the pool alone and move a job outside the locks.        *)
LEMMA Moves ==
    ASSUME PoolInv, NEW t \in Threads, NEW j \in Job,
           job' = [job EXCEPT ![t] = j], Types',
           job[t].pc \notin Inside, j.pc \notin Inside,
           errors' \subseteq errors, UNCHANGED <<guests, locks, open, at>>
    PROVE  PoolInv'
  <1>1. job'[t] = j /\ \A u \in Threads \ {t} : job'[u] = job[u]
    BY DEF PoolInv, Types
  <1>2. Holders'
    BY <1>1 DEF PoolInv, Holders
  <1>3. UsedByOne'
    BY <1>1 DEF PoolInv, UsedByOne, Using, Inside
  <1>4. Holding' = Holding
    BY <1>1 DEF Holding, Inside
  <1>5. NoneLost'
    BY <1>1, <1>4 DEF PoolInv, NoneLost, Attached, Holding, Inside
  <1>6. ErrorsSettle'
    BY <1>1 DEF PoolInv, ErrorsSettle, Attached, Inside
  <1>7. HeldAlone'
    BY <1>1, <1>4 DEF PoolInv, HeldAlone, Attached, Holding, Inside
  <1> QED
    BY <1>2, <1>3, <1>5, <1>6, <1>7 DEF PoolInv

LEMMA InGuest ==
    ASSUME PoolInv, NEW t \in Threads, NEW v \in Vms, NEW o \in Works, Guest(t, v, o)
    PROVE  PoolInv'
  <1> DEFINE j == [pc |-> "want", vm |-> v, g |-> 0, op |-> o]
  <1>1. /\ job' = [job EXCEPT ![t] = j] /\ job[t].pc = "idle"
        /\ UNCHANGED <<pool, libs, store>>
    BY DEF Guest, Idle
  <1>2. j \in Job /\ j.pc = "want" /\ j.vm \in Vms
    BY DEF Job, Places
  <1> HIDE DEF j
  <1>3. Types'
    BY <1>1, <1>2 DEF PoolInv, Types, pool, libs, store
  <1> QED
    BY <1>1, <1>2, <1>3, Moves DEF Inside, pool, libs

(* A job that takes a free lock, to attach or to drop, leaves it sound.     *)
LEMMA Enters ==
    ASSUME PoolInv, NEW t \in Threads, NEW j \in Job, j.vm \in Vms, Free(j.vm), Types',
           job' = [job EXCEPT ![t] = j], locks' = [locks EXCEPT ![j.vm] = t],
           job[t].pc \notin Inside, j.pc \in {"list", "pop"}, j.pc = "list" => j.vm \notin Attached,
           UNCHANGED <<guests, errors, open, at>>
    PROVE  PoolInv'
  <1>1. job'[t] = j /\ \A u \in Threads \ {t} : job'[u] = job[u]
    BY DEF PoolInv, Types
  <1>2. Holders'
    BY <1>1, NoneAssumption DEF PoolInv, Types, Holders, Inside, Free
  <1>3. UsedByOne'
    BY <1>1 DEF PoolInv, UsedByOne, Using
  <1>4. Holding' = Holding
    BY <1>1 DEF Holding, Inside
  <1>5. NoneLost'
    BY <1>1, <1>4 DEF PoolInv, NoneLost, Attached, Holding, Inside
  <1>6. ErrorsSettle'
    BY <1>1 DEF PoolInv, ErrorsSettle, Attached, Inside
  <1>7. HeldAlone'
    BY <1>1, <1>4 DEF PoolInv, HeldAlone, Attached, Holding, Inside
  <1> QED
    BY <1>2, <1>3, <1>5, <1>6, <1>7 DEF PoolInv

LEMMA InWithGuest == ASSUME PoolInv, NEW t \in Threads, WithGuest(t) PROVE PoolInv'
  <1> DEFINE v == job[t].vm
  <1>0. /\ v \in Vms /\ Free(v) /\ job[t].pc = "want"
        /\ locks' = [locks EXCEPT ![v] = t]
        /\ UNCHANGED <<ready, guests, errors, todo, open, profiled, at, boot, known, boots>>
    BY DEF PoolInv, Types, WithGuest, Lock, libs, store
  <1>1. CASE v \in Attached
    <2> DEFINE j == [job[t] EXCEPT !.pc = "use", !.g = guests[v]]
    <2>1. job' = [job EXCEPT ![t] = j]
      BY <1>1 DEF WithGuest, Takes
    <2>2. guests[v] \in Handles /\ guests[v] \in open
      BY <1>0, <1>1 DEF PoolInv, Types, Attached, NoneLost
    <2>3. j \in Job /\ j.pc = "use" /\ j.g = guests[v] /\ j.vm = v
      BY <2>2 DEF PoolInv, Types, Job, Places
    <2> HIDE DEF j
    <2>4. job'[t] = j /\ \A u \in Threads \ {t} : job'[u] = job[u]
      BY <2>1 DEF PoolInv, Types
    <2>5. Types'
      BY <1>0, <2>1, <2>3 DEF PoolInv, Types
    <2>6. Holders'
      BY <1>0, <2>3, <2>4, NoneAssumption DEF PoolInv, Types, Holders, Inside, Free
    <2>7. \A u \in Using : job[u].g # guests[v]
      <3>1. ASSUME NEW u \in Using, job[u].g = guests[v] PROVE FALSE
        <4>1. guests[job[u].vm] = guests[v] /\ job[u].vm \in Vms /\ job[u].pc \in Inside
          BY <3>1 DEF PoolInv, Types, UsedByOne, Using, Inside
        <4>2. job[u].vm = v
          BY <1>0, <1>1, <4>1 DEF PoolInv, NoneLost, Attached
        <4> QED
          BY <1>0, <3>1, <4>1, <4>2, Outsiders DEF Using
      <3> QED
        BY <3>1
    <2>8. UsedByOne'
      <3>1. Using' = Using \cup {t} /\ t \notin Using
        BY <1>0, <2>3, <2>4 DEF Using
      <3>2. \A u \in Using : job'[u] = job[u]
        BY <2>4, <3>1 DEF Using
      <3> QED
        BY <1>0, <2>2, <2>3, <2>4, <2>7, <3>1, <3>2 DEF PoolInv, UsedByOne
    <2>9. Holding' = Holding /\ t \notin Holding
      BY <1>0, <2>3, <2>4 DEF Holding
    <2>10. NoneLost'
      BY <1>0, <2>4, <2>9 DEF PoolInv, NoneLost, Attached, Holding
    <2>11. ErrorsSettle'
      BY <1>0, <2>4 DEF PoolInv, ErrorsSettle, Attached
    <2>12. HeldAlone'
      BY <1>0, <2>3, <2>4, <2>9 DEF PoolInv, HeldAlone, Attached, Holding
    <2> QED
      BY <2>5, <2>6, <2>8, <2>10, <2>11, <2>12 DEF PoolInv
  <1>2. CASE v \notin Attached
    <2> DEFINE j == [job[t] EXCEPT !.pc = "list"]
    <2>1. job' = [job EXCEPT ![t] = j]
      BY <1>2 DEF WithGuest, Goto
    <2>2. j \in Job /\ j.pc = "list" /\ j.vm = v
      BY DEF PoolInv, Types, Job, Places
    <2> HIDE DEF j
    <2>3. Types'
      BY <1>0, <2>1, <2>2 DEF PoolInv, Types
    <2> QED
      BY <1>0, <1>2, <2>1, <2>2, <2>3, Enters DEF Inside
  <1> QED
    BY <1>1, <1>2

LEMMA InListVms == ASSUME PoolInv, NEW t \in Threads, ListVms(t) PROVE PoolInv'
  <1> DEFINE v == job[t].vm
  <1>0. /\ v \in Vms /\ job[t].pc = "list"
        /\ UNCHANGED <<ready, guests, errors, todo, open, profiled, at, boot, known, boots>>
    BY DEF PoolInv, Types, ListVms, libs, store
  <1>1. CASE v \in known
    <2>1. job' = [job EXCEPT ![t].pc = "attach"] /\ locks' = locks
      BY <1>1 DEF ListVms, Goto
    <2>2. Types'
      BY <1>0, <2>1 DEF PoolInv, Types, Job, Places
    <2> QED
      BY <1>0, <2>1, <2>2, Shifts DEF Inside, Hands, Bare
  <1>2. CASE v \notin known
    <2>1. LeaveAs(t, Idle)
      BY <1>2 DEF ListVms, Leave
    <2>2. Types'
      BY <1>0, <2>1, Idles DEF LeaveAs, PoolInv, Types
    <2> QED
      BY <1>0, <2>1, <2>2, Leaves, Idles DEF Inside, Hands
  <1> QED
    BY <1>1, <1>2

LEMMA InAttach == ASSUME PoolInv, NEW t \in Threads, Attach(t) PROVE PoolInv'
  <1> DEFINE v == job[t].vm
  <1>0. /\ v \in Vms /\ job[t].pc = "attach"
        /\ UNCHANGED <<ready, guests, errors, todo, profiled, boot, known, boots>>
    BY DEF PoolInv, Types, Attach, store
  <1>1. CASE Leave(t) /\ UNCHANGED <<open, at>>
    <2>1. Types'
      BY <1>0, <1>1, Idles DEF Leave, LeaveAs, PoolInv, Types
    <2> QED
      BY <1>0, <1>1, <2>1, Leaves, Idles DEF Leave, Inside, Hands
  <1>2. ASSUME boot[v] # 0, locks' = locks, NEW h \in Handles,
               at[h] = 0, at' = [at EXCEPT ![h] = boot[v]],
               open' = open \cup {h}, Takes(t, h, "profile")
        PROVE  PoolInv'
    <2> DEFINE j == [job[t] EXCEPT !.pc = "profile", !.g = h]
    <2>1. job' = [job EXCEPT ![t] = j]
      BY <1>2 DEF Takes
    <2>2. j \in Job /\ j.pc = "profile" /\ j.g = h /\ j.vm = v
      BY DEF PoolInv, Types, Job, Places
    <2> HIDE DEF j
    <2>3. job'[t] = j /\ \A u \in Threads \ {t} : job'[u] = job[u]
      BY <2>1 DEF PoolInv, Types
    <2>4. h \notin open /\ h # 0
      BY <1>2 DEF PoolInv, HeldAlone, Handles
    <2>5. Types'
      <3>1. at' \in [Handles -> Nat] /\ open' \in SUBSET Handles
        BY <1>0, <1>2 DEF PoolInv, Types
      <3> QED
        BY <1>0, <1>2, <2>1, <2>2, <3>1 DEF PoolInv, Types
    <2>6. Holders'
      BY <1>0, <1>2, <2>2, <2>3 DEF PoolInv, Holders, Inside
    <2>7. UsedByOne'
      BY <1>0, <1>2, <2>2, <2>3 DEF PoolInv, UsedByOne, Using
    <2>8. /\ Holding' = Holding \cup {t} /\ t \notin Holding
          /\ \A u \in Holding : job'[u] = job[u]
      BY <1>0, <2>2, <2>3 DEF Holding
    <2>9. NoneLost'
      <3>1. ASSUME NEW i \in open'
            PROVE  (\E w \in Vms : guests'[w] = i) \/ \E u \in Holding' : job'[u].g = i
        <4>1. CASE i = h
          BY <2>2, <2>3, <2>8, <4>1
        <4>2. CASE i \in open
          <5>1. \A u \in Holding : u \in Holding' /\ job'[u] = job[u]
            BY <2>8
          <5> QED
            BY <1>0, <4>2, <5>1 DEF PoolInv, NoneLost
        <4> QED
          BY <1>2, <4>1, <4>2
      <3> QED
        BY <1>0, <1>2, <3>1 DEF PoolInv, NoneLost, Attached
    <2>10. ErrorsSettle'
      BY <1>0, <2>3 DEF PoolInv, ErrorsSettle, Attached
    <2>11. HeldAlone'
      <3>1. \A w \in Vms : guests[w] # h
        BY <2>4 DEF PoolInv, NoneLost, Attached
      <3>2. \A u \in Holding : job[u].g # h
        BY <2>4 DEF PoolInv, HeldAlone
      <3>3. \A i \in open' : at'[i] # 0
        BY <1>2 DEF PoolInv, Types, HeldAlone
      <3>4. v \notin Attached
        BY <1>0 DEF PoolInv, HeldAlone
      <3>5. ASSUME NEW u \in Holding'
            PROVE  /\ job'[u].g \in open' /\ \A w \in Vms : guests'[w] # job'[u].g
                   /\ \A x \in Holding' \ {u} : job'[x].g # job'[u].g
        <4>1. CASE u = t
          BY <1>0, <1>2, <2>2, <2>3, <2>8, <3>1, <3>2, <4>1
        <4>2. CASE u \in Holding
          <5>1. job'[u] = job[u] /\ job[u].g \in open /\ \A w \in Vms : guests[w] # job[u].g
            BY <2>8, <4>2 DEF PoolInv, HeldAlone
          <5>2. \A x \in Holding \ {u} : job'[x].g # job[u].g
            BY <2>8, <4>2 DEF PoolInv, HeldAlone
          <5>3. job'[t].g # job[u].g
            BY <2>2, <2>3, <3>2, <4>2
          <5> QED
            BY <1>0, <1>2, <2>8, <5>1, <5>2, <5>3
        <4> QED
          BY <2>8, <4>1, <4>2
      <3>6. \A u \in Threads : job'[u].pc \in Bare => job'[u].vm \notin Attached'
        BY <1>0, <2>2, <2>3, <3>4 DEF PoolInv, HeldAlone, Attached, Bare
      <3> QED
        BY <3>3, <3>5, <3>6 DEF HeldAlone, Bare
    <2> QED
      BY <2>5, <2>6, <2>7, <2>9, <2>10, <2>11 DEF PoolInv
  <1> QED
    BY <1>1, <1>2 DEF Attach

LEMMA InLoadProfile == ASSUME PoolInv, NEW t \in Threads, LoadProfile(t) PROVE PoolInv'
  <1> DEFINE v == job[t].vm
             h == job[t].g
  <1>1. /\ v \in Vms /\ job[t].pc = "profile"
        /\ job' = [job EXCEPT ![t].pc = "publish"]
        /\ UNCHANGED <<ready, guests, locks, todo, open, at, boot, known, boots>>
    BY DEF PoolInv, Types, LoadProfile, Goto, store
  <1>2. h \in Handles
    BY <1>1 DEF PoolInv, Types, HeldAlone, Holding
  <1>3. /\ errors' \subseteq errors \cup {v}
        /\ profiled' \in SUBSET Handles
    BY <1>2 DEF PoolInv, Types, LoadProfile, Recorded
  <1>4. Types'
    <2>1. job' \in [Threads -> Job] /\ job'[t].vm = v /\ \A u \in Threads \ {t} : job'[u] = job[u]
      BY <1>1 DEF PoolInv, Types, Job, Places
    <2>2. errors' \in SUBSET Vms
      BY <1>1, <1>3 DEF PoolInv, Types
    <2> QED
      BY <1>1, <1>3, <2>1, <2>2 DEF PoolInv, Types
  <1> QED
    BY <1>1, <1>3, <1>4, Shifts DEF Inside, Hands, Bare

LEMMA InPublish == ASSUME PoolInv, NEW t \in Threads, Publish(t) PROVE PoolInv'
  <1> DEFINE v == job[t].vm
             h == job[t].g
  <1>0. /\ v \in Vms /\ job[t].pc = "publish" /\ t \in Holding
        /\ guests' = [guests EXCEPT ![v] = h]
        /\ job' = [job EXCEPT ![t].pc = "use"]
        /\ UNCHANGED <<ready, locks, errors, todo, open, profiled, at, boot, known, boots>>
    BY DEF PoolInv, Types, Publish, Goto, Holding, libs, store
  <1>1. /\ h \in open /\ h \in Handles /\ v \notin Attached /\ h # 0
        /\ \A w \in Vms : guests[w] # h
        /\ \A u \in Holding \ {t} : job[u].g # h
    BY <1>0 DEF PoolInv, Types, HeldAlone, Handles
  <1>2. /\ job'[t].pc = "use" /\ job'[t].g = h /\ job'[t].vm = v
        /\ \A u \in Threads \ {t} : job'[u] = job[u]
    BY <1>0 DEF PoolInv, Types, Job
  <1>3. /\ guests'[v] = h /\ \A w \in Vms \ {v} : guests'[w] = guests[w]
        /\ Attached' = Attached \cup {v}
    BY <1>0, <1>1 DEF PoolInv, Types, Attached
  <1>4. Types'
    BY <1>0, <1>1 DEF PoolInv, Types, Job, Places
  <1>5. Holders'
    BY <1>0, <1>2 DEF PoolInv, Holders, Inside
  <1>6. UsedByOne'
    <2>1. Using' = Using \cup {t} /\ t \notin Using
      BY <1>0, <1>2 DEF Using
    <2>2. \A u \in Using : job[u].vm \in Vms /\ job[u].vm # v
      BY <1>0, Alone DEF Using, Inside, PoolInv, Types
    <2>3. \A u \in Using : job[u].g # h
      BY <1>1, <2>2 DEF PoolInv, UsedByOne
    <2> QED
      BY <1>0, <1>1, <1>2, <1>3, <2>1, <2>2, <2>3 DEF PoolInv, UsedByOne
  <1>7. Holding' = Holding \ {t}
    BY <1>2 DEF Holding
  <1>8. NoneLost'
    <2>1. ASSUME NEW i \in open'
          PROVE  (\E w \in Vms : guests'[w] = i) \/ \E u \in Holding' : job'[u].g = i
      <3>1. CASE i = h
        BY <1>0, <1>3, <3>1
      <3>2. CASE i # h /\ \E w \in Vms : guests[w] = i
        <4>1. PICK w \in Vms : guests[w] = i
          BY <3>2
        <4>2. w # v
          <5>1. i # 0
            BY <1>0, <2>1 DEF PoolInv, Types, Handles
          <5> QED
            BY <1>1, <4>1, <5>1 DEF Attached
        <4> QED
          BY <1>3, <4>1, <4>2
      <3>3. CASE i # h /\ \E u \in Holding : job[u].g = i
        <4>1. PICK u \in Holding : job[u].g = i
          BY <3>3
        <4>2. u \in Holding' /\ job'[u] = job[u]
          BY <1>2, <1>7, <3>3, <4>1 DEF Holding
        <4> QED
          BY <4>1, <4>2
      <3> QED
        BY <1>0, <2>1, <3>1, <3>2, <3>3 DEF PoolInv, NoneLost
    <2>2. \A w \in Attached' : guests'[w] \in open'
      BY <1>0, <1>1, <1>3 DEF PoolInv, NoneLost, Attached
    <2>3. \A w, x \in Attached' : guests'[w] = guests'[x] => w = x
      BY <1>1, <1>3 DEF PoolInv, NoneLost, Attached
    <2> QED
      BY <2>1, <2>2, <2>3 DEF NoneLost
  <1>9. ErrorsSettle'
    BY <1>0, <1>2, <1>3 DEF PoolInv, ErrorsSettle
  <1>10. HeldAlone'
    <2>1. ASSUME NEW u \in Threads, job'[u].pc \in Bare
          PROVE  job[u] = job'[u] /\ u # t /\ job[u].vm \in Vms /\ job[u].vm # v
      <3>1. u # t /\ job[u] = job'[u]
        BY <1>2, <2>1 DEF Bare
      <3> QED
        BY <1>0, <2>1, <3>1, Alone DEF Bare, Inside, PoolInv, Types
    <2>2. \A u \in Threads : job'[u].pc \in Bare => job'[u].vm \notin Attached'
      BY <1>3, <2>1 DEF PoolInv, HeldAlone, Bare
    <2>3. \A u \in Holding' : u \in Holding /\ u # t /\ job'[u] = job[u]
      BY <1>2, <1>7 DEF Holding
    <2>4. \A u \in Holding' : \A w \in Vms : guests'[w] # job'[u].g
      BY <1>1, <1>3, <2>3 DEF PoolInv, HeldAlone
    <2>5. \A u \in Holding' : job'[u].g \in open' /\ \A x \in Holding' \ {u} : job'[x].g # job'[u].g
      BY <1>0, <2>3 DEF PoolInv, HeldAlone
    <2> QED
      BY <1>0, <2>2, <2>4, <2>5 DEF PoolInv, HeldAlone, Bare
  <1> QED
    BY <1>4, <1>5, <1>6, <1>8, <1>9, <1>10 DEF PoolInv

LEMMA InUse == ASSUME PoolInv, NEW t \in Threads, Use(t) PROVE PoolInv'
  <1>0. /\ job[t].pc = "use" /\ job[t].vm \in Vms /\ job[t] \in Job
        /\ UNCHANGED <<ready, guests, errors, todo, open, at, boot, known, boots>>
    BY DEF PoolInv, Types, Use, store
  <1>1. job[t].g \in Handles
    BY <1>0 DEF PoolInv, Types, UsedByOne, Using
  <1>2. CASE Worked(t)
    <2>1. PICK j \in Job : LeaveAs(t, j) /\ (j = Idle \/ (j.pc = "clear" /\ j.vm \in Vms))
      <3> DEFINE c == [job[t] EXCEPT !.pc = "clear", !.g = 0]
      <3>1. c \in Job /\ c.pc = "clear" /\ c.vm \in Vms
        BY <1>0 DEF Job, Places
      <3> QED
        BY <1>2, <3>1, Idles DEF Worked, Leave
    <2>2. j.pc \notin Inside
      BY <2>1, Idles DEF Inside
    <2>3. profiled' \in SUBSET Handles
      BY <1>1, <1>2 DEF PoolInv, Types, Worked
    <2>4. Types'
      BY <1>0, <2>1, <2>3, Idles DEF LeaveAs, PoolInv, Types
    <2> QED
      BY <1>0, <2>1, <2>2, <2>4, Leaves DEF Inside, Hands
  <1>3. CASE Broke(t)
    <2>1. job' = [job EXCEPT ![t].pc = "failed"] /\ locks' = locks
      BY <1>3 DEF Broke, Goto
    <2>2. profiled' \in SUBSET Handles
      BY <1>3 DEF PoolInv, Types, Broke
    <2>3. Types'
      BY <1>0, <2>1, <2>2 DEF PoolInv, Types, Job, Places
    <2> QED
      BY <1>0, <2>1, <2>3, Shifts DEF Inside, Hands, Bare
  <1> QED
    BY <1>2, <1>3 DEF Use

LEMMA InFailed == ASSUME PoolInv, NEW t \in Threads, Failed(t) PROVE PoolInv'
  <1>0. /\ job[t].pc = "failed" /\ job[t].vm \in Vms
        /\ UNCHANGED <<ready, guests, errors, todo, open, profiled, at, boot, known, boots>>
    BY DEF PoolInv, Types, Failed, libs, store
  <1>1. CASE boot[job[t].vm] # 0
    <2>1. LeaveAs(t, Idle)
      BY <1>1 DEF Failed, Leave
    <2>2. Types'
      BY <1>0, <2>1, Idles DEF LeaveAs, PoolInv, Types
    <2> QED
      BY <1>0, <2>1, <2>2, Leaves, Idles DEF Inside, Hands
  <1>2. CASE boot[job[t].vm] = 0
    <2>1. job' = [job EXCEPT ![t].pc = "pop"] /\ locks' = locks
      BY <1>2 DEF Failed, Goto
    <2>2. Types'
      BY <1>0, <2>1 DEF PoolInv, Types, Job, Places
    <2> QED
      BY <1>0, <2>1, <2>2, Shifts DEF Inside, Hands, Bare
  <1> QED
    BY <1>1, <1>2

LEMMA InClear == ASSUME PoolInv, NEW t \in Threads, Clear(t) PROVE PoolInv'
  <1>1. /\ job[t].pc = "clear" /\ job' = [job EXCEPT ![t] = Idle]
        /\ errors' \subseteq errors
        /\ UNCHANGED <<ready, guests, locks, todo, open, profiled, at, boot, known, boots>>
    BY DEF Clear, libs, store
  <1>2. Types'
    BY <1>1, Idles DEF PoolInv, Types
  <1> QED
    BY <1>1, <1>2, Moves, Idles DEF Inside

(* The handle leaves the pool into the job's hands: nobody else had it.     *)
LEMMA InPop == ASSUME PoolInv, NEW t \in Threads, Pop(t) PROVE PoolInv'
  <1> DEFINE v == job[t].vm
             h == guests[v]
             j == [job[t] EXCEPT !.pc = IF v \in Attached THEN "detach" ELSE "forget", !.g = h]
  <1>0. /\ v \in Vms /\ job[t].pc = "pop"
        /\ guests' = [guests EXCEPT ![v] = 0]
        /\ job' = [job EXCEPT ![t] = j]
        /\ UNCHANGED <<ready, locks, errors, todo, open, profiled, at, boot, known, boots>>
    BY DEF PoolInv, Types, Pop, Takes, libs, store
  <1>1. h \in Handles \cup {0} /\ (v \in Attached <=> h # 0)
    BY <1>0 DEF PoolInv, Types, Attached
  <1>2. /\ j \in Job /\ j.g = h /\ j.vm = v
        /\ j.pc \in {"detach", "forget"} /\ (j.pc = "detach" <=> v \in Attached)
    BY <1>1 DEF PoolInv, Types, Job, Places
  <1> HIDE DEF j
  <1>3. job'[t] = j /\ \A u \in Threads \ {t} : job'[u] = job[u]
    BY <1>0 DEF PoolInv, Types
  <1>4. /\ guests'[v] = 0 /\ \A w \in Vms \ {v} : guests'[w] = guests[w]
        /\ Attached' = Attached \ {v}
    BY <1>0 DEF PoolInv, Types, Attached
  <1>5. Types'
    BY <1>0, <1>2 DEF PoolInv, Types
  <1>6. Holders'
    BY <1>0, <1>2, <1>3 DEF PoolInv, Holders, Inside
  <1>7. UsedByOne'
    <2>1. Using' = Using /\ t \notin Using
      BY <1>0, <1>2, <1>3 DEF Using
    <2>2. \A u \in Using : job'[u] = job[u] /\ job[u].vm \in Vms \ {v}
      BY <1>0, <1>3, <2>1, Alone DEF Using, Inside, PoolInv, Types
    <2> QED
      BY <1>0, <1>4, <2>1, <2>2 DEF PoolInv, UsedByOne
  <1>8. t \notin Holding /\ Holding' = IF v \in Attached THEN Holding \cup {t} ELSE Holding
    BY <1>0, <1>2, <1>3 DEF Holding
  <1>9. NoneLost'
    <2>1. ASSUME NEW i \in open'
          PROVE  (\E w \in Vms : guests'[w] = i) \/ \E u \in Holding' : job'[u].g = i
      <3>0. i \in open /\ i # 0
        BY <1>0 DEF PoolInv, Types, Handles
      <3>1. CASE i = h
        BY <1>1, <1>2, <1>3, <1>8, <3>0, <3>1
      <3>2. CASE i # h /\ \E w \in Vms : guests[w] = i
        BY <1>4, <3>2
      <3>3. CASE \E u \in Holding : job[u].g = i
        <4>1. PICK u \in Holding : job[u].g = i
          BY <3>3
        <4>2. u \in Holding' /\ job'[u] = job[u]
          BY <1>3, <1>8, <4>1 DEF Holding
        <4> QED
          BY <4>1, <4>2
      <3> QED
        BY <3>0, <3>1, <3>2, <3>3 DEF PoolInv, NoneLost
    <2>2. \A w \in Attached' : w \in Attached /\ guests'[w] = guests[w]
      BY <1>4 DEF Attached
    <2> QED
      BY <1>0, <2>1, <2>2 DEF PoolInv, NoneLost
  <1>10. ErrorsSettle'
    <2>1. ASSUME NEW w \in errors' \ Attached'
          PROVE  \E u \in Threads : job'[u].vm = w /\ job'[u].pc \in {"publish", "detach", "forget"}
      <3>1. CASE w = v
        BY <1>2, <1>3, <3>1
      <3>2. CASE w # v
        <4>1. w \in errors \ Attached
          BY <1>0, <1>4, <2>1, <3>2
        <4>2. PICK u \in Threads : job[u].vm = w /\ job[u].pc \in {"publish", "detach", "forget"}
          BY <4>1 DEF PoolInv, ErrorsSettle
        <4> QED
          BY <1>0, <1>3, <4>2
      <3> QED
        BY <3>1, <3>2
    <2> QED
      BY <2>1 DEF ErrorsSettle
  <1>11. HeldAlone'
    <2>1. v \in Attached => /\ h \in open /\ \A w \in Vms : guests'[w] # h
                            /\ \A u \in Holding : job[u].g # h
      <3> SUFFICES ASSUME v \in Attached PROVE /\ h \in open /\ \A w \in Vms : guests'[w] # h
                                               /\ \A u \in Holding : job[u].g # h
        OBVIOUS
      <3>1. h \in open /\ \A w \in Vms \ {v} : guests[w] # h
        BY <1>0, <1>1 DEF PoolInv, NoneLost, Attached
      <3>2. \A u \in Holding : job[u].g # h
        BY <1>0 DEF PoolInv, HeldAlone
      <3> QED
        BY <1>1, <1>4, <3>1, <3>2
    <2>2. \A u \in Holding : /\ job'[u] = job[u] /\ job[u].g \in open
                              /\ \A w \in Vms : guests'[w] # job[u].g
      <3>1. \A u \in Holding : job'[u] = job[u]
        BY <1>3, <1>8 DEF Holding
      <3>2. \A u \in Holding : job[u].g \in open /\ \A w \in Vms : guests[w] # job[u].g
        BY DEF PoolInv, HeldAlone
      <3>3. 0 \notin open
        BY DEF PoolInv, Types, Handles
      <3> QED
        BY <1>4, <3>1, <3>2, <3>3
    <2>3. /\ \A u \in Holding' : job'[u].g \in open' /\ \A w \in Vms : guests'[w] # job'[u].g
          /\ \A u \in Holding' : \A x \in Holding' \ {u} : job'[x].g # job'[u].g
      BY <1>0, <1>2, <1>3, <1>8, <2>1, <2>2 DEF PoolInv, HeldAlone
    <2>4. \A u \in Threads : job'[u].pc \in Bare => job'[u].vm \notin Attached'
      BY <1>2, <1>3, <1>4 DEF PoolInv, HeldAlone, Bare
    <2> QED
      BY <1>0, <2>3, <2>4 DEF PoolInv, HeldAlone, Bare
  <1> QED
    BY <1>5, <1>6, <1>7, <1>9, <1>10, <1>11 DEF PoolInv

LEMMA InDetach == ASSUME PoolInv, NEW t \in Threads, Detach(t) PROVE PoolInv'
  <1> DEFINE h == job[t].g
             j == [job[t] EXCEPT !.pc = "forget", !.g = 0]
  <1>0. /\ job[t].vm \in Vms /\ job[t].pc = "detach" /\ t \in Holding
        /\ open' = open \ {h} /\ profiled' = profiled \ {h}
        /\ job' = [job EXCEPT ![t] = j]
        /\ UNCHANGED <<ready, guests, locks, errors, todo, at, boot, known, boots>>
    BY DEF PoolInv, Types, Detach, Detached, Takes, Holding, pool, store
  <1>1. j \in Job /\ j.pc = "forget" /\ j.vm = job[t].vm
    BY DEF PoolInv, Types, Job, Places
  <1> HIDE DEF j
  <1>2. job'[t] = j /\ \A u \in Threads \ {t} : job'[u] = job[u]
    BY <1>0 DEF PoolInv, Types
  <1>3. /\ \A v \in Vms : guests[v] # h
        /\ \A u \in Holding \ {t} : job[u].g # h
    BY <1>0 DEF PoolInv, HeldAlone
  <1>4. Types'
    BY <1>0, <1>1 DEF PoolInv, Types
  <1>5. Holders'
    BY <1>0, <1>1, <1>2 DEF PoolInv, Holders, Inside
  <1>6. UsedByOne'
    <2>1. Using' = Using /\ t \notin Using
      BY <1>0, <1>1, <1>2 DEF Using
    <2>2. \A u \in Using : job'[u] = job[u] /\ job[u].g # h
      BY <1>2, <1>3, <2>1 DEF PoolInv, Types, UsedByOne, Using
    <2> QED
      BY <1>0, <2>1, <2>2 DEF PoolInv, UsedByOne
  <1>7. Holding' = Holding \ {t} /\ \A u \in Holding \ {t} : job'[u] = job[u]
    BY <1>1, <1>2 DEF Holding
  <1>8. NoneLost'
    <2>1. ASSUME NEW i \in open'
          PROVE  (\E w \in Vms : guests'[w] = i) \/ \E u \in Holding' : job'[u].g = i
      BY <1>0, <1>7 DEF PoolInv, NoneLost
    <2>2. \A v \in Attached' : guests'[v] \in open'
      BY <1>0, <1>3 DEF PoolInv, NoneLost, Attached
    <2> QED
      BY <1>0, <2>1, <2>2 DEF PoolInv, NoneLost, Attached
  <1>9. ErrorsSettle'
    BY <1>0, <1>1, <1>2 DEF PoolInv, ErrorsSettle, Attached
  <1>10. HeldAlone'
    <2>1. \A u \in Holding' : /\ job'[u].g \in open' /\ \A w \in Vms : guests'[w] # job'[u].g
                               /\ \A x \in Holding' \ {u} : job'[x].g # job'[u].g
      BY <1>0, <1>3, <1>7 DEF PoolInv, HeldAlone
    <2>2. \A u \in Threads : job'[u].pc \in Bare => job'[u].vm \notin Attached'
      BY <1>0, <1>1, <1>2 DEF PoolInv, HeldAlone, Attached, Bare
    <2> QED
      BY <1>0, <2>1, <2>2 DEF PoolInv, HeldAlone, Bare
  <1> QED
    BY <1>4, <1>5, <1>6, <1>8, <1>9, <1>10 DEF PoolInv

LEMMA InForget == ASSUME PoolInv, NEW t \in Threads, Forget(t) PROVE PoolInv'
  <1> DEFINE j == After(job[t])
  <1>0. /\ job[t].pc = "forget" /\ job[t].vm \in Vms /\ job[t] \in Job
        /\ LeaveAs(t, j) /\ errors' = errors \ {job[t].vm}
        /\ UNCHANGED <<ready, guests, todo, open, profiled, at, boot, known, boots>>
    BY DEF PoolInv, Types, Forget, ErrorDropped, libs, store
  <1>1. j \in Job /\ j.pc \notin Inside /\ (j.pc \in {"idle", "close"} \/ j.vm \in Vms)
    <2>1. CASE job[t].op \in Ops
      <3>1. j = [job[t] EXCEPT !.pc = "call"]
        BY <2>1 DEF After, Ops
      <3>2. [job[t] EXCEPT !.pc = "call"] \in Job
        BY <1>0 DEF Job, Places
      <3>3. [job[t] EXCEPT !.pc = "call"].pc = "call" /\ [job[t] EXCEPT !.pc = "call"].vm = job[t].vm
        BY <1>0 DEF Job
      <3> QED
        BY <1>0, <3>1, <3>2, <3>3 DEF Inside
    <2>2. CASE job[t].op = "close"
      <3> DEFINE c == [job[t] EXCEPT !.pc = "close", !.vm = None]
      <3>1. j = c
        BY <2>2 DEF After, Ops
      <3>2. c \in Job /\ c.pc = "close"
        BY <1>0 DEF Job, Places
      <3> HIDE DEF c, j
      <3> QED
        BY <3>1, <3>2 DEF Inside
    <2>3. CASE job[t].op \notin Ops /\ job[t].op # "close"
      <3>1. j = Idle
        BY <2>3 DEF After
      <3> QED
        BY <3>1, Idles
    <2> QED
      BY <2>1, <2>2, <2>3
  <1> HIDE DEF j
  <1>2. Types'
    BY <1>0, <1>1 DEF LeaveAs, PoolInv, Types
  <1> QED
    BY <1>0, <1>1, <1>2, Leaves DEF Inside, Hands

LEMMA InLifecycle ==
    ASSUME PoolInv, NEW t \in Threads, NEW v \in Vms, NEW o \in Ops, Lifecycle(t, v, o)
    PROVE  PoolInv'
  <1> DEFINE j == [pc |-> "drop", vm |-> v, g |-> 0, op |-> o]
  <1>1. /\ job' = [job EXCEPT ![t] = j] /\ job[t].pc = "idle"
        /\ UNCHANGED <<pool, libs, store>>
    BY DEF Lifecycle, Idle
  <1>2. j \in Job /\ j.pc = "drop" /\ j.vm \in Vms
    BY DEF Job, Places
  <1> HIDE DEF j
  <1>3. Types'
    BY <1>1, <1>2 DEF PoolInv, Types, pool, libs, store
  <1> QED
    BY <1>1, <1>2, <1>3, Moves DEF Inside, pool, libs

LEMMA InDrop == ASSUME PoolInv, NEW t \in Threads, Drop(t) PROVE PoolInv'
  <1> DEFINE j == [job[t] EXCEPT !.pc = "pop"]
  <1>1. /\ job[t].vm \in Vms /\ Free(job[t].vm) /\ job[t].pc = "drop"
        /\ job' = [job EXCEPT ![t] = j] /\ locks' = [locks EXCEPT ![job[t].vm] = t]
        /\ UNCHANGED <<ready, guests, errors, todo, open, profiled, at, boot, known, boots>>
    BY DEF PoolInv, Types, Drop, Lock, Goto, libs, store
  <1>2. j \in Job /\ j.pc = "pop" /\ j.vm = job[t].vm
    BY DEF PoolInv, Types, Job, Places
  <1> HIDE DEF j
  <1>3. Types'
    BY <1>1, <1>2 DEF PoolInv, Types
  <1> QED
    BY <1>1, <1>2, <1>3, Enters DEF Inside

LEMMA StoreTypes ==
    ASSUME PoolInv, NEW v \in Vms, NEW o, Does(o, v) \/ Halts(v) \/ Boots(v) \/ UNCHANGED store
    PROVE  boot' \in [Vms -> Nat] /\ boots' \in Nat /\ known' \in SUBSET Vms
  BY DEF PoolInv, Types, Does, Halts, Boots, store

LEMMA InCall == ASSUME PoolInv, NEW t \in Threads, Call(t) PROVE PoolInv'
  <1>1. /\ job' = [job EXCEPT ![t] = Idle] /\ job[t].pc = "call" /\ job[t].vm \in Vms
        /\ UNCHANGED <<pool, libs>>
    BY DEF PoolInv, Types, Call
  <1>3. boot' \in [Vms -> Nat] /\ boots' \in Nat /\ known' \in SUBSET Vms
    BY <1>1, StoreTypes DEF Call
  <1>4. Types'
    BY <1>1, <1>3, Idles DEF PoolInv, Types, pool, libs
  <1> QED
    BY <1>1, <1>4, Idles, Moves DEF Inside, pool, libs

LEMMA InOutside == ASSUME PoolInv, Outside PROVE PoolInv'
  <1>1. UNCHANGED <<pool, job, libs>>
    BY DEF Outside
  <1>2. boot' \in [Vms -> Nat] /\ boots' \in Nat /\ known' \in SUBSET Vms
    BY StoreTypes DEF Outside
  <1>3. Types' /\ Holders' /\ UsedByOne'
    BY <1>1, <1>2 DEF PoolInv, Types, Holders, UsedByOne, Using, pool, libs
  <1>4. NoneLost' /\ ErrorsSettle' /\ HeldAlone'
    BY <1>1 DEF PoolInv, NoneLost, ErrorsSettle, HeldAlone, Holding, Attached, pool, libs
  <1> QED
    BY <1>3, <1>4 DEF PoolInv

LEMMA InStart == ASSUME PoolInv, Start PROVE PoolInv'
  <1>1. ready' = TRUE /\ UNCHANGED <<guests, locks, errors, todo, job, open, profiled, at, boot, known, boots>>
    BY DEF Start, libs, store
  <1>2. Types' /\ Holders' /\ UsedByOne'
    BY <1>1 DEF PoolInv, Types, Holders, UsedByOne, Using
  <1>3. NoneLost' /\ ErrorsSettle' /\ HeldAlone'
    BY <1>1 DEF PoolInv, NoneLost, ErrorsSettle, HeldAlone, Holding, Attached
  <1> QED
    BY <1>2, <1>3 DEF PoolInv

LEMMA InClose == ASSUME PoolInv, NEW t \in Threads, Close(t) PROVE PoolInv'
  <1> DEFINE j == [Idle EXCEPT !.pc = "close", !.op = "close"]
  <1>1. /\ job' = [job EXCEPT ![t] = j] /\ job[t].pc = "idle" /\ todo' = Attached
        /\ UNCHANGED <<ready, guests, locks, errors, open, profiled, at, boot, known, boots>>
    BY Idles DEF Close, libs, store
  <1>2. j \in Job /\ j.pc = "close"
    BY DEF Idle, Job, Places
  <1> HIDE DEF j
  <1>3. Types'
    BY <1>1, <1>2 DEF PoolInv, Types, Attached
  <1> QED
    BY <1>1, <1>2, <1>3, Moves DEF Inside

LEMMA InCloseAll == ASSUME PoolInv, NEW t \in Threads, CloseAll(t) PROVE PoolInv'
  <1>0. /\ job[t].pc = "close"
        /\ UNCHANGED <<guests, errors, open, profiled, at, boot, known, boots>>
    BY DEF CloseAll, libs, store
  <1>1. CASE ready' = FALSE /\ job' = [job EXCEPT ![t] = Idle] /\ UNCHANGED <<locks, todo>>
    <2>1. Types'
      BY <1>0, <1>1, Idles DEF PoolInv, Types
    <2> QED
      BY <1>0, <1>1, <2>1, Idles, Moves DEF Inside
  <1>2. ASSUME NEW v \in todo, Lock(v, t), todo' = todo \ {v},
               job' = [job EXCEPT ![t].pc = "pop", ![t].vm = v], ready' = ready
        PROVE  PoolInv'
    <2> DEFINE j == [job[t] EXCEPT !.pc = "pop", !.vm = v]
    <2>1. /\ job' = [job EXCEPT ![t] = j] /\ v \in Vms
          /\ Free(v) /\ locks' = [locks EXCEPT ![v] = t]
      BY <1>2 DEF PoolInv, Types, Lock
    <2>2. j \in Job /\ j.pc = "pop" /\ j.vm = v
      BY <2>1 DEF PoolInv, Types, Job, Places
    <2> HIDE DEF j
    <2>3. Types'
      BY <1>0, <1>2, <2>1, <2>2 DEF PoolInv, Types
    <2> QED
      BY <1>0, <2>1, <2>2, <2>3, Enters DEF Inside
  <1> QED
    BY <1>1, <1>2 DEF CloseAll

LEMMA PoolStep == PoolInv /\ [Next]_vars => PoolInv'
  <1> SUFFICES ASSUME PoolInv, [Next]_vars PROVE PoolInv'
    OBVIOUS
  <1>1. CASE UNCHANGED vars
    BY <1>1 DEF PoolInv, Types, Holders, UsedByOne, Using, NoneLost, ErrorsSettle, HeldAlone,
        Holding, Attached, vars, pool, libs, store
  <1>2. ASSUME NEW t \in Threads, Request(t) PROVE PoolInv'
    BY <1>2, InGuest, InLifecycle, InClose DEF Request
  <1>3. ASSUME NEW t \in Threads, Step(t) PROVE PoolInv'
    BY <1>3, InWithGuest, InListVms, InAttach, InLoadProfile, InPublish, InUse, InFailed, InClear,
       InDrop, InPop, InDetach, InForget, InCall, InCloseAll
    DEF Step
  <1> QED
    BY <1>1, <1>2, <1>3, InStart, InOutside DEF Next

LEMMA PoolAlways == Spec => []PoolInv
  BY PoolInit, PoolStep, PTL DEF Spec

-----------------------------------------------------------------------------
(* Locks are held by exactly the jobs inside them, and all else is typed.   *)
THEOREM TypeCorrect == Spec => []TypeOK
  <1>1. PoolInv => TypeOK
    BY Halves DEF PoolInv
  <1> QED
    BY <1>1, PoolAlways, PTL

(* No job uses a handle that is detached, or that another job uses.         *)
THEOREM Exclusive == Spec => []UsedByOne
  BY PoolAlways, PTL DEF PoolInv

(* No attached handle is ever lost.                                         *)
THEOREM Kept == Spec => []NoneLost
  BY PoolAlways, PTL DEF PoolInv

(* Profile errors outlive or precede their guest's handle only while a job  *)
(* is between the two statements that should change both.                   *)
THEOREM ErrorsSettled == Spec => []ErrorsSettle
  BY PoolAlways, PTL DEF PoolInv
=============================================================================
