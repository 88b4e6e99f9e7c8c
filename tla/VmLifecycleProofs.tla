-------------------------- MODULE VmLifecycleProofs --------------------------
(***************************************************************************)
(* Proofs about the life of a VM, for any number of callers and processes:  *)
(* a guest that runs is recorded, who says it stopped is right, and it boots *)
(* as it was created, with the exceptions that the properties name.          *)
(***************************************************************************)
EXTENDS VmLifecycle, TLAPS

(* No start was cut short, and no calls overlapped since the last one. *)
Settled == amiss \cap {"start", "overlap"} = {}
(* No create or destroy was left half done. *)
Whole   == amiss \cap {"create", "destroy"} = {}

(* What the histories of overlapping calls mean. *)
AloneIsAlone ==
    \A c \in Callers : Busy(c) /\ call[c].alone => \A o \in Callers \ {c} : ~Busy(o)
OneAtATime ==
    "overlap" \notin amiss => \A c, o \in Callers : Busy(c) /\ Busy(o) => c = o

(* Whoever looked at the state file while a guest runs saw that guest, and  *)
(* whoever is about to change the files believes, rightly, that none does.   *)
Seen == Settled /\ Runs => \A c \in Callers :
    /\ call[c].at \in {"check", "term", "wait", "record"} => call[c].pid = domain
    /\ call[c].at \notin {"saveconfig", "created", "stopped", "empty", "remove"}

(* A directory has its configuration, but while one is written or removed. *)
Configured ==
    dir /\ Whole => \/ "config" \in files
                    \/ \E c \in Callers : At(c, "saveconfig") \/ At(c, "remove")

(* A start that nobody disturbed found its directory and its configuration. *)
Undisturbed == \A c \in Callers : call[c].alone =>
    /\ At(c, "config") => dir
    /\ call[c].op = "start" /\ call[c].at \in {"load", "check"} => call[c].cfg \/ ~Whole
    /\ At(c, "spawn") => call[c].cfg \/ ~Whole

-----------------------------------------------------------------------------
LEMMA InitTypes == Init => TypeOK
  <1> SUFFICES ASSUME Init PROVE TypeOK
    OBVIOUS
  <1>1. Idle \in Call
    BY DEF Idle, Call, Ops, Steps
  <1>2. \A p \in Pids : proc[p] \in {"free", "other"}
    BY DEF Init
  <1>3. proc \in [Pids -> {"free", "qemu", "other", "dying"}]
    BY DEF Init
  <1> QED
    BY <1>1, <1>2, <1>3 DEF Init, TypeOK

(* A call that goes on stays a call. *)
LEMMA Moves ==
    ASSUME TypeOK, NEW c \in Callers
    PROVE  /\ \A s \in Steps : Go(c, s) => call' \in [Callers -> Call]
           /\ Return(c) => call' \in [Callers -> Call]
           /\ StopReturns(c) => call' \in [Callers -> Call]
  <1>1. Idle \in Call
    BY DEF Idle, Call, Ops, Steps
  <1> QED
    BY <1>1 DEF TypeOK, Go, Return, StopReturns, Call, Ops, Steps

LEMMA NextTypes == TypeOK /\ [Next]_vars => TypeOK'
  <1> SUFFICES ASSUME TypeOK, [Next]_vars PROVE TypeOK'
    OBVIOUS
  <1> USE NoneAssumption
  <1>1. ASSUME NEW c \in Callers, Calls(c) PROVE TypeOK'
    <2>1. ASSUME NEW op \in Ops, NEW at \in Steps, NEW force \in BOOLEAN, Begin(c, op, at, force)
          PROVE TypeOK'
      <3>1. Idle \in Call
        BY DEF Idle, Call, Ops, Steps
      <3>2. Others(c) \in BOOLEAN /\ (~Others(c)) \in BOOLEAN
        BY DEF Others
      <3>3. [Idle EXCEPT !.op = op, !.at = at, !.force = force, !.alone = ~Others(c)] \in Call
        BY <3>1, <3>2 DEF Call, Idle
      <3>4. \A o \in Callers : [call[o] EXCEPT !.alone = FALSE] \in Call /\ call[o] \in Call
        <4>1. \A o \in Callers : call[o] \in Call
          BY DEF TypeOK
        <4>2. \A k \in Call : [k EXCEPT !.alone = FALSE] \in Call
          BY DEF Call
        <4> QED
          BY <4>1, <4>2
      <3>5. call' \in [Callers -> Call]
        BY <2>1, <3>3, <3>4 DEF Begin
      <3> QED
        BY <2>1, <3>5 DEF Begin, TypeOK, host, store
    <2>2. CASE Create(c) \/ Start(c) \/ Stop(c) \/ Restart(c) \/ \E force \in BOOLEAN : Destroy(c, force)
      BY <2>1, <2>2 DEF Create, Start, Stop, Restart, Destroy, Ops, Steps
    <2>3. CASE Crash(c)
      BY <2>3, Moves DEF Crash, TypeOK, Unfinished, host, store
    <2>4. CASE MkDir(c)
      <3>1. call' \in [Callers -> Call]
        BY <2>4, Moves DEF MkDir, Steps
      <3>2. dir' \in BOOLEAN /\ (files' # {} => dir')
        <4>1. CASE dir' = TRUE
          BY <4>1, Zenon
        <4>2. CASE dir' = dir
          BY <2>4, <4>2 DEF MkDir, TypeOK
        <4> QED
          BY <2>4, <4>1, <4>2 DEF MkDir
      <3> QED
        BY <2>4, <3>1, <3>2 DEF MkDir, TypeOK, host
    <2>5. CASE SaveConfig(c)
      BY <2>5, Moves DEF SaveConfig, TypeOK, Steps, Files, host
    <2>6. CASE Created(c)
      BY <2>6, Moves DEF Created, Saved, NotSaved, TypeOK, Files, host
    <2>7. CASE Load(c)
      <3>1. Loads \subseteq Pids \cup {None}
        BY DEF Loads, TypeOK
      <3> QED
        <4>1. PICK pid \in Loads : call' = [call EXCEPT ![c].pid = pid, ![c].at = "check"]
          BY <2>7 DEF Load
        <4>2. [call[c] EXCEPT !.pid = pid, !.at = "check"] \in Call
          <5>1. call[c] \in Call
            BY DEF TypeOK
          <5>2. pid \in Pids \cup {None} /\ "check" \in Steps
            BY <3>1 DEF Steps
          <5> QED
            BY <5>1, <5>2 DEF Call
        <4>3. call' \in [Callers -> Call]
          BY <4>1, <4>2 DEF TypeOK
        <4> QED
          BY <2>7, <4>3 DEF Load, TypeOK, host, store
    <2>8. CASE Check(c)
      BY <2>8, Moves DEF Check, TypeOK, Steps, host, store
    <2>9. CASE StartAgain(c)
      BY <2>9, Moves DEF StartAgain, TypeOK, Call, Ops, Steps, host, store
    <2>10. CASE LoadConfig(c)
      <3>1. ConfigLoaded \in BOOLEAN
        BY DEF ConfigLoaded
      <3>2. [call[c] EXCEPT !.cfg = ConfigLoaded, !.at = "load"] \in Call
        <4>1. call[c] \in Call
          BY DEF TypeOK
        <4>2. "load" \in Steps
          BY DEF Steps
        <4> QED
          BY <3>1, <4>1, <4>2 DEF Call
      <3>3. call' \in [Callers -> Call]
        BY <2>10, <3>2 DEF LoadConfig, TypeOK
      <3> QED
        BY <2>10, <3>3 DEF LoadConfig, TypeOK, host, store
    <2>11. CASE Spawn(c)
      BY <2>11, Moves DEF Spawn, TypeOK, Steps, store
    <2>12. CASE SpawnFails(c) \/ ReadPidfile(c) \/ NoPidfile(c)
      BY <2>12, Moves DEF SpawnFails, ReadPidfile, NoPidfile, TypeOK, Call, Steps, host, store
    <2>13. CASE Record(c)
      <3>1. call[c].pid \in Pids \cup {None}
        BY DEF TypeOK, Call
      <3> QED
        BY <2>13, <3>1, Moves DEF Record, Recordable, Saved, NotSaved, TypeOK, Files, host
    <2>14. CASE Term(c)
      BY <2>14, Moves DEF Term, AfterQemuStop, TypeOK, Steps, host, store
    <2>15. CASE Wait(c)
      BY <2>15, Moves DEF Wait, Killed, AfterQemuStop, TypeOK, Steps, store
    <2>16. CASE SaveStopped(c)
      BY <2>16, Moves DEF SaveStopped, Saved, NotSaved, TypeOK, Files, host
    <2>17. CASE OpenDir(c)
      BY <2>17, Moves DEF OpenDir, TypeOK, Call, Steps, host, store
    <2>18. CASE RmDir(c)
      <3>1. call' \in [Callers -> Call]
        BY <2>18, Moves DEF RmDir
      <3>2. dir' \in BOOLEAN /\ (files' # {} => dir')
        <4>1. CASE dir' = FALSE /\ files = {}
          BY <2>18, <4>1, Zenon DEF RmDir
        <4>2. CASE dir' = dir
          BY <2>18, <4>2 DEF RmDir, TypeOK
        <4> QED
          BY <2>18, <4>1, <4>2 DEF RmDir, Removable
      <3> QED
        BY <2>18, <3>1, <3>2 DEF RmDir, TypeOK, host
    <2>19. CASE \E f \in Files : Remove(c, f)
      BY <2>19 DEF Remove, TypeOK, Call, host
    <2> QED
      BY <1>1, <2>2, <2>3, <2>4, <2>5, <2>6, <2>7, <2>8, <2>9, <2>10, <2>11, <2>12, <2>13,
         <2>14, <2>15, <2>16, <2>17, <2>18, <2>19 DEF Calls
  <1>2. CASE \E p \in Pids : Ends(p) \/ OtherStarts(p)
    <2>1. UNCHANGED <<domain, dir, files, state, call, amiss>>
      BY <1>2 DEF Ends, OtherStarts, store
    <2>2. proc' \in [Pids -> {"free", "qemu", "other", "dying"}]
      BY <1>2 DEF Ends, OtherStarts, TypeOK
    <2>3. \A p \in Pids : proc'[p] = "qemu" => domain = p
      BY <1>2 DEF Ends, OtherStarts, TypeOK
    <2> QED
      BY <2>1, <2>2, <2>3 DEF TypeOK
  <1>3. CASE Reap
    BY <1>3 DEF Reap, TypeOK, store
  <1>4. CASE UNCHANGED vars
    BY <1>4 DEF TypeOK, vars, host, store
  <1> QED
    BY <1>1, <1>2, <1>3, <1>4 DEF Next

(* Every file is in the directory and a pid in the state file; libvirt's     *)
(* process is the only qemu of the VM (vm_state.c, vm_store.c, vm_qemu.c:205). *)
THEOREM TypeCorrect == Spec => []TypeOK
  BY InitTypes, NextTypes, PTL DEF Spec

-----------------------------------------------------------------------------
(* What a step of a call under way does to the calls, and to what is amiss. *)
Acts(c) ==
    /\ Busy(c)
    /\ \A o \in Callers \ {c} : call'[o] = call[o]
    /\ call'[c] = Idle \/ call'[c].alone = call[c].alone
    /\ \/ Spawn(c)
       \/ amiss \cap {"start", "overlap"} \subseteq amiss' /\ (Runs' => Runs /\ UNCHANGED domain)

Begins(c) ==
    \E op \in Ops, at \in {"mkdir", "config", "load", "start"}, force \in BOOLEAN :
        Begin(c, op, at, force) /\ (at = "load" => op # "start") /\ (at = "config" => dir)

LEMMA AtIsBusy == \A c \in Callers, s \in Steps \ {"idle"} : At(c, s) => Busy(c)
  BY DEF At, Busy, Idle

LEMMA Acting ==
    ASSUME TypeOK, NEW c \in Callers, Calls(c)
    PROVE  Begins(c) \/ Acts(c)
  <1> USE NoneAssumption
  <1>1. CASE Create(c) \/ Start(c) \/ Stop(c) \/ Restart(c) \/ \E force \in BOOLEAN : Destroy(c, force)
    BY <1>1 DEF Create, Start, Stop, Restart, Destroy, Begins, Ops
  <1>2. ASSUME NEW s \in Steps, Go(c, s) \/ Return(c) \/ StopReturns(c)
        PROVE  /\ \A o \in Callers \ {c} : call'[o] = call[o]
               /\ call'[c] = Idle \/ call'[c].alone = call[c].alone
    BY <1>2 DEF Go, Return, StopReturns, TypeOK, Call
  <1>3. CASE Crash(c)
    BY <1>2, <1>3 DEF Crash, Acts, Runs, host, store, Steps
  <1>4. CASE MkDir(c) \/ SaveConfig(c) \/ Created(c)
    <2>1. Busy(c)
      BY <1>4, AtIsBusy DEF MkDir, SaveConfig, Created, Steps
    <2> QED
      BY <1>2, <1>4, <2>1 DEF MkDir, SaveConfig, Created, Acts, Runs, host, Steps
  <1>5. CASE Load(c) \/ StartAgain(c) \/ LoadConfig(c) \/ ReadPidfile(c) \/ OpenDir(c)
    <2>1. Busy(c)
      BY <1>5, AtIsBusy DEF Load, StartAgain, LoadConfig, ReadPidfile, OpenDir, Steps
    <2>2. /\ \A o \in Callers \ {c} : call'[o] = call[o]
          /\ call'[c] = Idle \/ call'[c].alone = call[c].alone
      <3>1. CASE Load(c)
        BY <3>1 DEF Load, TypeOK, Call
      <3>2. CASE StartAgain(c)
        BY <3>2 DEF StartAgain, Return, TypeOK, Call
      <3>3. CASE LoadConfig(c)
        <4>1. call' = [call EXCEPT ![c] = [call[c] EXCEPT !.cfg = ConfigLoaded, !.at = "load"]]
          BY <3>3 DEF LoadConfig, TypeOK, Call
        <4>2. [call[c] EXCEPT !.cfg = ConfigLoaded, !.at = "load"].alone = call[c].alone
          BY DEF TypeOK, Call
        <4> QED
          BY <4>1, <4>2 DEF TypeOK
      <3>4. CASE ReadPidfile(c) \/ OpenDir(c)
        BY <3>4 DEF ReadPidfile, OpenDir, Return, TypeOK, Call
      <3> QED
        BY <1>5, <3>1, <3>2, <3>3, <3>4
    <2> QED
      BY <1>5, <2>1, <2>2 DEF Load, StartAgain, LoadConfig, ReadPidfile, OpenDir, Acts, Runs, host, store
  <1>6. CASE Check(c) \/ Term(c) \/ SpawnFails(c) \/ NoPidfile(c)
    <2>1. Busy(c)
      BY <1>6, AtIsBusy DEF Check, Term, SpawnFails, NoPidfile, Steps
    <2> QED
      BY <1>2, <1>6, <2>1 DEF Check, Term, AfterQemuStop, SpawnFails, NoPidfile, Acts, Runs, host, store, Steps
  <1>7. CASE Spawn(c)
    BY <1>2, <1>7, AtIsBusy DEF Spawn, Acts, Steps
  <1>8. CASE Record(c) \/ SaveStopped(c) \/ RmDir(c)
    <2>1. Busy(c)
      BY <1>8, AtIsBusy DEF Record, SaveStopped, RmDir, Steps
    <2> QED
      BY <1>2, <1>8, <2>1 DEF Record, SaveStopped, RmDir, Acts, Runs, host, Steps
  <1>9. CASE Wait(c)
    <2>1. Busy(c)
      BY <1>9, AtIsBusy DEF Wait, Steps
    <2>2. Runs' => Runs
      BY <1>9 DEF Wait, Killed, Runs, TypeOK
    <2> QED
      BY <1>2, <1>9, <2>1, <2>2 DEF Wait, AfterQemuStop, Acts, store, Steps
  <1>10. CASE \E f \in Files : Remove(c, f)
    <2>1. Busy(c)
      BY <1>10, AtIsBusy DEF Remove, Steps
    <2>2. /\ \A o \in Callers \ {c} : call'[o] = call[o]
          /\ call'[c].alone = call[c].alone
      BY <1>10 DEF Remove, TypeOK, Call
    <2> QED
      BY <1>10, <2>1, <2>2 DEF Remove, Acts, Runs, host
  <1> QED
    BY <1>1, <1>3, <1>4, <1>5, <1>6, <1>7, <1>8, <1>9, <1>10 DEF Calls

-----------------------------------------------------------------------------
(* Overlaps: who thinks it is alone is, and an unnoticed overlap is none. *)
LEMMA OverlapStep ==
    ASSUME TypeOK, AloneIsAlone, OneAtATime, NEW c \in Callers, Acts(c)
    PROVE  AloneIsAlone' /\ OneAtATime'
  <1>1. \A o \in Callers : Busy(o)' => Busy(o)
    BY DEF Acts, Busy
  <1>2. \A o \in Callers : Busy(o)' => call'[o].alone = call[o].alone
    BY DEF Acts, Busy
  <1>3. AloneIsAlone'
    BY <1>1, <1>2 DEF AloneIsAlone
  <1>4. CASE "overlap" \in amiss => "overlap" \in amiss'
    <2>1. OneAtATime'
      BY <1>1, <1>4 DEF OneAtATime
    <2> QED
      BY <1>3, <2>1
  <1>5. CASE Spawn(c)
    <2>1. CASE call[c].alone
      <3>1. OneAtATime'
        BY <1>1, <2>1 DEF AloneIsAlone, OneAtATime, Acts
      <3> QED
        BY <1>3, <3>1
    <2>2. CASE ~call[c].alone
      <3>1. OneAtATime'
        BY <1>5, <2>2 DEF Spawn, OneAtATime
      <3> QED
        BY <1>3, <3>1
    <2> QED
      BY <2>1, <2>2
  <1> QED
    BY <1>4, <1>5 DEF Acts

LEMMA OverlapBegin ==
    ASSUME TypeOK, AloneIsAlone, OneAtATime, NEW c \in Callers, Begins(c)
    PROVE  AloneIsAlone' /\ OneAtATime'
  <1>1. PICK op \in Ops, at \in Steps, force \in BOOLEAN : Begin(c, op, at, force)
    BY DEF Begins, Steps
  <1>2. call'[c].alone = ~Others(c)
    BY <1>1 DEF Begin, Idle
  <1>3. \A o \in Callers \ {c} : Busy(o) => call'[o].alone = FALSE
    BY <1>1 DEF Begin, TypeOK, Call
  <1>4. \A o \in Callers \ {c} : Busy(o)' => Busy(o)
    BY <1>1 DEF Begin, Busy, TypeOK, Call
  <1>5. AloneIsAlone'
    <2> SUFFICES ASSUME NEW b \in Callers, Busy(b)', call'[b].alone
                 PROVE  \A o \in Callers \ {b} : ~Busy(o)'
      BY DEF AloneIsAlone
    <2>1. b = c
      <3> SUFFICES ASSUME b # c PROVE FALSE
        OBVIOUS
      <3>1. b \in Callers \ {c}
        OBVIOUS
      <3>2. Busy(b)
        BY <1>4, <3>1, Zenon
      <3>3. call'[b].alone = FALSE
        BY <1>3, <3>1, <3>2, Zenon
      <3> QED
        BY <3>3, Zenon
    <2>2. ~Others(c)
      BY <1>2, <2>1
    <2> QED
      BY <1>4, <2>1, <2>2 DEF Others
  <1>6. OneAtATime'
    <2>1. CASE Others(c)
      BY <1>1, <2>1 DEF Begin, OneAtATime
    <2>2. CASE ~Others(c)
      BY <1>4, <2>2 DEF Others, OneAtATime
    <2> QED
      BY <2>1, <2>2
  <1> QED
    BY <1>5, <1>6

(* A step after which all is settled is the step of the only call there is. *)
LEMMA Only ==
    ASSUME TypeOK, AloneIsAlone, OneAtATime, NEW c \in Callers, Acts(c), Settled'
    PROVE  /\ \A o \in Callers \ {c} : call[o] = Idle /\ call'[o] = Idle
           /\ Spawn(c) \/ Settled
  <1>1. CASE Spawn(c)
    <2>1. call[c].alone
      BY <1>1 DEF Spawn, Settled
    <2> QED
      BY <1>1, <2>1 DEF AloneIsAlone, Acts, Busy
  <1>2. CASE ~Spawn(c)
    <2>1. Settled
      BY <1>2 DEF Acts, Settled
    <2>2. \A o \in Callers \ {c} : ~Busy(o)
      BY <2>1 DEF OneAtATime, Acts, Settled
    <2> QED
      BY <2>1, <2>2 DEF Acts, Busy
  <1> QED
    BY <1>1, <1>2

-----------------------------------------------------------------------------
(* Recorded and Seen, said of the only call there is. *)
Fine(c) ==
    /\ (dir /\ state = domain) \/ call[c].at \in {"pidfile", "record"}
    /\ call[c].at \in {"check", "term", "wait", "record"} => call[c].pid = domain
    /\ call[c].at \notin {"saveconfig", "created", "stopped", "empty", "remove"}

LEMMA FineFor ==
    ASSUME NEW c \in Callers, \A o \in Callers \ {c} : call[o] = Idle
    PROVE  Recorded /\ Seen <=> (Settled /\ Runs => Fine(c))
  BY DEF Recorded, Seen, Settled, Fine, At, Idle

LEMMA FineAfter ==
    ASSUME NEW c \in Callers, \A o \in Callers \ {c} : call'[o] = Idle, Settled' /\ Runs' => Fine(c)'
    PROVE  Recorded' /\ Seen'
  BY DEF Recorded, Seen, Settled, Fine, At, Idle

LEMMA FineStep ==
    ASSUME TypeOK, NEW c \in Callers, Calls(c), Acts(c), Settled', Runs',
           \A o \in Callers \ {c} : call[o] = Idle,
           Spawn(c) \/ Settled, Settled /\ Runs => Fine(c)
    PROVE  Fine(c)'
  <1> USE NoneAssumption
  <1>1. CASE Spawn(c)
    BY <1>1 DEF Spawn, Go, Fine, TypeOK, Call
  <1> SUFFICES ASSUME ~Spawn(c) PROVE Fine(c)'
    BY <1>1
  <1>2. Fine(c) /\ Runs /\ domain' = domain
    BY DEF Acts
  <1> USE DEF Fine, At
  <1>3. CASE Crash(c)
    BY <1>2, <1>3 DEF Crash, Unfinished, Return, Idle, Settled, TypeOK, host, store
  <1>4. CASE MkDir(c)
    BY <1>2, <1>4 DEF MkDir, Return, Idle, TypeOK
  <1>5. CASE SaveConfig(c) \/ Created(c) \/ SaveStopped(c) \/ OpenDir(c) \/ RmDir(c) \/ \E f \in Files : Remove(c, f)
    BY <1>2, <1>5 DEF SaveConfig, Created, SaveStopped, OpenDir, RmDir, Remove
  <1>6. CASE Load(c)
    <2>1. Loads = {state}
      BY <1>6 DEF Load, Loads, Idle
    <2> QED
      BY <1>2, <1>6, <2>1 DEF Load, TypeOK, Call, store
  <1>7. CASE Check(c)
    <2>1. call[c].pid = domain /\ Alive(c)
      BY <1>2, <1>7 DEF Check, Alive, Runs
    <2> QED
      BY <1>2, <1>7, <2>1 DEF Check, Go, Return, StopReturns, Idle, TypeOK, Call, store
  <1>8. CASE StartAgain(c)
    BY <1>2, <1>8 DEF StartAgain, Return, Idle, TypeOK, Call, store
  <1>9. CASE LoadConfig(c)
    BY <1>2, <1>9 DEF LoadConfig, TypeOK, Call, store
  <1>10. CASE SpawnFails(c)
    BY <1>2, <1>10 DEF SpawnFails, Return, Idle, TypeOK, store
  <1>11. CASE ReadPidfile(c)
    BY <1>2, <1>11 DEF ReadPidfile, TypeOK, Call, store
  <1>12. CASE NoPidfile(c)
    BY <1>12 DEF NoPidfile, Settled
  <1>13. CASE Record(c)
    BY <1>2, <1>13 DEF Record, Recordable, Saved, Return, Idle, Settled, TypeOK
  <1>14. CASE Term(c)
    <2>1. Alive(c)
      BY <1>2, <1>14 DEF Term, Alive, Runs
    <2> QED
      BY <1>2, <1>14, <2>1 DEF Term, Go, TypeOK, Call, store
  <1>15. CASE Wait(c)
    <2>1. ~Runs'
      BY <1>2, <1>15 DEF Wait, Alive, Killed, Runs, TypeOK
    <2> QED
      BY <2>1
  <1>16. CASE Create(c) \/ Start(c) \/ Stop(c) \/ Restart(c) \/ \E force \in BOOLEAN : Destroy(c, force)
    BY <1>16 DEF Create, Start, Stop, Restart, Destroy, Begin, Acts
  <1> QED
    BY <1>3, <1>4, <1>5, <1>6, <1>7, <1>8, <1>9, <1>10, <1>11, <1>12, <1>13, <1>14, <1>15, <1>16 DEF Calls

(* The inductive invariant of the guest and its record. *)
GuestInv == TypeOK /\ AloneIsAlone /\ OneAtATime /\ Recorded /\ Seen

LEMMA GuestInit == Init => GuestInv
  <1> SUFFICES ASSUME Init PROVE GuestInv
    OBVIOUS
  <1>1. TypeOK
    BY InitTypes
  <1>2. \A c \in Callers : ~Busy(c)
    BY DEF Init, Busy
  <1>3. ~Runs
    BY DEF Init, Runs
  <1> QED
    BY <1>1, <1>2, <1>3 DEF GuestInv, AloneIsAlone, OneAtATime, Recorded, Seen

LEMMA GuestNext == GuestInv /\ [Next]_vars => GuestInv'
  <1> SUFFICES ASSUME GuestInv, [Next]_vars PROVE GuestInv'
    OBVIOUS
  <1>1. TypeOK'
    BY NextTypes DEF GuestInv
  <1>2. ASSUME NEW c \in Callers, Calls(c) PROVE GuestInv'
    <2>1. CASE Begins(c)
      <3>1. AloneIsAlone' /\ OneAtATime'
        BY <2>1, OverlapBegin DEF GuestInv
      <3>2. PICK op \in Ops, at \in {"mkdir", "config", "load", "start"}, force \in BOOLEAN :
                Begin(c, op, at, force)
        BY <2>1 DEF Begins
      <3>3. ASSUME Settled', Runs' PROVE Recorded' /\ Seen'
        <4>1. Settled /\ ~Others(c) /\ Runs
          BY <3>2, <3>3 DEF Begin, Settled, Runs, host
        <4>2. call[c] = Idle /\ \A o \in Callers \ {c} : call[o] = Idle /\ call'[o] = Idle
          BY <3>2, <4>1 DEF Begin, Others, Busy
        <4>3. dir /\ state = domain
          BY <4>1, <4>2 DEF GuestInv, Recorded, Settled, At, Idle
        <4>4. call'[c].at = at
          BY <3>2 DEF Begin, Idle
        <4>5. Fine(c)'
          BY <3>2, <4>3, <4>4 DEF Begin, Fine, host, store
        <4> QED
          BY <4>2, <4>5, FineAfter
      <3> QED
        BY <1>1, <3>1, <3>3 DEF GuestInv, Recorded, Seen, Settled
    <2>2. CASE Acts(c)
      <3>1. AloneIsAlone' /\ OneAtATime'
        BY <2>2, OverlapStep DEF GuestInv
      <3>2. ASSUME Settled', Runs' PROVE Recorded' /\ Seen'
        <4>1. /\ \A o \in Callers \ {c} : call[o] = Idle /\ call'[o] = Idle
              /\ Spawn(c) \/ Settled
          BY <2>2, <3>2, Only DEF GuestInv
        <4>2. Settled /\ Runs => Fine(c)
          BY <4>1, FineFor DEF GuestInv
        <4>3. Fine(c)'
          BY <1>2, <2>2, <3>2, <4>1, <4>2, FineStep DEF GuestInv
        <4> QED
          BY <4>1, <4>3, FineAfter
      <3> QED
        BY <1>1, <3>1, <3>2 DEF GuestInv, Recorded, Seen, Settled
    <2> QED
      BY <1>2, <2>1, <2>2, Acting DEF GuestInv
  <1>3. CASE \/ \E p \in Pids : Ends(p) \/ OtherStarts(p)
             \/ Reap
             \/ UNCHANGED vars
    <2>1. UNCHANGED <<dir, files, state, call, amiss>>
      BY <1>3 DEF Ends, OtherStarts, Reap, vars, host, store
    <2>2. Runs' => Runs /\ domain' = domain
      BY <1>3, NoneAssumption DEF Ends, OtherStarts, Reap, Runs, GuestInv, TypeOK, vars, host
    <2>3. AloneIsAlone' /\ OneAtATime'
      BY <2>1 DEF GuestInv, AloneIsAlone, OneAtATime, Busy
    <2>4. Recorded' /\ Seen'
      BY <2>1, <2>2 DEF GuestInv, Recorded, Seen, Settled, At
    <2> QED
      BY <1>1, <2>3, <2>4 DEF GuestInv
  <1> QED
    BY <1>2, <1>3 DEF Next

(* A running guest has its directory and its pid in the state file (vm.c:69-77), *)
(* but for a start cut short, a record that could not be written, or overlaps.   *)
THEOREM IsRecorded == Spec => []Recorded
  <1>1. GuestInv => Recorded
    BY DEF GuestInv
  <1> QED
    BY <1>1, GuestInit, GuestNext, PTL DEF Spec

(* vm_stop writes "stopped" of a guest that is (vm.c:93-97), likewise. *)
THEOREM StopsBeforeSaying == Spec => []StopStops
  <1>1. GuestInv => StopStops
    BY DEF GuestInv, Seen, Settled, StopStops, At
  <1> QED
    BY <1>1, GuestInit, GuestNext, PTL DEF Spec

-----------------------------------------------------------------------------
(* The configuration. *)
ConfigInv == GuestInv /\ Configured /\ Undisturbed

LEMMA ConfiguredStep ==
    ASSUME TypeOK, Configured, NEW c \in Callers, Calls(c), Acts(c), dir', Whole'
    PROVE  \/ "config" \in files'
           \/ \E o \in Callers : At(o, "saveconfig")' \/ At(o, "remove")'
  <1> USE DEF At
  <1>1. CASE MkDir(c)
    <2>1. CASE ~dir
      <3>1. CASE dir' = dir
        BY <2>1, <3>1
      <3>2. CASE Go(c, "saveconfig")
        BY <3>2 DEF Go, TypeOK, Call
      <3> QED
        BY <1>1, <3>1, <3>2 DEF MkDir
    <2>2. CASE dir
      <3>1. Return(c) /\ UNCHANGED <<files, amiss>>
        BY <1>1, <2>2 DEF MkDir
      <3>2. \/ "config" \in files
            \/ \E o \in Callers \ {c} : At(o, "saveconfig") \/ At(o, "remove")
        BY <1>1, <2>2, <3>1 DEF Configured, Whole, MkDir
      <3> QED
        BY <3>1, <3>2 DEF Return
    <2> QED
      BY <2>1, <2>2
  <1>2. CASE SaveConfig(c)
    BY <1>2 DEF SaveConfig, Whole
  <1>3. CASE RmDir(c)
    BY <1>3 DEF RmDir, Whole
  <1>4. CASE \E f \in Files : Remove(c, f)
    BY <1>4 DEF Remove, TypeOK, Call
  <1>5. CASE Crash(c)
    BY <1>5 DEF Crash, Unfinished, Return, Configured, Whole, store, TypeOK
  <1>6. CASE \/ Created(c) \/ Load(c) \/ Check(c) \/ StartAgain(c) \/ LoadConfig(c)
             \/ Spawn(c) \/ SpawnFails(c) \/ ReadPidfile(c) \/ NoPidfile(c) \/ Record(c)
             \/ Term(c) \/ Wait(c) \/ SaveStopped(c) \/ OpenDir(c)
    <2>1. ~At(c, "saveconfig") /\ ~At(c, "remove")
      BY <1>6 DEF Created, Load, Check, StartAgain, LoadConfig, Spawn, SpawnFails, ReadPidfile,
                  NoPidfile, Record, Term, Wait, SaveStopped, OpenDir
    <2>2. files \subseteq files' /\ dir' = dir
      BY <1>6 DEF Created, Load, Check, StartAgain, LoadConfig, Spawn, SpawnFails, ReadPidfile, NoPidfile,
                  Record, Term, Wait, SaveStopped, OpenDir, Saved, NotSaved, store
    <2>3. Whole
      BY <1>6 DEF Created, Load, Check, StartAgain, LoadConfig, Spawn, SpawnFails, ReadPidfile,
                  NoPidfile, Record, Term, Wait, SaveStopped, OpenDir, Whole
    <2> QED
      BY <2>1, <2>2, <2>3 DEF Configured, Acts
  <1>7. CASE Create(c) \/ Start(c) \/ Stop(c) \/ Restart(c) \/ \E force \in BOOLEAN : Destroy(c, force)
    BY <1>7 DEF Create, Start, Stop, Restart, Destroy, Begin, Acts
  <1> QED
    BY <1>1, <1>2, <1>3, <1>4, <1>5, <1>6, <1>7 DEF Calls

(* What Undisturbed says of one caller. *)
Calm(c) ==
    /\ At(c, "config") => dir
    /\ call[c].op = "start" /\ call[c].at \in {"load", "check"} => call[c].cfg \/ ~Whole
    /\ At(c, "spawn") => call[c].cfg \/ ~Whole

LEMMA CalmStep ==
    ASSUME TypeOK, Configured, NEW c \in Callers, Calls(c), Acts(c), Calm(c),
           \A o \in Callers \ {c} : ~Busy(o)
    PROVE  Calm(c)'
  <1> USE DEF At, Calm
  <1>1. CASE Load(c)
    <2>1. PICK pid \in Loads : call' = [call EXCEPT ![c].pid = pid, ![c].at = "check"]
      BY <1>1 DEF Load
    <2>2. /\ call'[c].at = "check" /\ call'[c].op = call[c].op
          /\ call'[c].cfg = call[c].cfg /\ amiss' = amiss
      BY <1>1, <2>1 DEF Load, TypeOK, Call
    <2> QED
      BY <1>1, <2>2 DEF Load, Whole
  <1>2. CASE Check(c)
    BY <1>2 DEF Check, Go, Return, StopReturns, Idle, Whole, TypeOK, Call
  <1>3. CASE StartAgain(c)
    BY <1>3 DEF StartAgain, Return, Idle, TypeOK, Call, store
  <1>4. CASE LoadConfig(c)
    <2>1. call'[c].at = "load" /\ amiss' = amiss
      BY <1>4 DEF LoadConfig, TypeOK, Call
    <2>2. call'[c].cfg = ConfigLoaded
      BY <1>4 DEF LoadConfig, TypeOK, Call
    <2>3. ~\E o \in Callers : At(o, "saveconfig") \/ At(o, "remove")
      BY <1>4 DEF LoadConfig, Busy, Idle
    <2>4. ConfigLoaded \/ ~Whole
      BY <1>4, <2>3 DEF LoadConfig, Configured, ConfigLoaded
    <2> QED
      BY <2>1, <2>2, <2>4 DEF Whole
  <1>5. CASE \/ Crash(c) \/ MkDir(c) \/ SaveConfig(c) \/ Created(c) \/ Spawn(c) \/ SpawnFails(c)
             \/ ReadPidfile(c) \/ NoPidfile(c) \/ Record(c) \/ Term(c) \/ Wait(c) \/ SaveStopped(c)
             \/ OpenDir(c) \/ RmDir(c) \/ \E f \in Files : Remove(c, f)
    <2>1. call'[c].at \notin {"config", "load", "check", "spawn"}
      BY <1>5 DEF Crash, MkDir, SaveConfig, Created, Spawn, SpawnFails, ReadPidfile, NoPidfile, Record,
                  Term, Wait, AfterQemuStop, SaveStopped, StopReturns, OpenDir, RmDir, Remove, Go, Return, Idle, TypeOK, Call
    <2> QED
      BY <2>1
  <1>6. CASE Create(c) \/ Start(c) \/ Stop(c) \/ Restart(c) \/ \E force \in BOOLEAN : Destroy(c, force)
    BY <1>6 DEF Create, Start, Stop, Restart, Destroy, Begin, Acts
  <1> QED
    BY <1>1, <1>2, <1>3, <1>4, <1>5, <1>6 DEF Calls

LEMMA ConfigInit == Init => ConfigInv
  <1> SUFFICES ASSUME Init PROVE ConfigInv
    OBVIOUS
  <1>1. Configured
    BY DEF Init, Configured
  <1>2. Undisturbed
    BY DEF Init, Undisturbed, At, Idle
  <1> QED
    BY <1>1, <1>2, GuestInit DEF ConfigInv

LEMMA ConfigNext == ConfigInv /\ [Next]_vars => ConfigInv'
  <1> SUFFICES ASSUME ConfigInv, [Next]_vars PROVE ConfigInv'
    OBVIOUS
  <1>1. GuestInv' /\ TypeOK /\ AloneIsAlone
    BY GuestNext DEF ConfigInv, GuestInv
  <1>2. Undisturbed <=> \A c \in Callers : call[c].alone => Calm(c)
    BY DEF Undisturbed, Calm
  <1>3. Undisturbed' <=> \A c \in Callers : call'[c].alone => Calm(c)'
    BY DEF Undisturbed, Calm
  <1>4. ASSUME NEW c \in Callers, Calls(c) PROVE Configured' /\ Undisturbed'
    <2>1. CASE Begins(c)
      <3>1. PICK op \in Ops, at \in {"mkdir", "config", "load", "start"}, force \in BOOLEAN :
                Begin(c, op, at, force) /\ (at = "load" => op # "start") /\ (at = "config" => dir)
        BY <2>1 DEF Begins
      <3>2. UNCHANGED <<dir, files>> /\ amiss \subseteq amiss' /\ call[c] = Idle
        BY <3>1 DEF Begin, Busy, store
      <3>3. \A o \in Callers \ {c} : call'[o].at = call[o].at
        BY <1>1, <3>1 DEF Begin, TypeOK, Call
      <3>4. Configured'
        <4> SUFFICES ASSUME dir, Whole
                     PROVE  \/ "config" \in files
                            \/ \E o \in Callers : At(o, "saveconfig")' \/ At(o, "remove")'
          BY <3>2 DEF Configured, Whole
        <4>1. CASE "config" \in files
          BY <4>1
        <4>2. ASSUME NEW o \in Callers, At(o, "saveconfig") \/ At(o, "remove")
              PROVE  At(o, "saveconfig")' \/ At(o, "remove")'
          BY <3>2, <3>3, <4>2 DEF At, Idle
        <4> QED
          BY <4>1, <4>2 DEF ConfigInv, Configured
      <3>5. call'[c].at = at /\ call'[c].op = op
        BY <3>1 DEF Begin, Idle
      <3>6. Calm(c)'
        BY <3>1, <3>2, <3>5 DEF Calm, At
      <3>7. ASSUME NEW o \in Callers \ {c}, call'[o].alone PROVE Calm(o)'
        <4>1. ~Busy(o)
          <5>1. Busy(o) => call'[o].alone = FALSE
            BY <1>1, <3>1 DEF Begin, TypeOK, Call
          <5> QED
            BY <3>7, <5>1, Zenon
        <4>2. call'[o].at = "idle"
          BY <3>3, <4>1 DEF Busy, Idle
        <4> QED
          BY <4>2 DEF Calm, At
      <3> QED
        BY <1>3, <3>4, <3>6, <3>7
    <2>2. CASE Acts(c)
      <3>1. Configured'
        BY <1>1, <1>4, <2>2, ConfiguredStep DEF ConfigInv, Configured
      <3>2. ASSUME NEW o \in Callers, call'[o].alone PROVE Calm(o)'
        <4>1. CASE o = c
          <5>1. CASE call'[c] = Idle
            BY <4>1, <5>1 DEF Calm, At, Idle
          <5>2. CASE call'[c].alone = call[c].alone
            <6>1. Calm(c) /\ \A b \in Callers \ {c} : ~Busy(b)
              BY <1>1, <1>2, <2>2, <3>2, <4>1, <5>2 DEF ConfigInv, AloneIsAlone, Acts
            <6> QED
              BY <1>1, <1>4, <2>2, <4>1, <6>1, CalmStep DEF ConfigInv
          <5> QED
            BY <2>2, <5>1, <5>2 DEF Acts
        <4>2. CASE o # c
          <5>1. call'[o] = call[o] /\ Busy(c)
            BY <2>2, <4>2 DEF Acts
          <5>2. ~Busy(o)
            BY <1>1, <3>2, <4>2, <5>1 DEF AloneIsAlone
          <5> QED
            BY <5>1, <5>2 DEF Calm, At, Busy, Idle
        <4> QED
          BY <4>1, <4>2
      <3> QED
        BY <1>3, <3>1, <3>2
    <2> QED
      BY <1>1, <1>4, <2>1, <2>2, Acting
  <1>5. CASE \/ \E p \in Pids : Ends(p) \/ OtherStarts(p)
             \/ Reap
             \/ UNCHANGED vars
    <2>1. UNCHANGED <<dir, files, call, amiss>>
      BY <1>5 DEF Ends, OtherStarts, Reap, vars, host, store
    <2>2. Configured'
      BY <2>1 DEF ConfigInv, Configured, Whole, At
    <2>3. Undisturbed'
      BY <2>1 DEF ConfigInv, Undisturbed, Whole, At
    <2> QED
      BY <1>1, <2>2, <2>3 DEF ConfigInv
  <1> QED
    BY <1>1, <1>4, <1>5 DEF Next, ConfigInv

(* A guest boots with the configuration it was created with (vm.c:46-64,       *)
(* vm_config_load), but for a create or destroy left half done, or an overlap. *)
THEOREM BootsAsCreated == Spec => AsCreated
  <1>1. ConfigInv /\ [Next]_vars =>
            [\A c \in Callers : At(c, "spawn") /\ At(c, "pidfile")' =>
                call[c].cfg \/ ~call[c].alone \/ amiss \cap {"create", "destroy"} # {}]_vars
    BY DEF ConfigInv, Undisturbed, Whole
  <1> QED
    BY <1>1, ConfigInit, ConfigNext, PTL DEF Spec, AsCreated
===============================================================================
