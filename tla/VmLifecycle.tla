----------------------------- MODULE VmLifecycle -----------------------------
(***************************************************************************)
(* The life of one VM (src/src/impl/vm): its directory in the store, its      *)
(* state file, and the qemu that libvirt runs for it.  Callers (the command    *)
(* line, the web server) share the store without a lock and may die anywhere.  *)
(* A step is one access to what they share: a file, libvirt or a process.      *)
(* VMs of different names share nothing.                                       *)
(***************************************************************************)
EXTENDS FiniteSets

CONSTANTS
    Callers,    \* the processes that call the library
    Pids,       \* process identifiers of the host
    None        \* no process

ASSUME NoneAssumption == None \notin Pids

VARIABLES
    proc,       \* the host's processes: "free", "qemu" of this VM, "other", or "dying"
    domain,     \* the process libvirt has under the VM's name
    dir,        \* whether the VM's directory exists
    files,      \* the files in it
    state,      \* the pid in state.json if it says running
    call,       \* what each caller is doing
    amiss       \* history: the calls that ended half-way or overlapped

host  == <<proc, domain>>
store == <<dir, files, state>>
vars  == <<host, store, call, amiss>>

(* Sockets and the log are left out: no operation reads them. *)
Files == {"config", "state"}
Ops   == {"none", "create", "start", "stop", "restart", "destroy"}
Steps == {"idle", "mkdir", "saveconfig", "created", "start", "config", "load", "check",
          "spawn", "pidfile", "record", "term", "wait", "stopped", "empty", "remove"}

Call == [op : Ops, at : Steps, force : BOOLEAN, pid : Pids \cup {None},
         cfg : BOOLEAN, left : SUBSET Files, alone : BOOLEAN]
Idle == [op |-> "none", at |-> "idle", force |-> FALSE, pid |-> None,
         cfg |-> FALSE, left |-> {}, alone |-> TRUE]

Init ==
    /\ proc \in [Pids -> {"free", "other"}] /\ domain = None
    /\ dir = FALSE /\ files = {} /\ state = None
    /\ call = [c \in Callers |-> Idle]
    /\ amiss = {}

Runs == domain # None /\ proc[domain] = "qemu"

-----------------------------------------------------------------------------
(* Calls *)

Busy(c) == call[c] # Idle
Others(c) == \E o \in Callers \ {c} : Busy(o)

Begin(c, op, at, force) ==
    /\ ~Busy(c)
    /\ call' = [o \in Callers |->
                   CASE o = c   -> [Idle EXCEPT !.op = op, !.at = at, !.force = force, !.alone = ~Others(c)]
                     [] Busy(o) /\ o # c -> [call[o] EXCEPT !.alone = FALSE]
                     [] OTHER   -> call[o]]
    /\ amiss' = amiss \cup {w \in {"overlap"} : Others(c)}
    /\ UNCHANGED <<host, store>>

Create(c)         == ~dir /\ Begin(c, "create", "mkdir", FALSE)
Start(c)          == dir /\ Begin(c, "start", "config", FALSE)
Stop(c)           == dir /\ Begin(c, "stop", "load", FALSE)
Restart(c)        == Begin(c, "restart", IF dir THEN "load" ELSE "start", FALSE)
Destroy(c, force) == dir /\ Begin(c, "destroy", "load", force)

At(c, step) == call[c].at = step
Go(c, step) == call' = [call EXCEPT ![c].at = step]
Return(c)   == call' = [call EXCEPT ![c] = Idle]

(* What a caller that ends here leaves undone. *)
Unfinished(c) ==
    CASE At(c, "pidfile") \/ At(c, "record") -> {"start"}
      [] At(c, "saveconfig")                 -> {"create"}
      [] At(c, "remove")                     -> {"destroy"}
      [] OTHER                               -> {}

Crash(c) ==
    /\ Busy(c)
    /\ Return(c)
    /\ amiss' = amiss \cup Unfinished(c)
    /\ UNCHANGED <<host, store>>

(* json_write_file for the state: it may not open the file, or leave it      *)
(* without a document, which vm_state_load takes for "stopped".              *)
Saved(pid) == dir /\ state' = pid /\ files' = files \cup {"state"}
NotSaved   == UNCHANGED <<state, files>> \/ Saved(None)

-----------------------------------------------------------------------------
(* vm_create *)

MkDir(c) ==
    /\ At(c, "mkdir")
    /\ \/ ~dir /\ dir' = TRUE /\ Go(c, "saveconfig") /\ amiss' = amiss \ {"create", "destroy"}
       \/ Return(c) /\ UNCHANGED <<dir, amiss>>
    /\ UNCHANGED <<host, files, state>>

(* json_write_file fails if it cannot open the file, but not if it cannot     *)
(* write it.  A configuration that cannot be parsed counts as none.           *)
SaveConfig(c) ==
    /\ At(c, "saveconfig")
    /\ \/ dir /\ files' = files \cup {"config"} /\ Go(c, "created") /\ UNCHANGED amiss
       \/ dir /\ files' = files \ {"config"} /\ Go(c, "created") /\ amiss' = amiss \cup {"create"}
       \/ Return(c) /\ amiss' = amiss \cup {"create"} /\ UNCHANGED files
    /\ UNCHANGED <<host, dir, state>>

Created(c) ==
    /\ At(c, "created")
    /\ Saved(None) \/ NotSaved
    /\ Return(c)
    /\ UNCHANGED <<host, dir, amiss>>

-----------------------------------------------------------------------------
(* vm_state_load and vm_state_is_alive, for vm_start, vm_stop, vm_destroy *)

(* A file being written is empty between its fopen and its fclose. *)
Loads == {state} \cup {None : o \in {o \in Callers : call[o].at \in {"created", "record", "stopped"}}}

Load(c) ==
    /\ At(c, "load")
    /\ \E pid \in Loads : call' = [call EXCEPT ![c].pid = pid, ![c].at = "check"]
    /\ UNCHANGED <<host, store, amiss>>

(* kill(pid, 0): some process has the pid. *)
Alive(c) == call[c].pid # None /\ proc[call[c].pid] # "free"

(* vm_restart goes on to vm_start however vm_stop went. *)
StopReturns(c) ==
    IF call[c].op = "restart"
    THEN call' = [call EXCEPT ![c].op = "start", ![c].at = "start", ![c].pid = None]
    ELSE Return(c)

Check(c) ==
    /\ At(c, "check")
    /\ \/ call[c].op = "start" /\ IF Alive(c) THEN Return(c) ELSE Go(c, "spawn")
       \/ call[c].op \in {"stop", "restart"} /\ IF Alive(c) THEN Go(c, "term") ELSE StopReturns(c)
       \/ /\ call[c].op = "destroy"
          /\ \/ ~Alive(c) /\ Go(c, "empty")
             \/ Alive(c) /\ ~call[c].force /\ Return(c)
             \/ Alive(c) /\ call[c].force /\ Go(c, "term")
    /\ UNCHANGED <<host, store, amiss>>

-----------------------------------------------------------------------------
(* vm_start *)

StartAgain(c) ==
    /\ At(c, "start")
    /\ IF dir THEN call' = [call EXCEPT ![c].op = "start", ![c].at = "config"] ELSE Return(c)
    /\ UNCHANGED <<host, store, amiss>>

ConfigLost   == FALSE
ConfigLoaded == "config" \in files

LoadConfig(c) ==
    /\ At(c, "config")
    /\ call' = [call EXCEPT ![c].cfg = ConfigLoaded, ![c].at = "load"]
    /\ UNCHANGED <<host, store, amiss>>

(* virDomainCreateXML: libvirt has one domain of a name. *)
Spawn(c) ==
    /\ At(c, "spawn")
    /\ domain = None
    /\ \E p \in Pids : /\ proc[p] = "free"
                       /\ proc' = [proc EXCEPT ![p] = "qemu"]
                       /\ domain' = p
    /\ Go(c, "pidfile")
    /\ amiss' = (amiss \ {"start", "overlap"}) \cup {w \in {"overlap"} : ~call[c].alone}
    /\ UNCHANGED store

SpawnFails(c) ==
    /\ At(c, "spawn")
    /\ Return(c)
    /\ UNCHANGED <<host, store, amiss>>

ReadPidfile(c) ==
    /\ At(c, "pidfile")
    /\ domain # None
    /\ call' = [call EXCEPT ![c].pid = domain, ![c].at = "record"]
    /\ UNCHANGED <<host, store, amiss>>

NoPidfile(c) ==
    /\ At(c, "pidfile")
    /\ Return(c)
    /\ amiss' = amiss \cup {"start"}
    /\ UNCHANGED <<host, store>>

Unrecorded(c) == None
Recordable(c) == call[c].pid

Record(c) ==
    /\ At(c, "record")
    /\ \/ Saved(Recordable(c)) /\ UNCHANGED amiss
       \/ NotSaved /\ amiss' = amiss \cup {"start"}
    /\ Return(c)
    /\ UNCHANGED <<host, dir>>

-----------------------------------------------------------------------------
(* qemu_stop, then the rest of vm_stop *)

AfterQemuStop(c) == IF call[c].op = "destroy" THEN "empty" ELSE "stopped"

(* SIGTERM fails if there is no process any more, and qemu_stop's answer is *)
(* not looked at.  A process may end at any time, and does not have to.      *)
Term(c) ==
    /\ At(c, "term")
    /\ Go(c, IF Alive(c) THEN "wait" ELSE AfterQemuStop(c))
    /\ UNCHANGED <<host, store, amiss>>

Spared(p) == proc
Killed(p) == [proc EXCEPT ![p] = "dying"]

Wait(c) ==
    /\ At(c, "wait")
    /\ proc' = IF Alive(c) THEN Killed(call[c].pid) ELSE proc
    /\ Go(c, AfterQemuStop(c))
    /\ UNCHANGED <<domain, store, amiss>>

SaveStopped(c) ==
    /\ At(c, "stopped")
    /\ Saved(None) \/ NotSaved
    /\ StopReturns(c)
    /\ UNCHANGED <<host, dir, amiss>>

-----------------------------------------------------------------------------
(* vm_store_remove_dir, for vm_destroy *)

OpenDir(c) ==
    /\ At(c, "empty")
    /\ IF dir THEN call' = [call EXCEPT ![c].at = "remove", ![c].left = files] ELSE Return(c)
    /\ UNCHANGED <<host, store, amiss>>

Remove(c, f) ==
    /\ At(c, "remove") /\ f \in call[c].left
    /\ call' = [call EXCEPT ![c].left = @ \ {f}]
    /\ files' = files \ {f}
    /\ state' = IF f = "state" THEN None ELSE state
    /\ UNCHANGED <<host, dir, amiss>>

AlwaysRemovable == TRUE
Removable == files = {}

(* rmdir fails if something is or came there, such as the log or a socket of *)
(* a qemu that has just started.                                              *)
RmDir(c) ==
    /\ At(c, "remove") /\ call[c].left = {}
    /\ \/ dir /\ Removable /\ dir' = FALSE /\ UNCHANGED amiss
       \/ amiss' = amiss \cup {"destroy"} /\ UNCHANGED dir
    /\ Return(c)
    /\ UNCHANGED <<host, files, state>>

-----------------------------------------------------------------------------
(* The host *)

Ends(p) ==
    /\ proc[p] # "free"
    /\ proc' = [proc EXCEPT ![p] = "free"]
    /\ UNCHANGED <<domain, store, call, amiss>>

OtherStarts(p) ==
    /\ proc[p] = "free"
    /\ proc' = [proc EXCEPT ![p] = "other"]
    /\ UNCHANGED <<domain, store, call, amiss>>

(* libvirt notices some time after qemu ended. *)
Reap ==
    /\ domain # None /\ proc[domain] \in {"free", "other"}
    /\ domain' = None
    /\ UNCHANGED <<proc, store, call, amiss>>

Calls(c) ==
    \/ Create(c) \/ Start(c) \/ Stop(c) \/ Restart(c) \/ \E force \in BOOLEAN : Destroy(c, force)
    \/ Crash(c)
    \/ MkDir(c) \/ SaveConfig(c) \/ Created(c)
    \/ Load(c) \/ Check(c)
    \/ StartAgain(c) \/ LoadConfig(c) \/ Spawn(c) \/ SpawnFails(c)
    \/ ReadPidfile(c) \/ NoPidfile(c) \/ Record(c)
    \/ Term(c) \/ Wait(c) \/ SaveStopped(c)
    \/ OpenDir(c) \/ RmDir(c) \/ \E f \in Files : Remove(c, f)

Next ==
    \/ \E c \in Callers : Calls(c)
    \/ \E p \in Pids : Ends(p) \/ OtherStarts(p)
    \/ Reap

Spec == Init /\ [][Next]_vars

-----------------------------------------------------------------------------
(* Types; files only in a directory, a pid only in a state file; one qemu. *)
TypeOK ==
    /\ proc \in [Pids -> {"free", "qemu", "other", "dying"}]
    /\ domain \in Pids \cup {None}
    /\ \A p \in Pids : proc[p] = "qemu" => domain = p
    /\ dir \in BOOLEAN
    /\ files \subseteq Files /\ (files # {} => dir)
    /\ state \in Pids \cup {None} /\ (state # None => "state" \in files)
    /\ call \in [Callers -> Call]
    /\ amiss \subseteq {"create", "start", "destroy", "overlap"}

(* A guest that runs has its directory and its pid in the state file, so    *)
(* that it can be stopped, is not started twice, and is not destroyed        *)
(* without --force (vm.c:51, 88, 114); but for a start that was cut short or  *)
(* could not write the file, or calls that overlapped.                        *)
Recorded ==
    Runs => \/ dir /\ state = domain
            \/ \E c \in Callers : At(c, "pidfile") \/ At(c, "record")
            \/ amiss \cap {"start", "overlap"} # {}

(* A caller about to write "stopped" is right, with the same exceptions: the *)
(* guest it saw has ended or been killed and no other was started.            *)
StopStops ==
    \A c \in Callers : At(c, "stopped") => ~Runs \/ amiss \cap {"start", "overlap"} # {}

(* A guest boots with the configuration it was created with and not the       *)
(* defaults of vm_config_load, but for a create or a destroy that left its    *)
(* work half done, or a call that overlapped.                                 *)
AsCreated == [][\A c \in Callers :
    At(c, "spawn") /\ At(c, "pidfile")' =>
        call[c].cfg \/ ~call[c].alone \/ amiss \cap {"create", "destroy"} # {}]_vars
===============================================================================
