----------------------------- MODULE HookManager -----------------------------
(***************************************************************************)
(* The hook manager of RootView (src/src/impl/kvmi/hook): up to HOOK_MAX    *)
(* named hooks in a slot array, the event registrations they share, the     *)
(* breakpoint that is mid-recoil, the write captures pending per vcpu, and   *)
(* the callbacks that run when a vcpu traps.                                *)
(*                                                                          *)
(* Two parties act.  The client (shell or rv handle) adds and removes hooks *)
(* and polls; a poll runs one callback per queued event.  The guest's vcpus *)
(* execute instructions meanwhile; a vcpu whose instruction traps waits     *)
(* until its event is answered.  What the hypervisor and libvmi do is not   *)
(* in the repository: it is modelled from how the code uses it, and marked  *)
(* external.                                                                *)
(***************************************************************************)
EXTENDS Integers, FiniteSets, Sequences

CONSTANTS
    Vcpus,      \* the guest's vcpus
    Tracked,    \* those whose id is below HOOK_MAX_VCPUS
    Names,      \* hook names
    MidRecoil,  \* whether the client removes a breakpoint that is mid-recoil too
    Vaddrs,     \* addresses a breakpoint may be planted at
    Lost,       \* the addresses among them whose page may stop being writable
    Gfns,       \* guest frames
    Regs,       \* cr0, cr3, cr4, msr_all
    Leaves,     \* cpuid leaves
    AnyLeaf,    \* HOOK_CPUID_ANY_LEAF
    Tables,     \* descriptor tables
    Masks,      \* access masks a caller passes, sets of modes
    Insns,      \* what the guest executes: [at, does], a set of effects
    HookMax,    \* HOOK_MAX
    None        \* no address, no name

ASSUME HookMaxAssumption == HookMax \in Nat \ {0}
ASSUME TrackedAssumption == Tracked \subseteq Vcpus

Slots  == 1..HookMax
Modes  == {"r", "w", "x"}
Kinds  == {"register", "breakpoint", "cpuid", "descriptor", "mem"}
Shared == {"bp", "ss", "cpuid", "desc"}
Pages  == Gfns \cup Regs        \* what a registration of its own can watch
Keys   == Vaddrs \cup Pages \cup Leaves \cup {AnyLeaf} \cup Tables \cup {None}

(* One effect of an instruction that a hook may watch, and what a vcpu can  *)
(* wait on an answer for.                                                   *)
Effect == [type : {"mem"},   key : Gfns,   mode : Modes]
    \cup [type : {"reg"},   key : Regs,   mode : {"w"}]
    \cup [type : {"cpuid"}, key : Leaves, mode : {"x"}]
    \cup [type : {"desc"},  key : Tables, mode : {"r", "w"}]
Event == Effect
    \cup [type : {"int3"},         key : Vaddrs, mode : {"x"}]
    \cup [type : {"none", "step"}, key : {None}, mode : {"x"}]

ASSUME MasksAssumption == Masks \subseteq SUBSET Modes
ASSUME InsnAssumption ==
    Insns \subseteq [at : Vaddrs \cup {None}, does : SUBSET Effect]

Hook == [active : BOOLEAN, name : Names \cup {None}, kind : Kinds, key : Keys,
         access : SUBSET Modes, capture : BOOLEAN, orig : {"own", "cc"}]

VARIABLES
    hooks,      \* hooks[]: the slot array
    count,      \* the slots ever used since the last clear
    on,         \* bp_active, ss_active, cpuid_active, desc_active
    pendingBp,  \* pending_bp: the slot mid-recoil, 0 for NULL
    memPending, \* mem_pending[]: the slot whose capture is pending, 0 if none
    shared,     \* external: the shared events libvmi holds for the manager
    watch,      \* external: the slot whose vmi_event watches a frame or register
    byte,       \* guest memory: the byte at each address, its own or 0xcc
    cur,        \* external: the instruction each vcpu is in the middle of
    stepping,   \* external: single-stepping is on for the vcpu
    event,      \* external: the event each vcpu waits on an answer for
    sent        \* the callbacks the last handler ran, in order

guest == <<cur, stepping, event>>
vars  == <<hooks, count, on, pendingBp, memPending, shared, watch, byte, cur,
           stepping, event, sent>>

NoEvent == [type |-> "none", key |-> None, mode |-> "x"]
Idle    == [busy |-> FALSE, at |-> None, does |-> {}]
(* Nothing reads the other fields of an inactive slot: one value stands for *)
(* whatever an earlier hook left in them.                                   *)
Unused  == [active |-> FALSE, name |-> None, kind |-> "register", key |-> None,
            access |-> {}, capture |-> FALSE, orig |-> "own"]

(***************************************************************************)
(* The lookups.  Each loops over hooks[0 .. count), inactive slots skipped. *)
(***************************************************************************)
Live        == {s \in 1..count : hooks[s].active}
Of(kind)    == {s \in Live : hooks[s].kind = kind}
Named(n)    == {s \in Live : hooks[s].name = n}
BpAt(a)     == {s \in Of("breakpoint") : hooks[s].key = a}
DescHook(t) == {s \in Of("descriptor") : hooks[s].key = t}

(* The first exact match; with none, the last hook that watches every leaf. *)
CpuidHook(l) ==
    LET exact == {s \in Of("cpuid") : hooks[s].key = l}
        wild  == {s \in Of("cpuid") : hooks[s].key = AnyLeaf}
    IN  {s \in exact : \A t \in exact : s <= t}
        \cup {s \in wild : exact = {} /\ \A t \in wild : t <= s}

(* Slot s is the one hook_alloc_slot returns: the first inactive one below  *)
(* count, or the next one if count is below HOOK_MAX.                       *)
Alloc(s) ==
    \/ /\ s <= count /\ ~hooks[s].active
       /\ \A i \in 1..(s - 1) : hooks[i].active
    \/ /\ s = count + 1
       /\ \A i \in 1..count : hooks[i].active

NoSlot == \A s \in Slots : ~Alloc(s)

(* The slot is taken from the array, whether or not the add then succeeds. *)
ClaimLost(s)  == count' = count
ClaimTwice(s) == count' = count + 1
Claim(s) == count' = IF s > count THEN s ELSE count

Filled(n, kind, key) ==
    [active |-> TRUE, name |-> n, kind |-> kind, key |-> key, access |-> {},
     capture |-> FALSE, orig |-> "own"]

(***************************************************************************)
(* Shared registrations.  ok is what the helper returns; vmi_register_event *)
(* may fail, and does when libvmi already holds the event.                  *)
(***************************************************************************)
EnsureOne(x, ok) ==
    \/ x \in on /\ ok /\ UNCHANGED <<on, shared>>
    \/ x \notin on /\ ~ok /\ UNCHANGED <<on, shared>>
    \/ /\ x \notin on /\ x \notin shared /\ ok
       /\ on' = on \cup {x}
       /\ shared' = shared \cup {x}

HookSsEnsure(ok) == EnsureOne("ss", ok)

(* INT3 first, then single-stepping; INT3 is given back if that fails. *)
Int3Kept      == shared \cup {"bp"}
Int3GivenBack == (shared \cup {"bp"}) \ {"bp"}

EnsureBpInfra(ok) ==
    \/ "bp" \in on /\ ok /\ UNCHANGED <<on, shared>>
    \/ "bp" \notin on /\ ~ok /\ UNCHANGED <<on, shared>>
    \/ /\ "bp" \notin on /\ "bp" \notin shared
       /\ "ss" \notin on /\ ~ok
       /\ shared' = Int3GivenBack
       /\ UNCHANGED on
    \/ /\ "bp" \notin on /\ "bp" \notin shared
       /\ "ss" \in on \/ "ss" \notin shared
       /\ ok
       /\ on' = on \cup {"bp", "ss"}
       /\ shared' = shared \cup {"bp", "ss"}

(***************************************************************************)
(* Adding hooks.  A call refused before it changed anything (a name taken,  *)
(* an argument that does not parse) is no step.                             *)
(***************************************************************************)
HookRegAdd(n, r) ==
    /\ Named(n) = {}
    /\ \E s \in Slots :
        /\ Alloc(s) /\ Claim(s)
        /\ \/ UNCHANGED <<hooks, watch>>          \* the register is already watched
           \/ /\ watch[r] = 0
              /\ watch' = [watch EXCEPT ![r] = s]
              /\ hooks' = [hooks EXCEPT ![s] = Filled(n, "register", r)]
    /\ sent' = <<>>
    /\ UNCHANGED <<on, pendingBp, memPending, shared, byte, guest>>

NeverPlanted(a)   == FALSE
AlreadyPlanted(a) == BpAt(a) # {}

HookBpAdd(n, a) ==
    /\ Named(n) = {} /\ ~AlreadyPlanted(a)
    /\ \E ok \in BOOLEAN :
        /\ EnsureBpInfra(ok)
        /\ \/ (~ok \/ NoSlot) /\ UNCHANGED <<hooks, count, byte>>
           \/ /\ ok
              /\ \E s \in Slots :
                  /\ Alloc(s) /\ Claim(s)
                  /\ \/ UNCHANGED <<hooks, byte>> \* the byte cannot be read or written
                     \/ /\ hooks' = [hooks EXCEPT ![s] =
                                [Filled(n, "breakpoint", a) EXCEPT !.orig = byte[a]]]
                        /\ byte' = [byte EXCEPT ![a] = "cc"]
    /\ sent' = <<>>
    /\ UNCHANGED <<pendingBp, memPending, watch, guest>>

HookCpuidAdd(n, l) ==
    /\ Named(n) = {}
    /\ \E ok \in BOOLEAN :
        /\ EnsureOne("cpuid", ok)
        /\ \/ (~ok \/ NoSlot) /\ UNCHANGED <<hooks, count>>
           \/ /\ ok
              /\ \E s \in Slots :
                  /\ Alloc(s) /\ Claim(s)
                  /\ hooks' = [hooks EXCEPT ![s] = Filled(n, "cpuid", l)]
    /\ sent' = <<>>
    /\ UNCHANGED <<pendingBp, memPending, watch, byte, guest>>

HookDescAdd(n, t) ==
    /\ Named(n) = {} /\ DescHook(t) = {}
    /\ \E ok \in BOOLEAN :
        /\ EnsureOne("desc", ok)
        /\ \/ (~ok \/ NoSlot) /\ UNCHANGED <<hooks, count>>
           \/ /\ ok
              /\ \E s \in Slots :
                  /\ Alloc(s) /\ Claim(s)
                  /\ hooks' = [hooks EXCEPT ![s] = Filled(n, "descriptor", t)]
    /\ sent' = <<>>
    /\ UNCHANGED <<pendingBp, memPending, watch, byte, guest>>

(* hook_mem_add translates an address and is this with capture FALSE. *)
HookMemAddGfn(n, g, mask, capture) ==
    /\ Named(n) = {} /\ mask # {}
    /\ \E ok \in BOOLEAN :
        /\ IF capture THEN HookSsEnsure(ok) ELSE ok /\ UNCHANGED <<on, shared>>
        /\ \/ (~ok \/ NoSlot) /\ UNCHANGED <<hooks, count, watch>>
           \/ /\ ok
              /\ \E s \in Slots :
                  /\ Alloc(s) /\ Claim(s)
                  /\ \/ UNCHANGED <<hooks, watch>>   \* the frame is already watched
                     \/ /\ watch[g] = 0
                        /\ watch' = [watch EXCEPT ![g] = s]
                        /\ hooks' = [hooks EXCEPT ![s] =
                               [Filled(n, "mem", g) EXCEPT !.access = mask,
                                                           !.capture = capture]]
    /\ sent' = <<>>
    /\ UNCHANGED <<pendingBp, memPending, byte, guest>>

(***************************************************************************)
(* Removing hooks.                                                          *)
(***************************************************************************)
(* vmi_clear_event on the event of a slot's own. *)
StillWatched(S) == watch
Unwatch(S) == [k \in Pages |-> IF watch[k] \in S THEN 0 ELSE watch[k]]

(* hook_mem_forget: no capture stays pending for the slots S. *)
NotForgotten(S) == memPending
Forget(S) == [v \in Vcpus |-> IF memPending[v] \in S THEN 0 ELSE memPending[v]]

NotRestored(s) == byte
Restored(s)    == [byte EXCEPT ![hooks[s].key] = hooks[s].orig]

StillPending(s) == pendingBp
Unpend(s)       == IF pendingBp = s THEN 0 ELSE pendingBp

(* hook_teardown puts the breakpoint's byte back first, and gives up if it  *)
(* cannot; nothing else is then undone.                                     *)
HookRemove(n) ==
    /\ \E s \in Named(n) :
        /\ hooks' = [hooks EXCEPT ![s] = Unused]
        /\ watch' = Unwatch({s})
        /\ memPending' = Forget({s})
        /\ IF hooks[s].kind = "breakpoint"
              THEN /\ byte' = Restored(s)
                   /\ pendingBp' = Unpend(s)
              ELSE UNCHANGED <<byte, pendingBp>>
    /\ sent' = <<>>
    /\ UNCHANGED <<count, on, shared, guest>>

(* hook_manager_clear and the detach that always follows it.  A byte that   *)
(* cannot be written back is left behind.  External: closing the session    *)
(* answers what is queued and stops the stepping.                           *)
HookManagerClear ==
    /\ \E stuck \in SUBSET Lost :
         byte' = [a \in Vaddrs |->
                    IF BpAt(a) = {} \/ a \in stuck THEN byte[a]
                    ELSE hooks[CHOOSE s \in BpAt(a) : TRUE].orig]
    /\ hooks' = [s \in Slots |-> Unused]
    /\ count' = 0
    /\ pendingBp' = 0
    /\ memPending' = Forget(Live)
    /\ watch' = Unwatch(Live)
    /\ on' = {}
    /\ shared' = shared \ on
    /\ stepping' = [v \in Vcpus |-> FALSE]
    /\ event' = [v \in Vcpus |-> NoEvent]
    /\ sent' = <<>>
    /\ UNCHANGED cur

(***************************************************************************)
(* External: the guest.  A vcpu that is between instructions starts any of  *)
(* Insns; one in the middle goes on with the effects not let through yet.   *)
(***************************************************************************)
Begun == {[busy |-> TRUE, at |-> i.at, does |-> i.does] : i \in Insns}
InHand(v) == IF cur[v].busy THEN {cur[v]} ELSE Begun

Planted(i) == i.at \in Vaddrs /\ byte[i.at] = "cc"

Trapped(e) ==
    \/ /\ e.type = "mem" /\ watch[e.key] # 0
       /\ e.mode \in hooks[watch[e.key]].access
    \/ e.type = "reg" /\ watch[e.key] # 0
    \/ e.type = "cpuid" /\ "cpuid" \in shared
    \/ e.type = "desc" /\ "desc" \in shared

Waits(v, i, e) ==
    /\ cur' = [cur EXCEPT ![v] = i]
    /\ event' = [event EXCEPT ![v] = e]
    /\ UNCHANGED stepping

TrapInt3(v, i) ==
    /\ Planted(i) /\ "bp" \in shared
    /\ Waits(v, i, [type |-> "int3", key |-> i.at, mode |-> "x"])

(* A 0xcc nobody traps any more: the guest takes a #BP of its own. *)
StrayInt3(v, i) ==
    /\ Planted(i) /\ "bp" \notin shared
    /\ Waits(v, Idle, NoEvent)

TrapEffect(v, i) ==
    /\ ~Planted(i)
    /\ \E e \in i.does : Trapped(e) /\ Waits(v, i, e)

Retire(v, i) ==
    /\ ~Planted(i)
    /\ \A e \in i.does : ~Trapped(e)
    /\ Waits(v, Idle, IF stepping[v] /\ "ss" \in shared
                         THEN [NoEvent EXCEPT !.type = "step"] ELSE NoEvent)

Execute(v) ==
    /\ event[v] = NoEvent
    /\ \E i \in InHand(v) :
         \/ TrapInt3(v, i)
         \/ StrayInt3(v, i)
         \/ TrapEffect(v, i)
         \/ Retire(v, i)
    /\ sent' = <<>>
    /\ UNCHANGED <<hooks, count, on, pendingBp, memPending, shared, watch, byte>>

(***************************************************************************)
(* The callbacks.  hook_poll runs one for each queued event, in whatever    *)
(* order the vcpus' events were queued.                                     *)
(***************************************************************************)
Callback(s, v, captured, ok) ==
    [hook |-> s, vcpu |-> v, captured |-> captured, ok |-> ok]

NoToggle(v)   == UNCHANGED stepping
Answer(v)     == event' = [event EXCEPT ![v] = NoEvent]
Toggle(v)     == stepping' = [stepping EXCEPT ![v] = ~@]
LetThrough(v) == cur' = [cur EXCEPT ![v].does = @ \ {event[v]}]

(* What hook_mem_stepped sends: the capture pending on v, finished with the *)
(* window as it now reads, or as it was if it cannot be read.               *)
Finished(v) ==
    IF v \in Tracked /\ memPending[v] # 0 /\ hooks[memPending[v]].active
       THEN {<<Callback(memPending[v], v, TRUE, ok)>> : ok \in BOOLEAN}
       ELSE {<<>>}

OnBpHit(v) ==
    LET a == event[v].key IN
    /\ event[v].type = "int3"
    /\ \/ /\ BpAt(a) = {}                 \* reinjected: the guest's own #BP
          /\ cur' = [cur EXCEPT ![v] = Idle]
          /\ sent' = <<>>
          /\ UNCHANGED <<byte, pendingBp, stepping>>
       \/ /\ BpAt(a) # {} /\ a \in Lost   \* the byte cannot be put back
          /\ sent' = <<>>
          /\ UNCHANGED <<byte, pendingBp, stepping, cur>>
       \/ \E s \in BpAt(a) :
          /\ byte' = Restored(s)
          /\ pendingBp' = s
          /\ sent' = <<Callback(s, v, FALSE, FALSE)>>
          /\ Toggle(v)
          /\ UNCHANGED cur
    /\ Answer(v)
    /\ UNCHANGED <<hooks, count, on, memPending, shared, watch>>

OnMemHit(v) ==
    LET s        == watch[event[v].key]
        captured == hooks[s].capture /\ event[v].mode = "w"
    IN
    /\ event[v].type = "mem" /\ s # 0
    /\ IF captured /\ "ss" \in on /\ v \in Tracked
          THEN /\ sent' \in Finished(v)
               /\ memPending' = [memPending EXCEPT ![v] = s]
               /\ Toggle(v)
          ELSE /\ sent' = <<Callback(s, v, captured, FALSE)>>
               /\ UNCHANGED <<memPending, stepping>>
    /\ LetThrough(v)
    /\ Answer(v)
    /\ UNCHANGED <<hooks, count, on, pendingBp, shared, watch, byte>>

OnRegHit(v) ==
    /\ event[v].type = "reg" /\ watch[event[v].key] # 0
    /\ sent' = <<Callback(watch[event[v].key], v, FALSE, FALSE)>>
    /\ LetThrough(v)
    /\ Answer(v)
    /\ UNCHANGED <<hooks, count, on, pendingBp, memPending, shared, watch, byte, stepping>>

(* External: the hook was removed while its event was queued; libvmi has    *)
(* no callback to run.                                                      *)
Unclaimed(v) ==
    /\ event[v].type \in {"mem", "reg"} /\ watch[event[v].key] = 0
    /\ sent' = <<>>
    /\ LetThrough(v)
    /\ Answer(v)
    /\ UNCHANGED <<hooks, count, on, pendingBp, memPending, shared, watch, byte, stepping>>

(* on_cpuid_hit and on_desc_hit differ in the lookup only. *)
OnSharedHit(v, found) ==
    /\ \/ found = {} /\ sent' = <<>>
       \/ \E s \in found : sent' = <<Callback(s, v, FALSE, FALSE)>>
    /\ LetThrough(v)
    /\ Answer(v)
    /\ UNCHANGED <<hooks, count, on, pendingBp, memPending, shared, watch, byte, stepping>>

OnCpuidHit(v) == event[v].type = "cpuid" /\ OnSharedHit(v, CpuidHook(event[v].key))
OnDescHit(v)  == event[v].type = "desc" /\ OnSharedHit(v, DescHook(event[v].key))

NotReplanted == pendingBp' = 0 /\ UNCHANGED byte
NotDone(v)   == memPending
Done(v)      == [memPending EXCEPT ![v] = 0]

(* hook_bp_stepped, which looks at no vcpu, then hook_mem_stepped. *)
HookBpStepped ==
    IF pendingBp = 0 THEN UNCHANGED <<byte, pendingBp>>
    ELSE LET a == hooks[pendingBp].key IN
         /\ \/ byte' = [byte EXCEPT ![a] = "cc"]
            \/ a \in Lost /\ UNCHANGED byte
         /\ pendingBp' = 0

OnSingleStep(v) ==
    /\ event[v].type = "step"
    /\ HookBpStepped
    /\ sent' \in Finished(v)
    /\ memPending' = Done(v)
    /\ Toggle(v)
    /\ Answer(v)
    /\ UNCHANGED <<hooks, count, on, shared, watch, cur>>

HookPoll(v) ==
    \/ OnBpHit(v)
    \/ OnMemHit(v)
    \/ OnRegHit(v)
    \/ Unclaimed(v)
    \/ OnCpuidHit(v)
    \/ OnDescHit(v)
    \/ OnSingleStep(v)

-----------------------------------------------------------------------------
(* hook_manager_init on an attached session, in a guest nobody has touched. *)
Init ==
    /\ hooks = [s \in Slots |-> Unused]
    /\ count = 0 /\ on = {} /\ pendingBp = 0
    /\ memPending = [v \in Vcpus |-> 0]
    /\ shared = {}
    /\ watch = [k \in Pages |-> 0]
    /\ byte = [a \in Vaddrs |-> "own"]
    /\ cur = [v \in Vcpus |-> Idle]
    /\ stepping = [v \in Vcpus |-> FALSE]
    /\ event = [v \in Vcpus |-> NoEvent]
    /\ sent = <<>>

Client ==
    \/ \E n \in Names :
        \/ \E r \in Regs : HookRegAdd(n, r)
        \/ \E a \in Vaddrs : HookBpAdd(n, a)
        \/ \E l \in Leaves \cup {AnyLeaf} : HookCpuidAdd(n, l)
        \/ \E t \in Tables : HookDescAdd(n, t)
        \/ \E g \in Gfns, m \in Masks, c \in BOOLEAN : HookMemAddGfn(n, g, m, c)
        \/ (MidRecoil \/ pendingBp \notin Named(n)) /\ HookRemove(n)
    \/ HookManagerClear

Next == Client \/ \E v \in Vcpus : HookPoll(v) \/ Execute(v)

Spec == Init /\ [][Next]_vars

(* The client keeps polling, and a vcpu that waits on nothing executes. *)
FairSpec ==
    /\ Spec
    /\ \A v \in Vcpus : WF_vars(HookPoll(v)) /\ WF_vars(Execute(v))

-----------------------------------------------------------------------------
(***************************************************************************)
(* Properties.                                                              *)
(***************************************************************************)
(* Every variable has its type: the arrays stay within HOOK_MAX slots, the  *)
(* slot numbers kept in pending_bp, mem_pending and libvmi are slots.       *)
TypeOK ==
    /\ hooks \in [Slots -> Hook]
    /\ count \in 0..HookMax
    /\ on \in SUBSET Shared /\ shared \in SUBSET Shared
    /\ pendingBp \in 0..HookMax
    /\ memPending \in [Vcpus -> 0..HookMax]
    /\ watch \in [Pages -> 0..HookMax]
    /\ byte \in [Vaddrs -> {"own", "cc"}]
    /\ cur \in [Vcpus -> [busy : BOOLEAN, at : Vaddrs \cup {None}, does : SUBSET Effect]]
    /\ stepping \in [Vcpus -> BOOLEAN]
    /\ event \in [Vcpus -> Event]
    /\ sent \in Seq([hook : Slots, vcpu : Vcpus, captured : BOOLEAN, ok : BOOLEAN])

(* The lookups, which stop at count, see every active hook (hook.c:9-43),   *)
(* and what they look for is unique: a name, a breakpoint's address, a      *)
(* descriptor table.                                                        *)
HooksFindable ==
    /\ \A s \in Slots : hooks[s].active => s <= count
    /\ \A s, t \in Live : hooks[s].name = hooks[t].name => s = t
    /\ \A s, t \in Of("breakpoint") : hooks[s].key = hooks[t].key => s = t
    /\ \A s, t \in Of("descriptor") : hooks[s].key = hooks[t].key => s = t

(* libvmi watches a frame or a register for slot s exactly when the hook in *)
(* s is active and of that kind: its pointer into a slot (hook_types.h:109) *)
(* never outlives the hook, however slots are freed, reused and cleared.    *)
OwnRegistrations ==
    \A k \in Pages, s \in Slots :
        watch[k] = s <=> /\ hooks[s].active
                         /\ hooks[s].kind \in {"mem", "register"}
                         /\ hooks[s].key = k

(* The manager's flags are what libvmi holds, also after an add that failed *)
(* half way (hook_bp.c:53-75), and every active hook has what it needs.     *)
SharedRegistrations ==
    /\ on = shared
    /\ "bp" \in on => "ss" \in on
    /\ Of("breakpoint") # {} => "bp" \in on
    /\ Of("cpuid") # {} => "cpuid" \in on
    /\ Of("descriptor") # {} => "desc" \in on
    /\ (\E s \in Of("mem") : hooks[s].capture) => "ss" \in on

(* What libvmi has registered for the manager, watch by watch and shared,   *)
(* is what the slots and flags say.                                         *)
Registered == OwnRegistrations /\ SharedRegistrations

(* A pending capture is one of an active, capturing mem hook: removing the  *)
(* hook between the write and the step leaves no dangling mem_pending       *)
(* (hook_mem.c:72-75), also when its slot is taken by another hook.         *)
PendingCaptures ==
    \A v \in Vcpus : memPending[v] # 0 =>
        /\ v \in Tracked
        /\ memPending[v] \in Of("mem")
        /\ hooks[memPending[v]].capture

(* pending_bp is an active breakpoint whose own byte is in place.           *)
PendingBreakpoint ==
    pendingBp # 0 => /\ pendingBp \in Of("breakpoint")
                     /\ byte[hooks[pendingBp].key] = hooks[pendingBp].orig

(* No 0xcc without a breakpoint that will take it out, and none taken for   *)
(* the guest's own byte, unless the page was lost when the byte was to be   *)
(* restored (hook.c:116 ignores that failure).                              *)
OwnBytes ==
    \A a \in Vaddrs \ Lost :
        /\ byte[a] = "cc" => BpAt(a) # {}
        /\ \A s \in BpAt(a) : hooks[s].orig = "own"

(* A queued INT3 is given back to the guest (hook_bp.c:18) only when the    *)
(* breakpoint was removed meanwhile; the guest then runs a #BP it has no    *)
(* 0xcc for, never one whose 0xcc is still there (on a page not lost).      *)
ReinjectsAfterRemovalOnly ==
    [][\A v \in Vcpus :
        /\ event[v].type = "int3" /\ event'[v] = NoEvent
        /\ event[v].key \notin Lost /\ sent' = <<>> /\ "bp" \in on'
        => byte[event[v].key] = "own"]_vars

Unplanted(s) ==
    /\ hooks[s].active /\ hooks[s].kind = "breakpoint"
    /\ hooks[s].key \notin Lost /\ byte[hooks[s].key] # "cc"

(* An active breakpoint that is not planted is the one mid-recoil           *)
(* (hook_types.h:118), so a step will plant it again.                       *)
UnplantedIsPending == \A s \in Slots : Unplanted(s) => pendingBp = s

(* What waits for a step gets one: whatever is pending is that of a vcpu    *)
(* single-stepping was toggled on for, never off.                           *)
PendingIsStepping ==
    /\ pendingBp # 0 => \E v \in Vcpus : stepping[v]
    /\ \A v \in Vcpus : memPending[v] # 0 => stepping[v]

(* A breakpoint that was hit is planted again, if it is not removed.        *)
Rearmed == \A s \in Slots : Unplanted(s) ~> ~Unplanted(s)

(* A capture reported complete was finished by the step of its vcpu:        *)
(* after_ok is set for no write the vcpu was not stepped over.              *)
CompleteMeansStepped ==
    [][\A i \in 1..Len(sent') :
        sent'[i].captured /\ sent'[i].ok => event[sent'[i].vcpu].type = "step"]_vars

=============================================================================
