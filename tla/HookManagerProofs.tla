-------------------------- MODULE HookManagerProofs --------------------------
(***************************************************************************)
(* Proofs about the hook manager, for any number of vcpus, hooks, names and *)
(* addresses, and any guest program.                                        *)
(***************************************************************************)
EXTENDS HookManager, TLAPS

Sent == [hook : Slots, vcpu : Vcpus, captured : BOOLEAN, ok : BOOLEAN]

-----------------------------------------------------------------------------
(* Facts about the operators.                                               *)

(* What the lookups find are slots of active hooks.                         *)
LEMMA LiveSlots ==
    ASSUME TypeOK
    PROVE  /\ Live \subseteq Slots
           /\ \A k : Of(k) \subseteq Live
           /\ \A n : Named(n) \subseteq Live
           /\ \A a : BpAt(a) \subseteq Live
           /\ \A t : DescHook(t) \subseteq Live
           /\ \A l : CpuidHook(l) \subseteq Live
  <1>1. Live \subseteq Slots
    BY HookMaxAssumption DEF TypeOK, Live, Slots
  <1>2. \A k : Of(k) \subseteq Live
    BY DEF Of
  <1>3. \A n : Named(n) \subseteq Live
    BY DEF Named
  <1>4. \A a : BpAt(a) \subseteq Live
    BY <1>2 DEF BpAt
  <1>5. \A t : DescHook(t) \subseteq Live
    BY <1>2 DEF DescHook
  <1>6. \A l : CpuidHook(l) \subseteq Live
    BY <1>2 DEF CpuidHook
  <1> QED
    BY <1>1, <1>2, <1>3, <1>4, <1>5, <1>6

(* A slot filled in by an add is a hook.                                    *)
LEMMA FilledType ==
    ASSUME NEW n \in Names, NEW kind \in Kinds, NEW key \in Keys
    PROVE  /\ Filled(n, kind, key) \in Hook
           /\ \A m \in SUBSET Modes, c \in BOOLEAN :
                [Filled(n, kind, key) EXCEPT !.access = m, !.capture = c] \in Hook
           /\ \A o \in {"own", "cc"} : [Filled(n, kind, key) EXCEPT !.orig = o] \in Hook
  BY DEF Filled, Hook

Insn == [busy : BOOLEAN, at : Vaddrs \cup {None}, does : SUBSET Effect]

LEMMA ConstantTypes ==
    /\ Unused \in Hook
    /\ NoEvent \in Event
    /\ [NoEvent EXCEPT !.type = "step"] \in Event
    /\ Idle \in Insn
    /\ Begun \subseteq Insn
  <1>1. Unused \in Hook
    BY DEF Unused, Hook, Kinds, Keys
  <1>2. NoEvent \in Event /\ [NoEvent EXCEPT !.type = "step"] \in Event
    BY DEF NoEvent, Event
  <1>3. Idle \in Insn
    BY DEF Idle, Insn
  <1>4. ASSUME NEW i \in Insns
        PROVE  [busy |-> TRUE, at |-> i.at, does |-> i.does] \in Insn
    BY InsnAssumption DEF Insn
  <1> QED
    BY <1>1, <1>2, <1>3, <1>4 DEF Begun

(* An event's key is what its type says.                                    *)
LEMMA EventKeys ==
    ASSUME NEW e \in Event
    PROVE  /\ e.type = "mem" => e \in Effect /\ e.key \in Gfns
           /\ e.type = "reg" => e \in Effect /\ e.key \in Regs
           /\ e.type = "int3" => e.key \in Vaddrs
  BY DEF Event, Effect

-----------------------------------------------------------------------------
(* TypeOK, one lemma for each step.                                         *)

LEMMA TypeInit == Init => TypeOK
  BY HookMaxAssumption, ConstantTypes DEF Init, TypeOK, Shared, Slots, Insn

LEMMA ClaimType ==
    ASSUME TypeOK, NEW s \in Slots, Claim(s) PROVE count' \in 0..HookMax
  BY HookMaxAssumption DEF TypeOK, Claim, Slots

LEMMA InfraType ==
    ASSUME TypeOK, NEW ok \in BOOLEAN,
           EnsureBpInfra(ok) \/ (\E x \in Shared : EnsureOne(x, ok)) \/ UNCHANGED <<on, shared>>
    PROVE  on' \in SUBSET Shared /\ shared' \in SUBSET Shared
  BY DEF TypeOK, EnsureBpInfra, EnsureOne, Shared, Int3GivenBack

LEMMA HookWrite ==
    ASSUME TypeOK, NEW s \in Slots, NEW h \in Hook,
           UNCHANGED hooks \/ hooks' = [hooks EXCEPT ![s] = h]
    PROVE  hooks' \in [Slots -> Hook]
  BY DEF TypeOK

LEMMA WatchWrite ==
    ASSUME TypeOK, NEW s \in Slots, NEW k \in Pages,
           UNCHANGED watch \/ watch' = [watch EXCEPT ![k] = s]
    PROVE  watch' \in [Pages -> 0..HookMax]
  <1>1. s \in 0..HookMax
    BY HookMaxAssumption DEF Slots
  <1> QED
    BY <1>1 DEF TypeOK

LEMMA SentType ==
    /\ <<>> \in Seq(Sent)
    /\ \A s \in Slots, v \in Vcpus, captured, ok \in BOOLEAN :
         <<Callback(s, v, captured, ok)>> \in Seq(Sent)
  BY DEF Callback, Sent

LEMMA TypeRegAdd ==
    ASSUME TypeOK, NEW n \in Names, NEW r \in Regs, HookRegAdd(n, r) PROVE TypeOK'
  <1>1. r \in Keys /\ r \in Pages
    BY DEF Keys, Pages
  <1>2. PICK s \in Slots : /\ Claim(s)
                           /\ \/ UNCHANGED <<hooks, watch>>
                              \/ /\ watch' = [watch EXCEPT ![r] = s]
                                 /\ hooks' = [hooks EXCEPT ![s] = Filled(n, "register", r)]
    BY DEF HookRegAdd
  <1>3. Filled(n, "register", r) \in Hook
    BY <1>1, FilledType DEF Kinds
  <1>4. hooks' \in [Slots -> Hook] /\ watch' \in [Pages -> 0..HookMax]
    BY <1>1, <1>2, <1>3, HookWrite, WatchWrite
  <1>5. count' \in 0..HookMax
    BY <1>2, ClaimType
  <1> QED
    BY <1>4, <1>5 DEF TypeOK, HookRegAdd, guest

LEMMA TypeBpAdd ==
    ASSUME TypeOK, NEW n \in Names, NEW a \in Vaddrs, HookBpAdd(n, a) PROVE TypeOK'
  <1> DEFINE new == [Filled(n, "breakpoint", a) EXCEPT !.orig = byte[a]]
  <1>1. new \in Hook
    <2>1. byte[a] \in {"own", "cc"}
      BY DEF TypeOK
    <2> QED
      BY <2>1, FilledType DEF Kinds, Keys
  <1>2. PICK ok \in BOOLEAN :
            /\ EnsureBpInfra(ok)
            /\ \/ UNCHANGED <<hooks, count, byte>>
               \/ \E s \in Slots :
                    /\ Claim(s)
                    /\ \/ UNCHANGED <<hooks, byte>>
                       \/ /\ hooks' = [hooks EXCEPT ![s] = new]
                          /\ byte' = [byte EXCEPT ![a] = "cc"]
    BY DEF HookBpAdd
  <1> HIDE DEF new
  <1>3. on' \in SUBSET Shared /\ shared' \in SUBSET Shared
    BY <1>2, InfraType
  <1>4. byte' \in [Vaddrs -> {"own", "cc"}]
    BY <1>2 DEF TypeOK
  <1>5. hooks' \in [Slots -> Hook] /\ count' \in 0..HookMax
    <2>1. CASE UNCHANGED <<hooks, count, byte>>
      BY <2>1 DEF TypeOK
    <2>2. CASE \E s \in Slots :
                 Claim(s) /\ (UNCHANGED hooks \/ hooks' = [hooks EXCEPT ![s] = new])
      BY <1>1, <2>2, HookWrite, ClaimType
    <2> QED
      BY <1>2, <2>1, <2>2
  <1> QED
    BY <1>3, <1>4, <1>5 DEF TypeOK, HookBpAdd, guest

LEMMA TypeCpuidAdd ==
    ASSUME TypeOK, NEW n \in Names, NEW l \in Leaves \cup {AnyLeaf}, HookCpuidAdd(n, l)
    PROVE  TypeOK'
  <1>1. Filled(n, "cpuid", l) \in Hook
    BY FilledType DEF Kinds, Keys
  <1>2. PICK ok \in BOOLEAN :
            /\ EnsureOne("cpuid", ok)
            /\ \/ UNCHANGED <<hooks, count>>
               \/ \E s \in Slots :
                    Claim(s) /\ hooks' = [hooks EXCEPT ![s] = Filled(n, "cpuid", l)]
    BY DEF HookCpuidAdd
  <1>3. on' \in SUBSET Shared /\ shared' \in SUBSET Shared
    BY <1>2, InfraType DEF Shared
  <1>4. hooks' \in [Slots -> Hook] /\ count' \in 0..HookMax
    <2>1. CASE UNCHANGED <<hooks, count>>
      BY <2>1 DEF TypeOK
    <2>2. CASE \E s \in Slots :
                 Claim(s) /\ hooks' = [hooks EXCEPT ![s] = Filled(n, "cpuid", l)]
      BY <1>1, <2>2, HookWrite, ClaimType
    <2> QED
      BY <1>2, <2>1, <2>2
  <1> QED
    BY <1>3, <1>4 DEF TypeOK, HookCpuidAdd, guest

LEMMA TypeDescAdd ==
    ASSUME TypeOK, NEW n \in Names, NEW t \in Tables, HookDescAdd(n, t) PROVE TypeOK'
  <1>1. Filled(n, "descriptor", t) \in Hook
    BY FilledType DEF Kinds, Keys
  <1>2. PICK ok \in BOOLEAN :
            /\ EnsureOne("desc", ok)
            /\ \/ UNCHANGED <<hooks, count>>
               \/ \E s \in Slots :
                    Claim(s) /\ hooks' = [hooks EXCEPT ![s] = Filled(n, "descriptor", t)]
    BY DEF HookDescAdd
  <1>3. on' \in SUBSET Shared /\ shared' \in SUBSET Shared
    BY <1>2, InfraType DEF Shared
  <1>4. hooks' \in [Slots -> Hook] /\ count' \in 0..HookMax
    <2>1. CASE UNCHANGED <<hooks, count>>
      BY <2>1 DEF TypeOK
    <2>2. CASE \E s \in Slots :
                 Claim(s) /\ hooks' = [hooks EXCEPT ![s] = Filled(n, "descriptor", t)]
      BY <1>1, <2>2, HookWrite, ClaimType
    <2> QED
      BY <1>2, <2>1, <2>2
  <1> QED
    BY <1>3, <1>4 DEF TypeOK, HookDescAdd, guest

LEMMA TypeMemAdd ==
    ASSUME TypeOK, NEW n \in Names, NEW g \in Gfns, NEW m \in Masks, NEW c \in BOOLEAN,
           HookMemAddGfn(n, g, m, c)
    PROVE  TypeOK'
  <1> DEFINE new == [Filled(n, "mem", g) EXCEPT !.access = m, !.capture = c]
  <1>1. new \in Hook
    <2>1. m \in SUBSET Modes
      BY MasksAssumption
    <2> QED
      BY <2>1, FilledType DEF Kinds, Keys, Pages
  <1>2. PICK ok \in BOOLEAN :
            /\ HookSsEnsure(ok) \/ UNCHANGED <<on, shared>>
            /\ \/ UNCHANGED <<hooks, count, watch>>
               \/ \E s \in Slots :
                    /\ Claim(s)
                    /\ \/ UNCHANGED <<hooks, watch>>
                       \/ /\ watch' = [watch EXCEPT ![g] = s]
                          /\ hooks' = [hooks EXCEPT ![s] = new]
    BY DEF HookMemAddGfn
  <1> HIDE DEF new
  <1>3. on' \in SUBSET Shared /\ shared' \in SUBSET Shared
    BY <1>2, InfraType DEF Shared, HookSsEnsure
  <1>4. /\ hooks' \in [Slots -> Hook] /\ count' \in 0..HookMax
        /\ watch' \in [Pages -> 0..HookMax]
    <2>1. CASE UNCHANGED <<hooks, count, watch>>
      BY <2>1 DEF TypeOK
    <2>2. CASE \E s \in Slots :
                 /\ Claim(s)
                 /\ UNCHANGED hooks \/ hooks' = [hooks EXCEPT ![s] = new]
                 /\ UNCHANGED watch \/ watch' = [watch EXCEPT ![g] = s]
      BY <1>1, <2>2, HookWrite, WatchWrite, ClaimType DEF Pages
    <2> QED
      BY <1>2, <2>1, <2>2
  <1> QED
    BY <1>3, <1>4 DEF TypeOK, HookMemAddGfn, guest

LEMMA TypeRemove ==
    ASSUME TypeOK, NEW n \in Names, HookRemove(n) PROVE TypeOK'
  <1>1. PICK s \in Named(n) :
            /\ hooks' = [hooks EXCEPT ![s] = Unused]
            /\ watch' = Unwatch({s})
            /\ memPending' = Forget({s})
            /\ byte' \in {byte, Restored(s)}
            /\ pendingBp' \in {pendingBp, 0}
    BY DEF HookRemove, Unpend
  <1>2. s \in Slots
    BY LiveSlots
  <1>3. hooks' \in [Slots -> Hook]
    BY <1>1, <1>2, HookWrite, ConstantTypes
  <1>4. watch' \in [Pages -> 0..HookMax] /\ memPending' \in [Vcpus -> 0..HookMax]
    BY <1>1, HookMaxAssumption DEF TypeOK, Unwatch, Forget
  <1>5. byte' \in [Vaddrs -> {"own", "cc"}]
    BY <1>1, <1>2 DEF TypeOK, Restored, Hook
  <1>6. pendingBp' \in 0..HookMax
    BY <1>1, HookMaxAssumption DEF TypeOK
  <1>7. UNCHANGED <<count, on, shared, cur, stepping, event>> /\ sent' \in Seq(Sent)
    BY SentType DEF HookRemove, guest
  <1> QED
    BY <1>3, <1>4, <1>5, <1>6, <1>7 DEF TypeOK, Sent

LEMMA TypeClear ==
    ASSUME TypeOK, HookManagerClear PROVE TypeOK'
  <1>1. byte' \in [Vaddrs -> {"own", "cc"}]
    <2>1. ASSUME NEW a \in Vaddrs, BpAt(a) # {}
          PROVE  hooks[CHOOSE s \in BpAt(a) : TRUE].orig \in {"own", "cc"}
      BY <2>1, LiveSlots DEF TypeOK, Hook
    <2> QED
      BY <2>1 DEF HookManagerClear, TypeOK
  <1>2. hooks' \in [Slots -> Hook]
    BY ConstantTypes DEF HookManagerClear
  <1>3. watch' \in [Pages -> 0..HookMax] /\ memPending' \in [Vcpus -> 0..HookMax]
    BY HookMaxAssumption DEF HookManagerClear, TypeOK, Unwatch, Forget
  <1>4. event' \in [Vcpus -> Event] /\ stepping' \in [Vcpus -> BOOLEAN]
    BY ConstantTypes DEF HookManagerClear
  <1>5. count' \in 0..HookMax /\ pendingBp' \in 0..HookMax
    BY HookMaxAssumption DEF HookManagerClear
  <1>6. on' \in SUBSET Shared /\ shared' \in SUBSET Shared
    BY DEF HookManagerClear, TypeOK
  <1>7. sent' \in Seq(Sent)
    BY SentType DEF HookManagerClear
  <1> QED
    BY <1>1, <1>2, <1>3, <1>4, <1>5, <1>6, <1>7 DEF HookManagerClear, TypeOK, Sent

LEMMA TypeExecute ==
    ASSUME TypeOK, NEW v \in Vcpus, Execute(v) PROVE TypeOK'
  <1>1. PICK i \in InHand(v) : TrapInt3(v, i) \/ StrayInt3(v, i) \/ TrapEffect(v, i) \/ Retire(v, i)
    BY DEF Execute
  <1>2. i \in Insn
    BY ConstantTypes DEF InHand, TypeOK, Insn
  <1>3. ASSUME NEW j \in Insn, NEW e \in Event, Waits(v, j, e)
        PROVE  /\ cur' \in [Vcpus -> Insn] /\ event' \in [Vcpus -> Event]
               /\ stepping' \in [Vcpus -> BOOLEAN]
    BY <1>3 DEF Waits, TypeOK, Insn
  <1>4. /\ cur' \in [Vcpus -> Insn] /\ event' \in [Vcpus -> Event]
        /\ stepping' \in [Vcpus -> BOOLEAN]
    <2>1. CASE TrapInt3(v, i)
      <3>1. [type |-> "int3", key |-> i.at, mode |-> "x"] \in Event
        BY <2>1 DEF TrapInt3, Planted, Event
      <3> QED
        BY <1>2, <1>3, <2>1, <3>1 DEF TrapInt3
    <2>2. CASE StrayInt3(v, i)
      BY <1>3, <2>2, ConstantTypes DEF StrayInt3
    <2>3. CASE TrapEffect(v, i)
      <3>1. \A e \in i.does : e \in Event
        BY <1>2 DEF Insn, Event
      <3> QED
        BY <1>2, <1>3, <2>3, <3>1 DEF TrapEffect
    <2>4. CASE Retire(v, i)
      <3> DEFINE next == IF stepping[v] /\ "ss" \in shared
                            THEN [NoEvent EXCEPT !.type = "step"] ELSE NoEvent
      <3>1. next \in Event
        BY ConstantTypes
      <3>2. Waits(v, Idle, next)
        BY <2>4 DEF Retire
      <3> HIDE DEF next
      <3> QED
        BY <1>3, <3>1, <3>2, ConstantTypes
    <2> QED
      BY <1>1, <2>1, <2>2, <2>3, <2>4
  <1>5. sent' \in Seq(Sent)
    BY SentType DEF Execute
  <1> QED
    BY <1>4, <1>5 DEF TypeOK, Execute, Insn, Sent

(* Answering an event, with or without a toggle, keeps the guest's types.   *)
LEMMA AnswerType ==
    ASSUME TypeOK, NEW v \in Vcpus, Answer(v)
    PROVE  event' \in [Vcpus -> Event]
  BY ConstantTypes DEF Answer, TypeOK

LEMMA ToggleType ==
    ASSUME TypeOK, NEW v \in Vcpus, Toggle(v) \/ UNCHANGED stepping
    PROVE  stepping' \in [Vcpus -> BOOLEAN]
  BY DEF Toggle, TypeOK

LEMMA CurType ==
    ASSUME TypeOK, NEW v \in Vcpus,
           LetThrough(v) \/ UNCHANGED cur \/ cur' = [cur EXCEPT ![v] = Idle]
    PROVE  cur' \in [Vcpus -> Insn]
  <1>1. ASSUME NEW i \in Insn, NEW e
        PROVE  [i EXCEPT !.does = i.does \ {e}] \in Insn
    BY DEF Insn
  <1>2. cur \in [Vcpus -> Insn]
    BY DEF TypeOK, Insn
  <1>3. CASE LetThrough(v)
    <2>1. cur' = [cur EXCEPT ![v] = [cur[v] EXCEPT !.does = cur[v].does \ {event[v]}]]
      BY <1>3 DEF LetThrough
    <2> QED
      BY <1>1, <1>2, <2>1
  <1> QED
    BY <1>2, <1>3, ConstantTypes

LEMMA FinishedType ==
    ASSUME TypeOK, NEW v \in Vcpus PROVE Finished(v) \subseteq Seq(Sent)
  <1>1. memPending[v] # 0 => memPending[v] \in Slots
    BY HookMaxAssumption DEF TypeOK, Slots
  <1> QED
    BY <1>1, SentType DEF Finished

LEMMA TypeBpHit ==
    ASSUME TypeOK, NEW v \in Vcpus, OnBpHit(v) PROVE TypeOK'
  <1>1. \/ UNCHANGED <<byte, pendingBp>> /\ sent' = <<>>
        \/ \E s \in BpAt(event[v].key) :
             /\ byte' = Restored(s) /\ pendingBp' = s
             /\ sent' = <<Callback(s, v, FALSE, FALSE)>>
    BY DEF OnBpHit
  <1>2. /\ byte' \in [Vaddrs -> {"own", "cc"}] /\ pendingBp' \in 0..HookMax
        /\ sent' \in Seq(Sent)
    <2>1. CASE UNCHANGED <<byte, pendingBp>> /\ sent' = <<>>
      BY <2>1, SentType DEF TypeOK
    <2>2. ASSUME NEW s \in BpAt(event[v].key), byte' = Restored(s), pendingBp' = s,
                 sent' = <<Callback(s, v, FALSE, FALSE)>>
          PROVE  /\ byte' \in [Vaddrs -> {"own", "cc"}] /\ pendingBp' \in 0..HookMax
                 /\ sent' \in Seq(Sent)
      <3>1. s \in Slots
        BY LiveSlots
      <3>2. pendingBp' \in 0..HookMax
        BY <2>2, <3>1, HookMaxAssumption DEF Slots
      <3> QED
        BY <2>2, <3>1, <3>2, SentType DEF TypeOK, Restored, Hook
    <2> QED
      BY <1>1, <2>1, <2>2
  <1>3. /\ event' \in [Vcpus -> Event] /\ stepping' \in [Vcpus -> BOOLEAN]
        /\ cur' \in [Vcpus -> Insn]
    BY AnswerType, ToggleType, CurType DEF OnBpHit
  <1> QED
    BY <1>2, <1>3 DEF TypeOK, OnBpHit, Sent, Insn

(* The slot a queued mem or reg event is for. *)
LEMMA WatchedSlot ==
    ASSUME TypeOK, NEW v \in Vcpus, event[v].type \in {"mem", "reg"},
           watch[event[v].key] # 0
    PROVE  watch[event[v].key] \in Slots
  <1>1. event[v].key \in Pages
    BY EventKeys DEF TypeOK, Pages
  <1> QED
    BY <1>1, HookMaxAssumption DEF TypeOK, Slots

LEMMA TypeMemHit ==
    ASSUME TypeOK, NEW v \in Vcpus, OnMemHit(v) PROVE TypeOK'
  <1> DEFINE s == watch[event[v].key]
             captured == hooks[s].capture /\ event[v].mode = "w"
  <1>1. s \in Slots
    BY WatchedSlot DEF OnMemHit
  <1>2. captured \in BOOLEAN
    OBVIOUS
  <1>3. sent' \in Seq(Sent) /\ memPending' \in [Vcpus -> 0..HookMax]
    <2>1. CASE sent' \in Finished(v) /\ memPending' = [memPending EXCEPT ![v] = s]
      BY <1>1, <2>1, FinishedType, HookMaxAssumption DEF TypeOK, Slots
    <2>2. CASE sent' = <<Callback(s, v, captured, FALSE)>> /\ UNCHANGED memPending
      BY <1>1, <1>2, <2>2, SentType DEF TypeOK
    <2> QED
      BY <2>1, <2>2 DEF OnMemHit
  <1>4. /\ event' \in [Vcpus -> Event] /\ stepping' \in [Vcpus -> BOOLEAN]
        /\ cur' \in [Vcpus -> Insn]
    BY AnswerType, ToggleType, CurType DEF OnMemHit
  <1> QED
    BY <1>3, <1>4 DEF TypeOK, OnMemHit, Sent, Insn

LEMMA TypeRegHit ==
    ASSUME TypeOK, NEW v \in Vcpus, OnRegHit(v) PROVE TypeOK'
  <1>1. sent' \in Seq(Sent)
    BY WatchedSlot, SentType DEF OnRegHit
  <1>2. event' \in [Vcpus -> Event] /\ cur' \in [Vcpus -> Insn]
    BY AnswerType, CurType DEF OnRegHit
  <1> QED
    BY <1>1, <1>2 DEF TypeOK, OnRegHit, Sent, Insn

LEMMA TypeUnclaimed ==
    ASSUME TypeOK, NEW v \in Vcpus, Unclaimed(v) PROVE TypeOK'
  <1>1. sent' \in Seq(Sent)
    BY SentType DEF Unclaimed
  <1>2. event' \in [Vcpus -> Event] /\ cur' \in [Vcpus -> Insn]
    BY AnswerType, CurType DEF Unclaimed
  <1> QED
    BY <1>1, <1>2 DEF TypeOK, Unclaimed, Sent, Insn

LEMMA TypeSharedHit ==
    ASSUME TypeOK, NEW v \in Vcpus, NEW found \in SUBSET Slots, OnSharedHit(v, found)
    PROVE  TypeOK'
  <1>1. sent' \in Seq(Sent)
    BY SentType DEF OnSharedHit
  <1>2. event' \in [Vcpus -> Event] /\ cur' \in [Vcpus -> Insn]
    BY AnswerType, CurType DEF OnSharedHit
  <1> QED
    BY <1>1, <1>2 DEF TypeOK, OnSharedHit, Sent, Insn

LEMMA TypeSingleStep ==
    ASSUME TypeOK, NEW v \in Vcpus, OnSingleStep(v) PROVE TypeOK'
  <1>1. byte' \in [Vaddrs -> {"own", "cc"}] /\ pendingBp' \in 0..HookMax
    BY HookMaxAssumption DEF OnSingleStep, HookBpStepped, TypeOK
  <1>2. memPending' \in [Vcpus -> 0..HookMax]
    BY HookMaxAssumption DEF OnSingleStep, Done, TypeOK
  <1>3. sent' \in Seq(Sent)
    BY FinishedType DEF OnSingleStep
  <1>4. event' \in [Vcpus -> Event] /\ stepping' \in [Vcpus -> BOOLEAN]
    BY AnswerType, ToggleType DEF OnSingleStep
  <1> QED
    BY <1>1, <1>2, <1>3, <1>4 DEF TypeOK, OnSingleStep, Sent

LEMMA TypePoll ==
    ASSUME TypeOK, NEW v \in Vcpus, HookPoll(v) PROVE TypeOK'
  <1>1. CASE OnCpuidHit(v)
    BY <1>1, LiveSlots, TypeSharedHit DEF OnCpuidHit
  <1>2. CASE OnDescHit(v)
    BY <1>2, LiveSlots, TypeSharedHit DEF OnDescHit
  <1> QED
    BY <1>1, <1>2, TypeBpHit, TypeMemHit, TypeRegHit, TypeUnclaimed, TypeSingleStep DEF HookPoll

LEMMA TypeStep == TypeOK /\ [Next]_vars => TypeOK'
  <1> SUFFICES ASSUME TypeOK, [Next]_vars PROVE TypeOK'
    OBVIOUS
  <1>1. CASE Client
    BY <1>1, TypeRegAdd, TypeBpAdd, TypeCpuidAdd, TypeDescAdd, TypeMemAdd, TypeRemove, TypeClear
       DEF Client
  <1>2. ASSUME NEW v \in Vcpus, HookPoll(v) \/ Execute(v) PROVE TypeOK'
    BY <1>2, TypePoll, TypeExecute
  <1>3. CASE UNCHANGED vars
    BY <1>3 DEF vars, TypeOK
  <1> QED
    BY <1>1, <1>2, <1>3 DEF Next

(* The type invariant of the hook manager.                                  *)
THEOREM TypeCorrect == Spec => []TypeOK
  BY TypeInit, TypeStep, PTL DEF Spec

-----------------------------------------------------------------------------
(***************************************************************************)
(* The inductive invariant.  No conjunct is inductive alone: removing or    *)
(* reusing a slot keeps the pending fields right only because libvmi's and  *)
(* the manager's references to slots are those of active hooks, and a find  *)
(* returns the hook meant only because what it looks for is unique.         *)
(***************************************************************************)
SlotShapes ==
    \A s \in Slots : /\ hooks[s].capture => hooks[s].kind = "mem"
                     /\ hooks[s].kind = "breakpoint" => hooks[s].key \in Vaddrs

SafeInv ==
    /\ TypeOK
    /\ HooksFindable
    /\ OwnRegistrations
    /\ SharedRegistrations
    /\ PendingCaptures
    /\ PendingBreakpoint
    /\ OwnBytes
    /\ SlotShapes

LEMMA SafeInit == Init => SafeInv
  <1> SUFFICES ASSUME Init PROVE SafeInv
    OBVIOUS
  <1>1. TypeOK
    BY TypeInit
  <1>2. \A s \in Slots : /\ ~hooks[s].active /\ ~hooks[s].capture
                         /\ hooks[s].kind = "register"
    BY DEF Init, Unused
  <1>3. Live = {}
    BY <1>1, <1>2, LiveSlots DEF Live
  <1>4. HooksFindable /\ SharedRegistrations /\ SlotShapes
    BY <1>2, <1>3 DEF HooksFindable, SharedRegistrations, SlotShapes, Of, Init
  <1>5. OwnRegistrations
    BY <1>2 DEF OwnRegistrations, Init, Slots
  <1>6. PendingCaptures /\ PendingBreakpoint /\ OwnBytes
    BY <1>3 DEF PendingCaptures, PendingBreakpoint, OwnBytes, BpAt, Of, Init
  <1> QED
    BY <1>1, <1>4, <1>5, <1>6 DEF SafeInv

(* count bounds the active slots, so the live ones are the active ones.     *)
LEMMA LiveIsActive ==
    ASSUME TypeOK, \A s \in Slots : hooks[s].active => s <= count
    PROVE  Live = {s \in Slots : hooks[s].active}
  BY HookMaxAssumption DEF TypeOK, Live, Slots

LEMMA AllocFree ==
    ASSUME TypeOK, HooksFindable, NEW s \in Slots, Alloc(s)
    PROVE  ~hooks[s].active
  BY HookMaxAssumption DEF TypeOK, HooksFindable, Alloc, Slots

(* Filling the allocated slot adds one live hook and moves none.            *)
LEMMA AddedLive ==
    ASSUME TypeOK, TypeOK', HooksFindable, NEW s \in Slots, NEW h \in Hook, h.active,
           Alloc(s), Claim(s), hooks' = [hooks EXCEPT ![s] = h]
    PROVE  /\ \A t \in Slots : hooks'[t].active => t <= count'
           /\ s \notin Live /\ Live' = Live \cup {s}
           /\ hooks'[s] = h /\ \A t \in Live : hooks'[t] = hooks[t]
  <1>1. \A t \in Slots : hooks'[t] = IF t = s THEN h ELSE hooks[t]
    BY DEF TypeOK
  <1>2. count <= count' /\ s <= count'
    BY HookMaxAssumption DEF TypeOK, Claim, Slots
  <1>3. \A t \in Slots : hooks'[t].active => t <= count'
    BY <1>1, <1>2, HookMaxAssumption DEF TypeOK, HooksFindable, Slots
  <1>4. Live = {t \in Slots : hooks[t].active}
    BY LiveIsActive DEF HooksFindable
  <1>5. Live' = {t \in Slots : hooks'[t].active}
    BY <1>3, HookMaxAssumption DEF TypeOK, Live, Slots
  <1>6. ~hooks[s].active
    BY AllocFree
  <1> QED
    BY <1>1, <1>3, <1>4, <1>5, <1>6

LEMMA AddedFindable ==
    ASSUME TypeOK, TypeOK', HooksFindable, NEW s \in Slots, NEW h \in Hook, h.active,
           Alloc(s), Claim(s), hooks' = [hooks EXCEPT ![s] = h],
           Named(h.name) = {},
           h.kind = "breakpoint" => BpAt(h.key) = {},
           h.kind = "descriptor" => DescHook(h.key) = {}
    PROVE  HooksFindable'
  <1>1. /\ \A t \in Slots : hooks'[t].active => t <= count'
        /\ s \notin Live /\ Live' = Live \cup {s}
        /\ hooks'[s] = h /\ \A t \in Live : hooks'[t] = hooks[t]
    BY AddedLive
  <1>2. \A t, u \in Live' : hooks'[t].name = hooks'[u].name => t = u
    BY <1>1 DEF HooksFindable, Named
  <1>3. \A t, u \in Of("breakpoint")' : hooks'[t].key = hooks'[u].key => t = u
    BY <1>1 DEF HooksFindable, BpAt, Of
  <1>4. \A t, u \in Of("descriptor")' : hooks'[t].key = hooks'[u].key => t = u
    BY <1>1 DEF HooksFindable, DescHook, Of
  <1> QED
    BY <1>1, <1>2, <1>3, <1>4 DEF HooksFindable

(* A slot that is claimed and not filled changes nothing that is live.      *)
LEMMA ClaimedOnly ==
    ASSUME TypeOK, TypeOK', HooksFindable, UNCHANGED hooks,
           UNCHANGED count \/ (\E s \in Slots : Claim(s))
    PROVE  Live' = Live /\ HooksFindable'
  <1>1. count <= count'
    BY HookMaxAssumption DEF TypeOK, Claim, Slots
  <1>2. \A t \in Slots : hooks'[t].active => t <= count'
    BY <1>1, HookMaxAssumption DEF TypeOK, HooksFindable, Slots
  <1>3. Live = {t \in Slots : hooks[t].active}
    BY LiveIsActive DEF HooksFindable
  <1>4. Live' = {t \in Slots : hooks'[t].active}
    BY <1>2, HookMaxAssumption DEF TypeOK, Live, Slots
  <1>5. Live' = Live
    BY <1>3, <1>4
  <1> QED
    BY <1>2, <1>5 DEF HooksFindable, Of

(* While the live hooks stay as they are, so does what refers to them.      *)
LEMMA KeepPending ==
    ASSUME SafeInv, UNCHANGED <<memPending, pendingBp>>,
           \A t \in Live : t \in Live' /\ hooks'[t] = hooks[t],
           \A t \in Of("breakpoint") : byte'[hooks[t].key] = byte[hooks[t].key]
    PROVE  PendingCaptures' /\ PendingBreakpoint'
  BY DEF SafeInv, PendingCaptures, PendingBreakpoint, Of

(* What the helpers for the shared registrations leave behind.              *)
LEMMA Ensured ==
    ASSUME SafeInv, NEW ok \in BOOLEAN, NEW x \in Shared,
           \/ x = "bp" /\ EnsureBpInfra(ok)
           \/ x # "bp" /\ EnsureOne(x, ok)
    PROVE  /\ on' = shared' /\ on \subseteq on'
           /\ ok => x \in on'
           /\ "bp" \in on' => "ss" \in on'
  BY DEF SafeInv, SharedRegistrations, EnsureBpInfra, EnsureOne, Int3GivenBack, Shared

(* SharedRegistrations survives an add that leaves the registrations of the *)
(* new hook's kind in place.                                                *)
LEMMA AddedShared ==
    ASSUME SafeInv, NEW s \in Slots, Live' = Live \cup {s},
           \A t \in Live : hooks'[t] = hooks[t],
           on' = shared', on \subseteq on', "bp" \in on' => "ss" \in on',
           hooks'[s].kind = "breakpoint" => "bp" \in on',
           hooks'[s].kind = "cpuid" => "cpuid" \in on',
           hooks'[s].kind = "descriptor" => "desc" \in on',
           hooks'[s].kind = "mem" /\ hooks'[s].capture => "ss" \in on'
    PROVE  SharedRegistrations'
  BY DEF SafeInv, SharedRegistrations, Of

LEMMA SameShared ==
    ASSUME SafeInv, Live' = Live, UNCHANGED hooks,
           on' = shared', on \subseteq on', "bp" \in on' => "ss" \in on'
    PROVE  SharedRegistrations'
  BY DEF SafeInv, SharedRegistrations, Of

(* An add that planted no byte leaves OwnBytes as it is.                    *)
LEMMA AddedBytes ==
    ASSUME SafeInv, UNCHANGED byte,
           \A t \in Live : t \in Live' /\ hooks'[t] = hooks[t],
           \A t \in Live' : t \in Live \/ hooks'[t].kind # "breakpoint"
    PROVE  OwnBytes'
  BY DEF SafeInv, OwnBytes, BpAt, Of

(* A registration of its own is for the slot that was filled, or none is.   *)
LEMMA AddedWatch ==
    ASSUME SafeInv, NEW s \in Slots, NEW h \in Hook, h.active, h.key \in Keys, s \notin Live,
           hooks' = [hooks EXCEPT ![s] = h],
           \/ h.kind \notin {"mem", "register"} /\ UNCHANGED watch
           \/ /\ h.kind \in {"mem", "register"} /\ h.key \in Pages
              /\ watch[h.key] = 0
              /\ watch' = [watch EXCEPT ![h.key] = s]
    PROVE  OwnRegistrations'
  <1>1. ~hooks[s].active
    BY LiveIsActive DEF SafeInv, HooksFindable
  <1>2. \A t \in Slots : hooks'[t] = IF t = s THEN h ELSE hooks[t]
    BY DEF SafeInv, TypeOK
  <1>3. \A k \in Pages : watch[k] # s
    BY <1>1 DEF SafeInv, OwnRegistrations
  <1>4. 0 \notin Slots
    BY DEF Slots
  <1>5. CASE h.kind \notin {"mem", "register"} /\ UNCHANGED watch
    BY <1>1, <1>2, <1>3, <1>5 DEF SafeInv, OwnRegistrations
  <1>6. CASE /\ h.kind \in {"mem", "register"} /\ h.key \in Pages
             /\ watch[h.key] = 0
             /\ watch' = [watch EXCEPT ![h.key] = s]
    <2>1. \A k \in Pages : watch'[k] = IF k = h.key THEN s ELSE watch[k]
      BY <1>6 DEF SafeInv, TypeOK
    <2> QED
      BY <1>1, <1>2, <1>3, <1>4, <1>6, <2>1 DEF SafeInv, OwnRegistrations
  <1> QED
    BY <1>5, <1>6

LEMMA AddedShapes ==
    ASSUME SafeInv, NEW s \in Slots, NEW h \in Hook, hooks' = [hooks EXCEPT ![s] = h],
           h.capture => h.kind = "mem",
           h.kind = "breakpoint" => h.key \in Vaddrs
    PROVE  SlotShapes'
  BY DEF SafeInv, TypeOK, SlotShapes

(* A call that fails after it claimed a slot, or before.                    *)
LEMMA SafeFailedAdd ==
    ASSUME SafeInv, TypeOK', UNCHANGED <<hooks, watch, byte, memPending, pendingBp>>,
           UNCHANGED count \/ (\E s \in Slots : Claim(s)),
           on' = shared', on \subseteq on', "bp" \in on' => "ss" \in on'
    PROVE  SafeInv'
  <1>1. Live' = Live /\ HooksFindable'
    BY ClaimedOnly DEF SafeInv
  <1>2. SharedRegistrations'
    BY <1>1, SameShared
  <1>3. PendingCaptures' /\ PendingBreakpoint'
    BY <1>1, KeepPending
  <1>4. OwnBytes'
    BY <1>1, AddedBytes
  <1>5. OwnRegistrations' /\ SlotShapes'
    BY DEF SafeInv, OwnRegistrations, SlotShapes
  <1> QED
    BY <1>1, <1>2, <1>3, <1>4, <1>5 DEF SafeInv

(* A call that fills slot s with hook h and plants nothing.                 *)
LEMMA SafeFilledAdd ==
    ASSUME SafeInv, TypeOK', UNCHANGED <<byte, memPending, pendingBp>>,
           NEW s \in Slots, NEW h \in Hook, h.active, Alloc(s), Claim(s),
           hooks' = [hooks EXCEPT ![s] = h],
           Named(h.name) = {},
           h.kind # "breakpoint",
           h.kind = "descriptor" => DescHook(h.key) = {},
           h.capture => h.kind = "mem",
           \/ h.kind \notin {"mem", "register"} /\ UNCHANGED watch
           \/ /\ h.kind \in {"mem", "register"} /\ h.key \in Pages
              /\ watch[h.key] = 0
              /\ watch' = [watch EXCEPT ![h.key] = s],
           on' = shared', on \subseteq on', "bp" \in on' => "ss" \in on',
           h.kind = "cpuid" => "cpuid" \in on',
           h.kind = "descriptor" => "desc" \in on',
           h.kind = "mem" /\ h.capture => "ss" \in on'
    PROVE  SafeInv'
  <1>1. /\ s \notin Live /\ Live' = Live \cup {s}
        /\ hooks'[s] = h /\ \A t \in Live : hooks'[t] = hooks[t]
    BY AddedLive DEF SafeInv
  <1>2. HooksFindable'
    BY AddedFindable DEF SafeInv
  <1>3. SharedRegistrations'
    BY <1>1, AddedShared
  <1>4. PendingCaptures' /\ PendingBreakpoint'
    BY <1>1, KeepPending
  <1>5. OwnBytes'
    BY <1>1, AddedBytes
  <1>6. OwnRegistrations'
    <2>1. h.key \in Keys
      BY DEF Hook
    <2> QED
      BY <1>1, <2>1, AddedWatch
  <1>7. SlotShapes'
    BY AddedShapes
  <1> QED
    BY <1>2, <1>3, <1>4, <1>5, <1>6, <1>7 DEF SafeInv

LEMMA SafeRegAdd ==
    ASSUME SafeInv, TypeOK', NEW n \in Names, NEW r \in Regs, HookRegAdd(n, r)
    PROVE  SafeInv'
  <1> DEFINE h == Filled(n, "register", r)
  <1>1. PICK s \in Slots :
            /\ Alloc(s) /\ Claim(s)
            /\ \/ UNCHANGED <<hooks, watch>>
               \/ /\ watch[r] = 0
                  /\ watch' = [watch EXCEPT ![r] = s]
                  /\ hooks' = [hooks EXCEPT ![s] = h]
    BY DEF HookRegAdd
  <1>2. h \in Hook /\ r \in Pages
    BY FilledType DEF Kinds, Keys, Pages
  <1>3. /\ h.active /\ h.name = n /\ h.kind = "register" /\ h.key = r /\ ~h.capture
    BY DEF Filled
  <1>4. /\ Named(n) = {} /\ UNCHANGED <<on, shared, byte, memPending, pendingBp>>
    BY DEF HookRegAdd
  <1>5. on' = shared' /\ on \subseteq on' /\ ("bp" \in on' => "ss" \in on')
    BY <1>4 DEF SafeInv, SharedRegistrations
  <1> HIDE DEF h
  <1>6. CASE UNCHANGED <<hooks, watch>>
    BY <1>1, <1>4, <1>5, <1>6, SafeFailedAdd
  <1>7. CASE /\ watch[r] = 0 /\ watch' = [watch EXCEPT ![r] = s]
             /\ hooks' = [hooks EXCEPT ![s] = h]
    BY <1>1, <1>2, <1>3, <1>4, <1>5, <1>7, SafeFilledAdd
  <1> QED
    BY <1>1, <1>6, <1>7

LEMMA SafeCpuidAdd ==
    ASSUME SafeInv, TypeOK', NEW n \in Names, NEW l \in Leaves \cup {AnyLeaf}, HookCpuidAdd(n, l)
    PROVE  SafeInv'
  <1> DEFINE h == Filled(n, "cpuid", l)
  <1>1. PICK ok \in BOOLEAN :
            /\ EnsureOne("cpuid", ok)
            /\ \/ UNCHANGED <<hooks, count>>
               \/ /\ ok
                  /\ \E s \in Slots :
                      Alloc(s) /\ Claim(s) /\ hooks' = [hooks EXCEPT ![s] = h]
    BY DEF HookCpuidAdd
  <1>2. h \in Hook
    BY FilledType DEF Kinds, Keys
  <1>3. /\ h.active /\ h.name = n /\ h.kind = "cpuid" /\ ~h.capture
    BY DEF Filled
  <1>4. /\ Named(n) = {} /\ UNCHANGED <<byte, memPending, pendingBp, watch>>
    BY DEF HookCpuidAdd
  <1>5. /\ on' = shared' /\ on \subseteq on' /\ ("bp" \in on' => "ss" \in on')
        /\ ok => "cpuid" \in on'
    BY <1>1, Ensured DEF Shared
  <1> HIDE DEF h
  <1>6. CASE UNCHANGED <<hooks, count>>
    BY <1>4, <1>5, <1>6, SafeFailedAdd
  <1>7. ASSUME ok, NEW s \in Slots, Alloc(s), Claim(s), hooks' = [hooks EXCEPT ![s] = h]
        PROVE  SafeInv'
    BY <1>2, <1>3, <1>4, <1>5, <1>7, SafeFilledAdd
  <1> QED
    BY <1>1, <1>6, <1>7

LEMMA SafeDescAdd ==
    ASSUME SafeInv, TypeOK', NEW n \in Names, NEW t \in Tables, HookDescAdd(n, t)
    PROVE  SafeInv'
  <1> DEFINE h == Filled(n, "descriptor", t)
  <1>1. PICK ok \in BOOLEAN :
            /\ EnsureOne("desc", ok)
            /\ \/ UNCHANGED <<hooks, count>>
               \/ /\ ok
                  /\ \E s \in Slots :
                      Alloc(s) /\ Claim(s) /\ hooks' = [hooks EXCEPT ![s] = h]
    BY DEF HookDescAdd
  <1>2. h \in Hook
    BY FilledType DEF Kinds, Keys
  <1>3. /\ h.active /\ h.name = n /\ h.kind = "descriptor" /\ h.key = t /\ ~h.capture
    BY DEF Filled
  <1>4. /\ Named(n) = {} /\ DescHook(t) = {}
        /\ UNCHANGED <<byte, memPending, pendingBp, watch>>
    BY DEF HookDescAdd
  <1>5. /\ on' = shared' /\ on \subseteq on' /\ ("bp" \in on' => "ss" \in on')
        /\ ok => "desc" \in on'
    BY <1>1, Ensured DEF Shared
  <1> HIDE DEF h
  <1>6. CASE UNCHANGED <<hooks, count>>
    BY <1>4, <1>5, <1>6, SafeFailedAdd
  <1>7. ASSUME ok, NEW s \in Slots, Alloc(s), Claim(s), hooks' = [hooks EXCEPT ![s] = h]
        PROVE  SafeInv'
    BY <1>2, <1>3, <1>4, <1>5, <1>7, SafeFilledAdd
  <1> QED
    BY <1>1, <1>6, <1>7

LEMMA SafeMemAdd ==
    ASSUME SafeInv, TypeOK', NEW n \in Names, NEW g \in Gfns, NEW m \in Masks, NEW c \in BOOLEAN,
           HookMemAddGfn(n, g, m, c)
    PROVE  SafeInv'
  <1> DEFINE h == [Filled(n, "mem", g) EXCEPT !.access = m, !.capture = c]
  <1>1. PICK ok \in BOOLEAN :
            /\ IF c THEN HookSsEnsure(ok) ELSE ok /\ UNCHANGED <<on, shared>>
            /\ \/ UNCHANGED <<hooks, count, watch>>
               \/ /\ ok
                  /\ \E s \in Slots :
                      /\ Alloc(s) /\ Claim(s)
                      /\ \/ UNCHANGED <<hooks, watch>>
                         \/ /\ watch[g] = 0
                            /\ watch' = [watch EXCEPT ![g] = s]
                            /\ hooks' = [hooks EXCEPT ![s] = h]
    BY DEF HookMemAddGfn
  <1>2. h \in Hook /\ g \in Pages
    BY FilledType, MasksAssumption DEF Kinds, Keys, Pages
  <1>3. /\ h.active /\ h.name = n /\ h.kind = "mem" /\ h.key = g /\ h.capture = c
    BY DEF Filled
  <1>4. /\ Named(n) = {} /\ UNCHANGED <<byte, memPending, pendingBp>>
    BY DEF HookMemAddGfn
  <1>5. /\ on' = shared' /\ on \subseteq on' /\ ("bp" \in on' => "ss" \in on')
        /\ ok /\ c => "ss" \in on'
    BY <1>1, Ensured DEF HookSsEnsure, Shared, SafeInv, SharedRegistrations
  <1> HIDE DEF h
  <1>6. CASE UNCHANGED <<hooks, count, watch>>
    BY <1>4, <1>5, <1>6, SafeFailedAdd
  <1>7. ASSUME NEW s \in Slots, Claim(s), UNCHANGED <<hooks, watch>>
        PROVE  SafeInv'
    BY <1>4, <1>5, <1>7, SafeFailedAdd
  <1>8. ASSUME ok, NEW s \in Slots, Alloc(s), Claim(s), watch[g] = 0,
               watch' = [watch EXCEPT ![g] = s], hooks' = [hooks EXCEPT ![s] = h]
        PROVE  SafeInv'
    BY <1>2, <1>3, <1>4, <1>5, <1>8, SafeFilledAdd
  <1> QED
    BY <1>1, <1>6, <1>7, <1>8

LEMMA SafeBpAdd ==
    ASSUME SafeInv, TypeOK', NEW n \in Names, NEW a \in Vaddrs, HookBpAdd(n, a)
    PROVE  SafeInv'
  <1> DEFINE h == [Filled(n, "breakpoint", a) EXCEPT !.orig = byte[a]]
  <1>1. PICK ok \in BOOLEAN :
            /\ EnsureBpInfra(ok)
            /\ \/ UNCHANGED <<hooks, count, byte>>
               \/ /\ ok
                  /\ \E s \in Slots :
                      /\ Alloc(s) /\ Claim(s)
                      /\ \/ UNCHANGED <<hooks, byte>>
                         \/ /\ hooks' = [hooks EXCEPT ![s] = h]
                            /\ byte' = [byte EXCEPT ![a] = "cc"]
    BY DEF HookBpAdd
  <1>2. byte[a] \in {"own", "cc"}
    BY DEF SafeInv, TypeOK
  <1>3. h \in Hook
    BY <1>2, FilledType DEF Kinds, Keys
  <1>4. /\ h.active /\ h.name = n /\ h.kind = "breakpoint" /\ h.key = a /\ ~h.capture
        /\ h.orig = byte[a]
    BY DEF Filled
  <1>5. /\ Named(n) = {} /\ BpAt(a) = {} /\ UNCHANGED <<memPending, pendingBp, watch>>
    BY DEF HookBpAdd, AlreadyPlanted
  <1>6. /\ on' = shared' /\ on \subseteq on' /\ ("bp" \in on' => "ss" \in on')
        /\ ok => "bp" \in on'
    BY <1>1, Ensured DEF Shared
  <1> HIDE DEF h
  <1>7. CASE UNCHANGED <<hooks, count, byte>>
    BY <1>5, <1>6, <1>7, SafeFailedAdd
  <1>8. ASSUME NEW s \in Slots, Claim(s), UNCHANGED <<hooks, byte>>
        PROVE  SafeInv'
    BY <1>5, <1>6, <1>8, SafeFailedAdd
  <1>9. ASSUME ok, NEW s \in Slots, Alloc(s), Claim(s), hooks' = [hooks EXCEPT ![s] = h],
               byte' = [byte EXCEPT ![a] = "cc"]
        PROVE  SafeInv'
    <2>1. /\ s \notin Live /\ Live' = Live \cup {s}
          /\ hooks'[s] = h /\ \A t \in Live : hooks'[t] = hooks[t]
      BY <1>3, <1>4, <1>9, AddedLive DEF SafeInv
    <2>2. HooksFindable'
      BY <1>3, <1>4, <1>5, <1>9, AddedFindable DEF SafeInv
    <2>3. SharedRegistrations'
      BY <1>4, <1>6, <1>9, <2>1, AddedShared
    <2>4. \A b \in Vaddrs : byte'[b] = IF b = a THEN "cc" ELSE byte[b]
      BY <1>9 DEF SafeInv, TypeOK
    <2>5. PendingCaptures' /\ PendingBreakpoint'
      <3>1. \A t \in Of("breakpoint") : byte'[hooks[t].key] = byte[hooks[t].key]
        BY <1>5, <1>9 DEF BpAt, SafeInv, TypeOK
      <3> QED
        BY <1>5, <2>1, <3>1, KeepPending
    <2>6. OwnBytes'
      <3>1. ASSUME NEW b \in Vaddrs \ Lost
            PROVE  /\ byte'[b] = "cc" => BpAt(b)' # {}
                   /\ \A t \in BpAt(b)' : hooks'[t].orig = "own"
        <4>1. BpAt(b)' = IF b = a THEN {s} ELSE BpAt(b)
          BY <1>4, <1>5, <2>1 DEF BpAt, Of
        <4>2. b = a => h.orig = "own"
          BY <1>2, <1>4, <1>5 DEF SafeInv, OwnBytes
        <4>3. \A t \in BpAt(b) : t \in Live
          BY DEF BpAt, Of
        <4> QED
          BY <2>1, <2>4, <4>1, <4>2, <4>3 DEF SafeInv, OwnBytes
      <3> QED
        BY <3>1 DEF OwnBytes
    <2>7. OwnRegistrations'
      <3>1. h.key \in Keys
        BY <1>3 DEF Hook
      <3> QED
        BY <1>3, <1>4, <1>5, <1>9, <2>1, <3>1, AddedWatch
    <2>8. SlotShapes'
      BY <1>3, <1>4, <1>9, AddedShapes
    <2> QED
      BY <2>2, <2>3, <2>5, <2>6, <2>7, <2>8 DEF SafeInv
  <1> QED
    BY <1>1, <1>7, <1>8, <1>9

LEMMA SafeRemove ==
    ASSUME SafeInv, TypeOK', NEW n \in Names, HookRemove(n)
    PROVE  SafeInv'
  <1>1. PICK s \in Named(n) :
            /\ hooks' = [hooks EXCEPT ![s] = Unused]
            /\ watch' = Unwatch({s})
            /\ memPending' = Forget({s})
            /\ IF hooks[s].kind = "breakpoint"
                  THEN byte' = Restored(s) /\ pendingBp' = Unpend(s)
                  ELSE UNCHANGED <<byte, pendingBp>>
            /\ UNCHANGED <<count, on, shared>>
    BY DEF HookRemove
  <1>2. s \in Slots /\ s \in Live /\ s # 0
    BY LiveSlots DEF SafeInv, Slots
  <1>3. /\ \A t \in Slots : hooks'[t] = IF t = s THEN Unused ELSE hooks[t]
        /\ ~Unused.active /\ ~Unused.capture /\ Unused.kind = "register"
    BY <1>1, <1>2 DEF SafeInv, TypeOK, Unused
  <1>4. Live' = Live \ {s} /\ \A t \in Live : t \in Slots
    BY <1>1, <1>2, <1>3, LiveSlots DEF SafeInv, Live
  <1>5. HooksFindable'
    BY <1>1, <1>3, <1>4 DEF SafeInv, HooksFindable, Of
  <1>6. OwnRegistrations'
    BY <1>1, <1>2, <1>3 DEF SafeInv, OwnRegistrations, Unwatch, TypeOK, Slots
  <1>7. SharedRegistrations'
    BY <1>1, <1>3, <1>4 DEF SafeInv, SharedRegistrations, Of
  <1>8. PendingCaptures'
    BY <1>1, <1>2, <1>3, <1>4 DEF SafeInv, PendingCaptures, Forget, Of
  <1>9. PendingBreakpoint'
    <2>1. CASE hooks[s].kind = "breakpoint"
      <3>1. ASSUME NEW t \in Of("breakpoint"), t # s
            PROVE  byte'[hooks[t].key] = byte[hooks[t].key]
        <4>1. s \in Of("breakpoint") /\ t \in Slots
          BY <1>2, <1>4, <2>1 DEF Of
        <4>2. hooks[t].key # hooks[s].key /\ hooks[t].key \in Vaddrs
          BY <3>1, <4>1 DEF SafeInv, HooksFindable, SlotShapes, Of
        <4> QED
          BY <1>1, <2>1, <4>2 DEF Restored, SafeInv, TypeOK
      <3> QED
        BY <1>1, <1>2, <1>3, <1>4, <2>1, <3>1 DEF SafeInv, PendingBreakpoint, Unpend, Of
    <2>2. CASE hooks[s].kind # "breakpoint"
      BY <1>1, <1>3, <1>4, <2>2 DEF SafeInv, PendingBreakpoint, Of
    <2> QED
      BY <2>1, <2>2
  <1>10. OwnBytes'
    <2>1. ASSUME NEW b \in Vaddrs \ Lost
          PROVE  /\ byte'[b] = "cc" => BpAt(b)' # {}
                 /\ \A t \in BpAt(b)' : hooks'[t].orig = "own"
      <3>1. BpAt(b)' = BpAt(b) \ {s}
        BY <1>3, <1>4 DEF BpAt, Of
      <3>2. \A t \in BpAt(b) : t \in Slots /\ hooks[t].orig = "own"
        BY <1>4 DEF SafeInv, OwnBytes, BpAt, Of
      <3>3. CASE s \in BpAt(b)
        <4>1. byte'[b] = hooks[s].orig
          BY <1>1, <3>3 DEF BpAt, Of, Restored, SafeInv, TypeOK
        <4> QED
          BY <1>3, <3>1, <3>2, <3>3, <4>1
      <3>4. CASE s \notin BpAt(b)
        <4>1. byte'[b] = byte[b]
          BY <1>1, <1>2, <3>4 DEF BpAt, Of, Restored, SafeInv, TypeOK
        <4> QED
          BY <1>3, <3>1, <3>2, <3>4, <4>1 DEF SafeInv, OwnBytes
      <3> QED
        BY <3>3, <3>4
    <2> QED
      BY <2>1 DEF OwnBytes
  <1>11. SlotShapes'
    BY <1>3 DEF SafeInv, SlotShapes
  <1> QED
    BY <1>5, <1>6, <1>7, <1>8, <1>9, <1>10, <1>11 DEF SafeInv

LEMMA SafeClear ==
    ASSUME SafeInv, TypeOK', HookManagerClear
    PROVE  SafeInv'
  <1>1. \A s \in Slots : /\ hooks'[s] = Unused /\ ~Unused.active /\ ~Unused.capture
                         /\ Unused.kind = "register"
    BY DEF HookManagerClear, Unused
  <1>2. Live' = {}
    BY DEF HookManagerClear, Live
  <1>3. \A t \in Slots : hooks[t].active => t \in Live
    BY LiveIsActive DEF SafeInv, HooksFindable
  <1>4. HooksFindable' /\ SlotShapes'
    BY <1>1, <1>2 DEF HooksFindable, SlotShapes, Of
  <1>5. OwnRegistrations'
    <2>1. \A k \in Pages : watch'[k] = 0
      <3>1. ASSUME NEW k \in Pages, watch[k] # 0 PROVE watch[k] \in Live
        <4>1. watch[k] \in Slots
          BY <3>1, HookMaxAssumption DEF SafeInv, TypeOK, Slots
        <4> QED
          BY <1>3, <4>1 DEF SafeInv, OwnRegistrations
      <3> QED
        BY <3>1 DEF HookManagerClear, Unwatch
    <2> QED
      BY <1>1, <2>1 DEF OwnRegistrations, Slots
  <1>6. SharedRegistrations'
    BY <1>2 DEF SafeInv, SharedRegistrations, HookManagerClear, Of
  <1>7. PendingCaptures' /\ PendingBreakpoint'
    BY <1>2 DEF SafeInv, PendingCaptures, PendingBreakpoint, HookManagerClear, Forget, Of
  <1>8. OwnBytes'
    <2>1. ASSUME NEW b \in Vaddrs \ Lost PROVE byte'[b] = "own"
      <3>1. CASE BpAt(b) = {}
        BY <3>1 DEF HookManagerClear, SafeInv, OwnBytes, TypeOK
      <3>2. CASE BpAt(b) # {}
        BY <3>2 DEF HookManagerClear, SafeInv, OwnBytes
      <3> QED
        BY <3>1, <3>2
    <2> QED
      BY <1>2, <2>1 DEF OwnBytes, BpAt, Of
  <1> QED
    BY <1>4, <1>5, <1>6, <1>7, <1>8 DEF SafeInv

-----------------------------------------------------------------------------
(* The callbacks and the guest leave the slots and registrations alone.     *)
LEMMA SameSlots ==
    ASSUME SafeInv, UNCHANGED <<hooks, count, on, shared, watch>>
    PROVE  /\ Live' = Live /\ \A k : Of(k)' = Of(k)
           /\ HooksFindable' /\ OwnRegistrations' /\ SharedRegistrations' /\ SlotShapes'
  <1>1. Live' = Live /\ \A k : Of(k)' = Of(k)
    BY DEF Live, Of
  <1> QED
    BY <1>1 DEF SafeInv, HooksFindable, OwnRegistrations, SharedRegistrations, SlotShapes

LEMMA SafeUnchanged ==
    ASSUME SafeInv, TypeOK', UNCHANGED <<hooks, count, on, shared, watch, byte, memPending, pendingBp>>
    PROVE  SafeInv'
  <1>1. /\ Live' = Live /\ \A k : Of(k)' = Of(k)
        /\ HooksFindable' /\ OwnRegistrations' /\ SharedRegistrations' /\ SlotShapes'
    BY SameSlots
  <1>2. PendingCaptures' /\ PendingBreakpoint' /\ OwnBytes'
    BY <1>1 DEF SafeInv, PendingCaptures, PendingBreakpoint, OwnBytes, BpAt
  <1> QED
    BY <1>1, <1>2 DEF SafeInv

LEMMA SafeBpHit ==
    ASSUME SafeInv, TypeOK', NEW v \in Vcpus, OnBpHit(v)
    PROVE  SafeInv'
  <1>1. UNCHANGED <<hooks, count, on, shared, watch, memPending>>
    BY DEF OnBpHit
  <1>2. /\ Live' = Live /\ \A k : Of(k)' = Of(k)
        /\ HooksFindable' /\ OwnRegistrations' /\ SharedRegistrations' /\ SlotShapes'
    BY <1>1, SameSlots
  <1>3. CASE UNCHANGED <<byte, pendingBp>>
    BY <1>1, <1>3, SafeUnchanged
  <1>4. ASSUME NEW s \in BpAt(event[v].key), byte' = Restored(s), pendingBp' = s
        PROVE  SafeInv'
    <2>1. s \in Of("breakpoint")
      BY DEF BpAt
    <2>2. hooks[s].orig \in {"own", "cc"}
      BY <2>1, LiveSlots DEF SafeInv, TypeOK, Hook
    <2>3. \A b \in Vaddrs : byte'[b] = IF b = hooks[s].key THEN hooks[s].orig ELSE byte[b]
      BY <1>4 DEF Restored, SafeInv, TypeOK
    <2>4. event[v].key \in Vaddrs /\ hooks[s].key = event[v].key
      <3>1. event[v].type = "int3"
        BY DEF OnBpHit
      <3> QED
        BY <3>1, EventKeys DEF SafeInv, TypeOK, BpAt
    <2>5. PendingBreakpoint'
      BY <1>1, <1>2, <1>4, <2>1, <2>3, <2>4 DEF PendingBreakpoint
    <2>6. OwnBytes'
      BY <1>1, <1>2, <1>4, <2>1, <2>3, <2>4 DEF SafeInv, OwnBytes, BpAt
    <2>7. PendingCaptures'
      BY <1>1, <1>2 DEF SafeInv, PendingCaptures
    <2> QED
      BY <1>2, <2>5, <2>6, <2>7 DEF SafeInv
  <1> QED
    BY <1>3, <1>4 DEF OnBpHit

LEMMA SafeMemHit ==
    ASSUME SafeInv, TypeOK', NEW v \in Vcpus, OnMemHit(v)
    PROVE  SafeInv'
  <1> DEFINE s == watch[event[v].key]
  <1>1. UNCHANGED <<hooks, count, on, shared, watch, byte, pendingBp>>
    BY DEF OnMemHit
  <1>2. /\ Live' = Live /\ \A k : Of(k)' = Of(k)
        /\ HooksFindable' /\ OwnRegistrations' /\ SharedRegistrations' /\ SlotShapes'
    BY <1>1, SameSlots
  <1>3. PendingBreakpoint' /\ OwnBytes'
    BY <1>1, <1>2 DEF SafeInv, PendingBreakpoint, OwnBytes, BpAt
  <1>4. CASE UNCHANGED memPending
    BY <1>1, <1>4, SafeUnchanged
  <1>5. CASE hooks[s].capture /\ v \in Tracked /\ memPending' = [memPending EXCEPT ![v] = s]
    <2>1. s \in Slots /\ event[v].key \in Pages
      BY WatchedSlot, EventKeys DEF OnMemHit, SafeInv, TypeOK, Pages
    <2>2. hooks[s].active /\ hooks[s].kind = "mem"
      BY <1>5, <2>1 DEF SafeInv, OwnRegistrations, SlotShapes
    <2>3. s \in Of("mem")
      BY <2>1, <2>2, LiveIsActive DEF SafeInv, HooksFindable, Of
    <2> HIDE DEF s
    <2>4. \A u \in Vcpus : memPending'[u] = IF u = v THEN s ELSE memPending[u]
      BY <1>5 DEF SafeInv, TypeOK
    <2>5. PendingCaptures'
      BY <1>1, <1>2, <1>5, <2>3, <2>4 DEF SafeInv, PendingCaptures
    <2> QED
      BY <1>2, <1>3, <2>5 DEF SafeInv
  <1> QED
    BY <1>4, <1>5 DEF OnMemHit

LEMMA SafeSingleStep ==
    ASSUME SafeInv, TypeOK', NEW v \in Vcpus, OnSingleStep(v)
    PROVE  SafeInv'
  <1>1. UNCHANGED <<hooks, count, on, shared, watch>> /\ memPending' = Done(v) /\ HookBpStepped
    BY DEF OnSingleStep
  <1>2. /\ Live' = Live /\ \A k : Of(k)' = Of(k)
        /\ HooksFindable' /\ OwnRegistrations' /\ SharedRegistrations' /\ SlotShapes'
    BY <1>1, SameSlots
  <1>3. PendingCaptures'
    BY <1>1, <1>2 DEF SafeInv, PendingCaptures, Done, TypeOK
  <1>4. PendingBreakpoint'
    BY <1>1 DEF HookBpStepped, PendingBreakpoint
  <1>5. OwnBytes'
    <2>1. CASE UNCHANGED byte
      BY <1>1, <1>2, <2>1 DEF SafeInv, OwnBytes, BpAt
    <2>2. CASE pendingBp # 0 /\ byte' = [byte EXCEPT ![hooks[pendingBp].key] = "cc"]
      <3>1. pendingBp \in Of("breakpoint")
        BY <2>2 DEF SafeInv, PendingBreakpoint
      <3>2. \A b \in Vaddrs : byte'[b] = IF b = hooks[pendingBp].key THEN "cc" ELSE byte[b]
        BY <2>2 DEF SafeInv, TypeOK
      <3> QED
        BY <1>1, <1>2, <3>1, <3>2 DEF SafeInv, OwnBytes, BpAt
    <2> QED
      BY <1>1, <2>1, <2>2 DEF HookBpStepped
  <1> QED
    BY <1>2, <1>3, <1>4, <1>5 DEF SafeInv

LEMMA SafePoll ==
    ASSUME SafeInv, TypeOK', NEW v \in Vcpus, HookPoll(v)
    PROVE  SafeInv'
  <1>1. CASE OnRegHit(v) \/ Unclaimed(v) \/ OnCpuidHit(v) \/ OnDescHit(v)
    <2>1. UNCHANGED <<hooks, count, on, shared, watch, byte, memPending, pendingBp>>
      BY <1>1 DEF OnRegHit, Unclaimed, OnCpuidHit, OnDescHit, OnSharedHit
    <2> QED
      BY <2>1, SafeUnchanged
  <1> QED
    BY <1>1, SafeBpHit, SafeMemHit, SafeSingleStep DEF HookPoll

LEMMA SafeStep == SafeInv /\ [Next]_vars => SafeInv'
  <1> SUFFICES ASSUME SafeInv, [Next]_vars PROVE SafeInv'
    OBVIOUS
  <1>1. TypeOK'
    BY TypeStep DEF SafeInv
  <1>2. CASE Client
    BY <1>1, <1>2, SafeRegAdd, SafeBpAdd, SafeCpuidAdd, SafeDescAdd, SafeMemAdd, SafeRemove,
       SafeClear DEF Client
  <1>3. ASSUME NEW v \in Vcpus, HookPoll(v) PROVE SafeInv'
    BY <1>1, <1>3, SafePoll
  <1>4. ASSUME NEW v \in Vcpus, Execute(v) PROVE SafeInv'
    BY <1>1, <1>4, SafeUnchanged DEF Execute
  <1>5. CASE UNCHANGED vars
    BY <1>1, <1>5, SafeUnchanged DEF vars
  <1> QED
    BY <1>2, <1>3, <1>4, <1>5 DEF Next

LEMMA SafeAlways == Spec => []SafeInv
  BY SafeInit, SafeStep, PTL DEF Spec

(* Every active hook is found, and by name, address and table uniquely.     *)
THEOREM Findable == Spec => []HooksFindable
  BY SafeAlways, PTL DEF SafeInv

(* libvmi's own registrations are those of the active hooks, and the shared *)
(* ones match the flags and the hooks that need them.                       *)
THEOREM RegisteredRight == Spec => []Registered
  BY SafeAlways, PTL DEF SafeInv, Registered

(* No pending capture outlives its hook.                                    *)
THEOREM CapturesHeld == Spec => []PendingCaptures
  BY SafeAlways, PTL DEF SafeInv

(* The breakpoint mid-recoil is active, with its own byte in place.         *)
THEOREM BreakpointHeld == Spec => []PendingBreakpoint
  BY SafeAlways, PTL DEF SafeInv

(* The guest's own bytes are kept and given back.                           *)
THEOREM BytesKept == Spec => []OwnBytes
  BY SafeAlways, PTL DEF SafeInv
-----------------------------------------------------------------------------
(* Only on_bp_hit and a clear take a queued INT3 from its vcpu.             *)
LEMMA ReinjectStep ==
    ASSUME SafeInv, [Next]_vars, NEW v \in Vcpus,
           event[v].type = "int3", event'[v] = NoEvent,
           event[v].key \notin Lost, sent' = <<>>, "bp" \in on'
    PROVE  byte[event[v].key] = "own"
  <1> DEFINE a == event[v].key
  <1>1. event'[v] # event[v]
    BY DEF NoEvent
  <1>2. CASE Client
    <2>1. UNCHANGED event \/ on' = {}
      BY <1>2 DEF Client, HookRegAdd, HookBpAdd, HookCpuidAdd, HookDescAdd, HookMemAddGfn,
                  HookRemove, HookManagerClear, guest
    <2> QED
      BY <1>1, <2>1
  <1>3. ASSUME NEW u \in Vcpus, Execute(u) PROVE FALSE
    <2>1. event[u] = NoEvent /\ \E e : event' = [event EXCEPT ![u] = e]
      BY <1>3 DEF Execute, TrapInt3, StrayInt3, TrapEffect, Retire, Waits
    <2> QED
      BY <1>1, <2>1 DEF SafeInv, TypeOK, NoEvent
  <1>4. ASSUME NEW u \in Vcpus, HookPoll(u) PROVE byte[a] = "own"
    <2>1. Answer(u)
      BY <1>4 DEF HookPoll, OnBpHit, OnMemHit, OnRegHit, Unclaimed, OnCpuidHit, OnDescHit,
                  OnSharedHit, OnSingleStep
    <2>2. u = v
      BY <1>1, <2>1 DEF Answer, SafeInv, TypeOK
    <2>3. OnBpHit(v)
      BY <1>4, <2>2 DEF HookPoll, OnMemHit, OnRegHit, Unclaimed, OnCpuidHit, OnDescHit,
                  OnSingleStep
    <2>4. \A s : sent' # <<Callback(s, v, FALSE, FALSE)>>
      OBVIOUS
    <2>5. BpAt(a) = {}
      BY <2>3, <2>4 DEF OnBpHit
    <2>6. a \in Vaddrs
      BY EventKeys DEF SafeInv, TypeOK
    <2> QED
      BY <2>5, <2>6 DEF SafeInv, OwnBytes, TypeOK
  <1>5. CASE UNCHANGED vars
    BY <1>1, <1>5 DEF vars
  <1> QED
    BY <1>2, <1>3, <1>4, <1>5 DEF Next

(* An INT3 goes back to the guest only once its breakpoint is removed, with *)
(* the guest's own byte in place.                                           *)
THEOREM Reinjected == Spec => ReinjectsAfterRemovalOnly
  <1>1. SafeInv /\ [Next]_vars =>
           [\A v \in Vcpus :
              /\ event[v].type = "int3" /\ event'[v] = NoEvent
              /\ event[v].key \notin Lost /\ sent' = <<>> /\ "bp" \in on'
              => byte[event[v].key] = "own"]_vars
    BY ReinjectStep
  <1> QED
    BY <1>1, SafeAlways, PTL DEF Spec, ReinjectsAfterRemovalOnly

-----------------------------------------------------------------------------
(***************************************************************************)
(* Recoil and capture, where they are right.  hook_bp_stepped looks at no   *)
(* vcpu and Toggle only flips, so what a step finishes is what the step was *)
(* asked for only if the vcpu executes nothing that traps in between:       *)
(* one vcpu or no breakpoints, instructions that touch at most one watched  *)
(* thing and none where a breakpoint is planted, no page lost, and a client *)
(* that lets a recoil finish.  hooks_one_vcpu.cfg is such a guest;          *)
(* hooks_rearm_smp.cfg and hooks_stale_capture.cfg are not.                 *)
(***************************************************************************)
AloneOrUnplanted == Vaddrs = {} \/ \A u, v \in Vcpus : u = v

OneThing(i) ==
    /\ i.at \notin Vaddrs \/ i.does = {}
    /\ \A d, e \in i.does : d = e

Undisturbed ==
    /\ AloneOrUnplanted
    /\ \A i \in Insns : OneThing(i)
    /\ Lost = {} /\ ~MidRecoil

(* A vcpu that is single-stepped is over the instruction, or has nothing    *)
(* left in it that traps.                                                   *)
PastIt(v) ==
    \/ event[v].type = "step"
    \/ /\ event[v] = NoEvent
       /\ cur[v].busy /\ cur[v].does = {}
       /\ cur[v].at \in Vaddrs => pendingBp # 0 /\ hooks[pendingBp].key = cur[v].at

Stepped(v) ==
    /\ stepping[v] => "ss" \in on /\ PastIt(v)
    /\ ~stepping[v] => event[v].type # "step"

(* What a queued event says of the instruction the vcpu waits in.           *)
WaitsInIt(v) ==
    /\ event[v].type = "int3" => cur[v].busy /\ cur[v].at = event[v].key
    /\ event[v] \in Effect => cur[v].busy /\ event[v] \in cur[v].does
    /\ OneThing(cur[v])

StepInv ==
    /\ SafeInv
    /\ \A v \in Vcpus : Stepped(v) /\ WaitsInIt(v)
    /\ UnplantedIsPending
    /\ PendingIsStepping

LEMMA EventTypes ==
    ASSUME NEW e \in Event
    PROVE  /\ e.type \in {"mem", "reg", "cpuid", "desc"} <=> e \in Effect
           /\ e = NoEvent => e.type = "none"
  BY DEF Event, Effect, NoEvent

LEMMA StepInit == Init => StepInv
  <1> SUFFICES ASSUME Init PROVE StepInv
    OBVIOUS
  <1>1. SafeInv
    BY SafeInit
  <1>2. ASSUME NEW v \in Vcpus PROVE Stepped(v) /\ WaitsInIt(v)
    <2>1. ~stepping[v] /\ event[v] = NoEvent /\ cur[v] = Idle
      BY DEF Init
    <2>2. event[v] \notin Effect
      BY <2>1 DEF NoEvent, Effect
    <2> QED
      BY <2>1, <2>2 DEF Stepped, WaitsInIt, OneThing, NoEvent, Idle
  <1>3. UnplantedIsPending /\ PendingIsStepping
    BY DEF Init, UnplantedIsPending, PendingIsStepping, Unplanted, Unused
  <1> QED
    BY <1>1, <1>2, <1>3 DEF StepInv

(* A hook that is added leaves the pending one alone, and is planted.       *)
LEMMA StepAdded ==
    ASSUME StepInv, SafeInv', UNCHANGED <<pendingBp, memPending, guest>>, on \subseteq on',
           \/ UNCHANGED <<hooks, byte>>
           \/ \E s \in Slots, h \in Hook :
                /\ Alloc(s) /\ hooks' = [hooks EXCEPT ![s] = h]
                /\ \/ h.kind # "breakpoint" /\ UNCHANGED byte
                   \/ h.key \in Vaddrs /\ byte' = [byte EXCEPT ![h.key] = "cc"]
    PROVE  StepInv'
  <1> USE DEF StepInv
  <1>1. \A t \in Live : hooks'[t] = hooks[t]
    <2>1. Live = {t \in Slots : hooks[t].active}
      BY LiveIsActive DEF SafeInv, HooksFindable
    <2> QED
      BY <2>1, AllocFree DEF SafeInv, TypeOK
  <1>2. pendingBp # 0 => hooks'[pendingBp] = hooks[pendingBp]
    BY <1>1 DEF SafeInv, PendingBreakpoint, Of
  <1>3. \A v \in Vcpus : Stepped(v)' /\ WaitsInIt(v)'
    BY <1>2 DEF guest, Stepped, PastIt, WaitsInIt
  <1>4. ASSUME NEW t \in Slots, Unplanted(t)' PROVE Unplanted(t)
    <2>1. CASE UNCHANGED <<hooks, byte>>
      BY <1>4, <2>1 DEF Unplanted
    <2>2. ASSUME NEW s \in Slots, NEW h \in Hook, hooks' = [hooks EXCEPT ![s] = h],
                 \/ h.kind # "breakpoint" /\ UNCHANGED byte
                 \/ h.key \in Vaddrs /\ byte' = [byte EXCEPT ![h.key] = "cc"]
          PROVE  Unplanted(t)
      <3>1. hooks'[t] = IF t = s THEN h ELSE hooks[t]
        BY <2>2 DEF SafeInv, TypeOK
      <3>2. \A b \in Vaddrs : byte'[b] = byte[b] \/ byte'[b] = "cc"
        BY <2>2 DEF SafeInv, TypeOK
      <3>3. h.kind = "breakpoint" => byte'[h.key] = "cc"
        BY <2>2 DEF SafeInv, TypeOK
      <3>4. t # s
        BY <1>4, <3>1, <3>3 DEF Unplanted
      <3>5. hooks'[t].kind = "breakpoint" => hooks'[t].key \in Vaddrs
        BY DEF SafeInv, SlotShapes
      <3> QED
        BY <1>4, <3>1, <3>2, <3>4, <3>5 DEF Unplanted
    <2> QED
      BY <2>1, <2>2
  <1>5. UnplantedIsPending' /\ PendingIsStepping'
    BY <1>4 DEF guest, UnplantedIsPending, PendingIsStepping
  <1> QED
    BY <1>3, <1>5

LEMMA StepAdd ==
    ASSUME StepInv, SafeInv', NEW n \in Names,
           \/ \E r \in Regs : HookRegAdd(n, r)
           \/ \E a \in Vaddrs : HookBpAdd(n, a)
           \/ \E l \in Leaves \cup {AnyLeaf} : HookCpuidAdd(n, l)
           \/ \E t \in Tables : HookDescAdd(n, t)
           \/ \E g \in Gfns, m \in Masks, c \in BOOLEAN : HookMemAddGfn(n, g, m, c)
    PROVE  StepInv'
  <1>1. ASSUME NEW r \in Regs, HookRegAdd(n, r) PROVE StepInv'
    <2>1. Filled(n, "register", r) \in Hook /\ Filled(n, "register", r).kind = "register"
      BY FilledType DEF Kinds, Keys, Pages, Filled
    <2> QED
      BY <1>1, <2>1, StepAdded DEF HookRegAdd
  <1>2. ASSUME NEW a \in Vaddrs, HookBpAdd(n, a) PROVE StepInv'
    <2> DEFINE h == [Filled(n, "breakpoint", a) EXCEPT !.orig = byte[a]]
    <2>1. h \in Hook /\ h.key = a
      BY FilledType DEF Kinds, Keys, Filled, StepInv, SafeInv, TypeOK
    <2>2. \A ok \in BOOLEAN : EnsureBpInfra(ok) => on \subseteq on'
      BY DEF EnsureBpInfra
    <2> HIDE DEF h
    <2>3. \/ UNCHANGED <<hooks, byte>>
          \/ \E s \in Slots : /\ Alloc(s) /\ hooks' = [hooks EXCEPT ![s] = h]
                              /\ byte' = [byte EXCEPT ![a] = "cc"]
      BY <1>2 DEF HookBpAdd, h
    <2> QED
      BY <1>2, <2>1, <2>2, <2>3, StepAdded DEF HookBpAdd
  <1>3. ASSUME NEW l \in Leaves \cup {AnyLeaf}, HookCpuidAdd(n, l) PROVE StepInv'
    <2>1. Filled(n, "cpuid", l) \in Hook /\ Filled(n, "cpuid", l).kind = "cpuid"
      BY FilledType DEF Kinds, Keys, Filled
    <2>2. on \subseteq on'
      BY <1>3 DEF HookCpuidAdd, EnsureOne
    <2> QED
      BY <1>3, <2>1, <2>2, StepAdded DEF HookCpuidAdd
  <1>4. ASSUME NEW t \in Tables, HookDescAdd(n, t) PROVE StepInv'
    <2>1. Filled(n, "descriptor", t) \in Hook /\ Filled(n, "descriptor", t).kind = "descriptor"
      BY FilledType DEF Kinds, Keys, Filled
    <2>2. on \subseteq on'
      BY <1>4 DEF HookDescAdd, EnsureOne
    <2> QED
      BY <1>4, <2>1, <2>2, StepAdded DEF HookDescAdd
  <1>5. ASSUME NEW g \in Gfns, NEW m \in Masks, NEW c \in BOOLEAN, HookMemAddGfn(n, g, m, c)
        PROVE  StepInv'
    <2> DEFINE h == [Filled(n, "mem", g) EXCEPT !.access = m, !.capture = c]
    <2>1. h \in Hook /\ h.kind = "mem"
      BY FilledType, MasksAssumption DEF Kinds, Keys, Pages, Filled
    <2>2. on \subseteq on'
      BY <1>5 DEF HookMemAddGfn, HookSsEnsure, EnsureOne
    <2> HIDE DEF h
    <2>3. UNCHANGED hooks \/ \E s \in Slots : Alloc(s) /\ hooks' = [hooks EXCEPT ![s] = h]
      BY <1>5 DEF HookMemAddGfn, h
    <2> QED
      BY <1>5, <2>1, <2>2, <2>3, StepAdded DEF HookMemAddGfn
  <1> QED
    BY <1>1, <1>2, <1>3, <1>4, <1>5

LEMMA StepRemove ==
    ASSUME StepInv, SafeInv', NEW n \in Names, pendingBp \notin Named(n), HookRemove(n)
    PROVE  StepInv'
  <1> USE DEF StepInv
  <1>1. PICK s \in Named(n) :
           /\ hooks' = [hooks EXCEPT ![s] = Unused]
           /\ memPending' = Forget({s})
           /\ IF hooks[s].kind = "breakpoint"
                 THEN byte' = Restored(s) /\ pendingBp' = Unpend(s)
                 ELSE UNCHANGED <<byte, pendingBp>>
    BY DEF HookRemove
  <1>2. s \in Live /\ s \in Slots /\ s # pendingBp
    BY LiveSlots DEF SafeInv, Named
  <1>3. UNCHANGED <<on, pendingBp, guest>>
    BY <1>1, <1>2 DEF HookRemove, Unpend
  <1>4. \A t \in Slots : hooks'[t] = IF t = s THEN Unused ELSE hooks[t]
    BY <1>1, <1>2 DEF SafeInv, TypeOK
  <1>5. pendingBp # 0 => hooks'[pendingBp] = hooks[pendingBp]
    BY <1>2, <1>4, HookMaxAssumption DEF SafeInv, TypeOK, Slots
  <1>6. \A v \in Vcpus : Stepped(v)' /\ WaitsInIt(v)'
    BY <1>3, <1>5 DEF guest, Stepped, PastIt, WaitsInIt
  <1>7. PendingIsStepping'
    BY <1>1, <1>3 DEF guest, PendingIsStepping, Forget
  <1>8. ASSUME NEW t \in Slots, Unplanted(t)' PROVE Unplanted(t)
    <2>1. t # s /\ hooks'[t] = hooks[t]
      BY <1>4, <1>8 DEF Unplanted, Unused
    <2>2. hooks[t].key \in Vaddrs
      BY <1>8, <2>1 DEF SafeInv, SlotShapes, Unplanted
    <2>3. t \in Live
      BY <1>8, <2>1, LiveIsActive DEF SafeInv, HooksFindable, Unplanted
    <2>4. hooks[s].kind = "breakpoint" => hooks[t].key # hooks[s].key
      BY <1>2, <1>8, <2>1, <2>3 DEF SafeInv, HooksFindable, Unplanted, Of
    <2>5. byte'[hooks[t].key] = byte[hooks[t].key]
      BY <1>1, <2>2, <2>4 DEF Restored, SafeInv, TypeOK
    <2> QED
      BY <1>8, <2>1, <2>5 DEF Unplanted
  <1>9. UnplantedIsPending'
    BY <1>3, <1>8 DEF UnplantedIsPending
  <1> QED
    BY <1>6, <1>7, <1>9

LEMMA StepClear ==
    ASSUME StepInv, SafeInv', HookManagerClear
    PROVE  StepInv'
  <1> USE DEF StepInv
  <1>1. \A v \in Vcpus : ~stepping'[v] /\ event'[v] = NoEvent /\ cur'[v] = cur[v]
    BY DEF HookManagerClear
  <1>2. NoEvent \notin Effect /\ NoEvent.type = "none"
    BY DEF NoEvent, Effect
  <1>3. \A v \in Vcpus : Stepped(v)' /\ WaitsInIt(v)'
    BY <1>1, <1>2 DEF Stepped, WaitsInIt
  <1>4. ASSUME NEW v \in Vcpus PROVE memPending'[v] = 0
    <2>1. memPending[v] # 0 => memPending[v] \in Live
      BY DEF SafeInv, PendingCaptures, Of
    <2> QED
      BY <2>1 DEF HookManagerClear, Forget
  <1>5. \A s \in Slots : ~Unplanted(s)'
    BY DEF HookManagerClear, Unplanted, Unused
  <1>6. pendingBp' = 0
    BY DEF HookManagerClear
  <1> QED
    BY <1>3, <1>4, <1>5, <1>6 DEF UnplantedIsPending, PendingIsStepping

(* A vcpu that is single-stepped finds its instruction not planted: the     *)
(* breakpoint there is the one mid-recoil.                                  *)
LEMMA NotPlanted ==
    ASSUME StepInv, Lost = {}, NEW v \in Vcpus, stepping[v], event[v] = NoEvent
    PROVE  cur[v].busy /\ cur[v].does = {} /\ ~Planted(cur[v])
  <1>1. PastIt(v) /\ event[v].type # "step"
    BY DEF StepInv, Stepped, NoEvent
  <1>2. cur[v].at \in Vaddrs => byte[cur[v].at] = "own"
    <2>1. ASSUME cur[v].at \in Vaddrs PROVE byte[cur[v].at] = "own"
      <3>1. pendingBp \in BpAt(cur[v].at) /\ byte[cur[v].at] = hooks[pendingBp].orig
        BY <1>1, <2>1 DEF PastIt, StepInv, SafeInv, PendingBreakpoint, BpAt
      <3> QED
        BY <2>1, <3>1 DEF StepInv, SafeInv, OwnBytes
    <2> QED
      BY <2>1
  <1> QED
    BY <1>1, <1>2 DEF PastIt, Planted

LEMMA StepExecute ==
    ASSUME StepInv, Undisturbed, SafeInv', NEW v \in Vcpus, Execute(v)
    PROVE  StepInv'
  <1>1. PICK i \in InHand(v) :
           TrapInt3(v, i) \/ StrayInt3(v, i) \/ TrapEffect(v, i) \/ Retire(v, i)
    BY DEF Execute
  <1>2. /\ event[v] = NoEvent
        /\ UNCHANGED <<hooks, count, on, pendingBp, memPending, shared, watch, byte, stepping>>
    BY <1>1 DEF Execute, TrapInt3, StrayInt3, TrapEffect, Retire, Waits
  <1>3. i \in Insn /\ i.busy /\ OneThing(i)
    <2>1. Begun \subseteq Insn /\ \A j \in Begun : j.busy /\ OneThing(j)
      BY ConstantTypes DEF Begun, Undisturbed, OneThing
    <2>2. cur[v] \in Insn /\ OneThing(cur[v])
      BY DEF StepInv, SafeInv, TypeOK, Insn, WaitsInIt
    <2> QED
      BY <1>1, <2>1, <2>2 DEF InHand
  <1>4. PICK j, e : Waits(v, j, e)
    BY <1>1 DEF TrapInt3, StrayInt3, TrapEffect, Retire
  <1>5. \A u \in Vcpus : /\ cur'[u] = IF u = v THEN j ELSE cur[u]
                         /\ event'[u] = IF u = v THEN e ELSE event[u]
    BY <1>4 DEF Waits, StepInv, SafeInv, TypeOK
  <1>6. \A u \in Vcpus : u # v => Stepped(u)' /\ WaitsInIt(u)'
    BY <1>2, <1>5 DEF StepInv, Stepped, PastIt, WaitsInIt
  <1>7. /\ NoEvent \notin Effect /\ NoEvent.type = "none" /\ OneThing(Idle)
        /\ \A d \in Effect : d # NoEvent /\ d.type \notin {"step", "int3"}
    BY DEF NoEvent, Effect, OneThing, Idle
  <1>8. ASSUME stepping[v] PROVE Stepped(v)' /\ WaitsInIt(v)'
    <2>1. cur[v].busy /\ cur[v].does = {} /\ ~Planted(cur[v])
      BY <1>2, <1>8, NotPlanted DEF Undisturbed
    <2>2. i = cur[v]
      BY <1>1, <2>1 DEF InHand
    <2>3. "ss" \in shared
      BY <1>8 DEF StepInv, Stepped, SafeInv, SharedRegistrations
    <2>4. Waits(v, Idle, [NoEvent EXCEPT !.type = "step"])
      BY <1>1, <1>8, <2>1, <2>2, <2>3 DEF TrapInt3, StrayInt3, TrapEffect, Retire
    <2>5. cur'[v] = Idle /\ event'[v].type = "step" /\ event'[v] \notin Effect
      BY <2>4 DEF Waits, StepInv, SafeInv, TypeOK, NoEvent, Effect
    <2> QED
      BY <1>2, <1>7, <1>8, <2>5 DEF StepInv, Stepped, PastIt, WaitsInIt
  <1>9. ASSUME ~stepping[v] PROVE Stepped(v)' /\ WaitsInIt(v)'
    <2>1. CASE TrapInt3(v, i)
      <3>1. cur'[v] = i /\ event'[v] = [type |-> "int3", key |-> i.at, mode |-> "x"]
        BY <2>1 DEF TrapInt3, Waits, StepInv, SafeInv, TypeOK
      <3>2. event'[v] \notin Effect
        BY <3>1 DEF Effect
      <3>3. event'[v].type = "int3" /\ event'[v].key = i.at
        BY <3>1
      <3> QED
        BY <1>2, <1>3, <1>9, <3>1, <3>2, <3>3 DEF Stepped, WaitsInIt
    <2>2. CASE StrayInt3(v, i)
      <3>1. cur'[v] = Idle /\ event'[v] = NoEvent
        BY <2>2 DEF StrayInt3, Waits, StepInv, SafeInv, TypeOK
      <3> QED
        BY <1>2, <1>7, <1>9, <3>1 DEF Stepped, WaitsInIt
    <2>3. CASE TrapEffect(v, i)
      <3>1. cur'[v] = i /\ event'[v] \in i.does
        BY <2>3 DEF TrapEffect, Waits, StepInv, SafeInv, TypeOK
      <3>2. event'[v] \in Effect
        BY <1>3, <3>1 DEF Insn
      <3> QED
        BY <1>2, <1>3, <1>7, <1>9, <3>1, <3>2 DEF Stepped, WaitsInIt
    <2>4. CASE Retire(v, i)
      <3>1. cur'[v] = Idle /\ event'[v] = NoEvent
        BY <1>9, <2>4 DEF Retire, Waits, StepInv, SafeInv, TypeOK
      <3> QED
        BY <1>2, <1>7, <1>9, <3>1 DEF Stepped, WaitsInIt
    <2> QED
      BY <1>1, <2>1, <2>2, <2>3, <2>4
  <1>10. UnplantedIsPending' /\ PendingIsStepping'
    BY <1>2 DEF StepInv, UnplantedIsPending, PendingIsStepping, Unplanted
  <1> QED
    BY <1>6, <1>8, <1>9, <1>10 DEF StepInv

(* The callbacks that answer v, leave the breakpoints alone and step        *)
(* nothing.                                                                 *)
LEMMA StepThrough ==
    ASSUME StepInv, SafeInv', NEW v \in Vcpus, event[v] \in Effect,
           Answer(v), LetThrough(v),
           UNCHANGED <<hooks, count, on, pendingBp, memPending, shared, watch, byte, stepping>>
    PROVE  StepInv'
  <1>1. ~stepping[v]
    <2>1. event[v].type # "step" /\ event[v] # NoEvent
      BY DEF Effect, NoEvent
    <2> QED
      BY <2>1 DEF StepInv, Stepped, PastIt
  <1>2. \A u \in Vcpus : u # v => event'[u] = event[u] /\ cur'[u] = cur[u]
    BY DEF Answer, LetThrough, StepInv, SafeInv, TypeOK
  <1>3. event'[v] = NoEvent /\ NoEvent \notin Effect /\ NoEvent.type = "none"
    BY DEF Answer, NoEvent, Effect, StepInv, SafeInv, TypeOK
  <1>4. cur'[v].does \subseteq cur[v].does /\ cur'[v].at = cur[v].at
    BY DEF LetThrough, StepInv, SafeInv, TypeOK
  <1>5. OneThing(cur[v])
    BY DEF StepInv, WaitsInIt
  <1>6. Stepped(v)' /\ WaitsInIt(v)'
    BY <1>1, <1>3, <1>4, <1>5 DEF Stepped, WaitsInIt, OneThing
  <1>7. \A u \in Vcpus : u # v => Stepped(u)' /\ WaitsInIt(u)'
    BY <1>2 DEF StepInv, Stepped, PastIt, WaitsInIt
  <1>8. UnplantedIsPending' /\ PendingIsStepping'
    BY DEF StepInv, UnplantedIsPending, PendingIsStepping, Unplanted
  <1> QED
    BY <1>6, <1>7, <1>8 DEF StepInv

LEMMA StepMemHit ==
    ASSUME StepInv, SafeInv', NEW v \in Vcpus, OnMemHit(v)
    PROVE  StepInv'
  <1>1. event[v] \in Effect /\ event[v].type = "mem"
    BY EventKeys DEF OnMemHit, StepInv, SafeInv, TypeOK
  <1>2. CASE UNCHANGED <<memPending, stepping>>
    BY <1>1, <1>2, StepThrough DEF OnMemHit
  <1>3. ASSUME "ss" \in on, Toggle(v), NEW s, memPending' = [memPending EXCEPT ![v] = s]
        PROVE  StepInv'
    <2>1. UNCHANGED <<hooks, count, on, pendingBp, shared, watch, byte>>
      BY DEF OnMemHit
    <2>2. ~stepping[v]
      <3>1. event[v].type # "step" /\ event[v] # NoEvent
        BY <1>1 DEF Effect, NoEvent
      <3> QED
        BY <3>1 DEF StepInv, Stepped, PastIt
    <2>3. \A u \in Vcpus : u # v => /\ event'[u] = event[u] /\ cur'[u] = cur[u]
                                    /\ stepping'[u] = stepping[u]
                                    /\ memPending'[u] = memPending[u]
      BY <1>3 DEF OnMemHit, Answer, LetThrough, Toggle, StepInv, SafeInv, TypeOK
    <2>4. event'[v] = NoEvent /\ NoEvent \notin Effect /\ NoEvent.type = "none" /\ stepping'[v]
      BY <1>3, <2>2 DEF OnMemHit, Answer, Toggle, NoEvent, Effect, StepInv, SafeInv, TypeOK
    <2>5. cur'[v].busy /\ cur'[v].does = {} /\ cur'[v].at \notin Vaddrs
      <3>1. cur[v].busy /\ event[v] \in cur[v].does /\ OneThing(cur[v])
        BY <1>1 DEF StepInv, WaitsInIt
      <3>2. /\ cur'[v].does = cur[v].does \ {event[v]} /\ cur'[v].at = cur[v].at
            /\ cur'[v].busy = cur[v].busy
        BY DEF OnMemHit, LetThrough, StepInv, SafeInv, TypeOK
      <3> QED
        BY <3>1, <3>2 DEF OneThing
    <2>6. Stepped(v)' /\ WaitsInIt(v)'
      BY <1>3, <2>1, <2>4, <2>5 DEF Stepped, PastIt, WaitsInIt, OneThing
    <2>7. \A u \in Vcpus : u # v => Stepped(u)' /\ WaitsInIt(u)'
      BY <2>1, <2>3 DEF StepInv, Stepped, PastIt, WaitsInIt
    <2>8. UnplantedIsPending'
      BY <2>1 DEF StepInv, UnplantedIsPending, Unplanted
    <2>9. PendingIsStepping'
      BY <2>1, <2>3, <2>4 DEF StepInv, PendingIsStepping
    <2> QED
      BY <2>6, <2>7, <2>8, <2>9 DEF StepInv
  <1> QED
    BY <1>2, <1>3 DEF OnMemHit

LEMMA StepBpHit ==
    ASSUME StepInv, Undisturbed, SafeInv', NEW v \in Vcpus, OnBpHit(v)
    PROVE  StepInv'
  <1> DEFINE a == event[v].key
  <1>1. event[v].type = "int3" /\ a \in Vaddrs
    BY EventKeys DEF OnBpHit, StepInv, SafeInv, TypeOK
  <1>2. ~stepping[v] /\ cur[v].busy /\ cur[v].at = a /\ cur[v].does = {}
    <2>1. event[v].type # "step" /\ event[v] # NoEvent
      BY <1>1 DEF NoEvent
    <2> QED
      BY <1>1, <2>1 DEF StepInv, Stepped, PastIt, WaitsInIt, OneThing
  <1>3. \A u \in Vcpus : u = v
    BY <1>1 DEF Undisturbed, AloneOrUnplanted
  <1>4. event'[v] = NoEvent /\ NoEvent \notin Effect /\ NoEvent.type = "none"
    BY DEF OnBpHit, Answer, NoEvent, Effect, StepInv, SafeInv, TypeOK
  <1>5. UNCHANGED <<hooks, count, on, memPending, shared, watch>>
    BY DEF OnBpHit
  <1>6. CASE cur' = [cur EXCEPT ![v] = Idle] /\ UNCHANGED <<byte, pendingBp, stepping>>
    <2>1. cur'[v] = Idle /\ OneThing(Idle)
      BY <1>6 DEF StepInv, SafeInv, TypeOK, OneThing, Idle
    <2>2. Stepped(v)' /\ WaitsInIt(v)'
      BY <1>2, <1>4, <1>6, <2>1 DEF Stepped, WaitsInIt
    <2>3. UnplantedIsPending' /\ PendingIsStepping'
      BY <1>5, <1>6 DEF StepInv, UnplantedIsPending, PendingIsStepping, Unplanted
    <2> QED
      BY <1>3, <2>2, <2>3 DEF StepInv
  <1>7. ASSUME NEW s \in BpAt(a), byte' = Restored(s), pendingBp' = s, Toggle(v), UNCHANGED cur
        PROVE  StepInv'
    <2>1. s \in Slots /\ s # 0 /\ s \in Of("breakpoint") /\ s \in Live /\ hooks[s].key = a
      BY LiveSlots DEF StepInv, SafeInv, BpAt, Slots
    <2>2. stepping'[v]
      BY <1>2, <1>7 DEF Toggle, StepInv, SafeInv, TypeOK
    <2>3. "ss" \in on
      BY <2>1 DEF StepInv, SafeInv, SharedRegistrations
    <2>4. Stepped(v)' /\ WaitsInIt(v)'
      BY <1>2, <1>4, <1>5, <1>7, <2>1, <2>2, <2>3 DEF Stepped, PastIt, WaitsInIt, OneThing
    <2>5. PendingIsStepping'
      BY <1>3, <2>2 DEF PendingIsStepping
    <2>6. pendingBp = 0
      BY <1>2, <1>3 DEF StepInv, PendingIsStepping
    <2>7. ASSUME NEW t \in Slots, Unplanted(t)', t # s PROVE FALSE
      <3>1. hooks[t].key \in Vaddrs
        BY <1>5, <2>7 DEF StepInv, SafeInv, SlotShapes, Unplanted
      <3>2. t \in Live
        BY <1>5, <2>7, LiveIsActive DEF StepInv, SafeInv, HooksFindable, Unplanted
      <3>3. hooks[t].key # a
        BY <1>5, <2>1, <2>7, <3>2 DEF StepInv, SafeInv, HooksFindable, Unplanted, Of
      <3>4. byte'[hooks[t].key] = byte[hooks[t].key]
        BY <1>7, <2>1, <3>1, <3>3 DEF Restored, StepInv, SafeInv, TypeOK
      <3>5. Unplanted(t)
        BY <1>5, <2>7, <3>4 DEF Unplanted
      <3> QED
        BY <2>6, <3>5 DEF StepInv, UnplantedIsPending, Slots
    <2>8. UnplantedIsPending'
      BY <1>7, <2>7 DEF UnplantedIsPending
    <2> QED
      BY <1>3, <2>4, <2>5, <2>8 DEF StepInv
  <1> QED
    BY <1>6, <1>7 DEF OnBpHit, Undisturbed

LEMMA StepSingleStep ==
    ASSUME StepInv, Undisturbed, SafeInv', NEW v \in Vcpus, OnSingleStep(v)
    PROVE  StepInv'
  <1>1. stepping[v]
    BY DEF OnSingleStep, StepInv, Stepped
  <1>2. \A u \in Vcpus : u # v => /\ event'[u] = event[u] /\ cur'[u] = cur[u]
                                  /\ stepping'[u] = stepping[u]
                                  /\ memPending'[u] = memPending[u]
    BY DEF OnSingleStep, Answer, Toggle, Done, StepInv, SafeInv, TypeOK
  <1>3. /\ event'[v] = NoEvent /\ NoEvent \notin Effect /\ NoEvent.type = "none"
        /\ ~stepping'[v] /\ memPending'[v] = 0 /\ cur'[v] = cur[v]
    BY <1>1 DEF OnSingleStep, Answer, Toggle, Done, NoEvent, Effect, StepInv, SafeInv, TypeOK
  <1>4. UNCHANGED <<hooks, count, on, shared, watch>> /\ pendingBp' = 0
    BY DEF OnSingleStep, HookBpStepped
  <1>5. Stepped(v)' /\ WaitsInIt(v)'
    BY <1>3 DEF StepInv, Stepped, WaitsInIt
  <1>6. ASSUME NEW u \in Vcpus, u # v PROVE Stepped(u)' /\ WaitsInIt(u)'
    <2>1. Vaddrs = {}
      BY <1>6 DEF Undisturbed, AloneOrUnplanted
    <2> QED
      BY <1>2, <1>4, <1>6, <2>1 DEF StepInv, Stepped, PastIt, WaitsInIt
  <1>7. PendingIsStepping'
    BY <1>2, <1>3, <1>4 DEF StepInv, PendingIsStepping
  <1>8. ASSUME NEW t \in Slots, Unplanted(t)' PROVE FALSE
    <2>1. hooks[t].key \in Vaddrs
      BY <1>4, <1>8 DEF StepInv, SafeInv, SlotShapes, Unplanted
    <2>2. CASE pendingBp = 0
      <3>1. Unplanted(t)
        BY <1>4, <1>8, <2>2 DEF OnSingleStep, HookBpStepped, Unplanted
      <3> QED
        BY <2>2, <3>1 DEF StepInv, UnplantedIsPending, Slots
    <2>3. CASE pendingBp # 0
      <3>1. byte' = [byte EXCEPT ![hooks[pendingBp].key] = "cc"]
        BY <2>3 DEF OnSingleStep, HookBpStepped, Undisturbed
      <3>2. hooks[t].key # hooks[pendingBp].key /\ byte'[hooks[t].key] = byte[hooks[t].key]
        BY <1>4, <1>8, <2>1, <3>1 DEF Unplanted, StepInv, SafeInv, TypeOK
      <3>3. Unplanted(t)
        BY <1>4, <1>8, <3>2 DEF Unplanted
      <3> QED
        BY <3>2, <3>3 DEF StepInv, UnplantedIsPending
    <2> QED
      BY <2>2, <2>3
  <1>9. UnplantedIsPending'
    BY <1>8 DEF UnplantedIsPending
  <1> QED
    BY <1>5, <1>6, <1>7, <1>9 DEF StepInv

LEMMA StepPoll ==
    ASSUME StepInv, Undisturbed, SafeInv', NEW v \in Vcpus, HookPoll(v)
    PROVE  StepInv'
  <1>1. CASE OnRegHit(v) \/ Unclaimed(v) \/ OnCpuidHit(v) \/ OnDescHit(v)
    <2>1. event[v] \in Effect
      <3>1. event[v].type \in {"mem", "reg", "cpuid", "desc"}
        BY <1>1 DEF OnRegHit, Unclaimed, OnCpuidHit, OnDescHit
      <3> QED
        BY <3>1, EventTypes DEF StepInv, SafeInv, TypeOK
    <2> QED
      BY <1>1, <2>1, StepThrough DEF OnRegHit, Unclaimed, OnCpuidHit, OnDescHit, OnSharedHit
  <1> QED
    BY <1>1, StepBpHit, StepMemHit, StepSingleStep DEF HookPoll

LEMMA StepNext ==
    ASSUME StepInv, Undisturbed, [Next]_vars
    PROVE  StepInv'
  <1>1. SafeInv'
    BY SafeStep DEF StepInv
  <1>2. CASE Client
    BY <1>1, <1>2, StepAdd, StepRemove, StepClear DEF Client, Undisturbed
  <1>3. ASSUME NEW v \in Vcpus, HookPoll(v) PROVE StepInv'
    BY <1>1, <1>3, StepPoll
  <1>4. ASSUME NEW v \in Vcpus, Execute(v) PROVE StepInv'
    BY <1>1, <1>4, StepExecute
  <1>5. CASE UNCHANGED vars
    BY <1>1, <1>5 DEF vars, StepInv, Stepped, PastIt, WaitsInIt, UnplantedIsPending,
                      PendingIsStepping, Unplanted
  <1> QED
    BY <1>2, <1>3, <1>4, <1>5 DEF Next

(* A capture is sent as complete by the single-step callback only: a mem    *)
(* hit finds none pending on its vcpu.                                      *)
LEMMA CompleteStep ==
    ASSUME StepInv, [Next]_vars, ~UNCHANGED vars, NEW i \in 1..Len(sent'),
           sent'[i].captured, sent'[i].ok
    PROVE  event[sent'[i].vcpu].type = "step"
  <1>1. CASE Client \/ \E v \in Vcpus : Execute(v)
    <2>1. sent' = <<>>
      BY <1>1 DEF Client, HookRegAdd, HookBpAdd, HookCpuidAdd, HookDescAdd, HookMemAddGfn,
                  HookRemove, HookManagerClear, Execute
    <2> QED
      BY <2>1
  <1>2. ASSUME NEW v \in Vcpus, HookPoll(v) PROVE event[sent'[i].vcpu].type = "step"
    <2>1. CASE OnBpHit(v) \/ OnRegHit(v) \/ Unclaimed(v) \/ OnCpuidHit(v) \/ OnDescHit(v)
      <3>1. sent' = <<>> \/ \E s : sent' = <<Callback(s, v, FALSE, FALSE)>>
        BY <2>1 DEF OnBpHit, OnRegHit, Unclaimed, OnCpuidHit, OnDescHit, OnSharedHit
      <3> QED
        BY <3>1 DEF Callback
    <2>2. CASE OnMemHit(v)
      <3>1. event[v].type = "mem" /\ event[v] # NoEvent
        BY <2>2 DEF OnMemHit, NoEvent
      <3>2. memPending[v] = 0
        BY <3>1 DEF StepInv, PendingIsStepping, Stepped, PastIt
      <3>3. sent' = <<>> \/ \E s, c : sent' = <<Callback(s, v, c, FALSE)>>
        BY <2>2, <3>2 DEF OnMemHit, Finished
      <3> QED
        BY <3>3 DEF Callback
    <2>3. CASE OnSingleStep(v)
      <3>1. sent' = <<>> \/ \E s, ok : sent' = <<Callback(s, v, TRUE, ok)>>
        BY <2>3 DEF OnSingleStep, Finished
      <3>2. sent'[i].vcpu = v
        BY <3>1 DEF Callback
      <3> QED
        BY <2>3, <3>2 DEF OnSingleStep
    <2> QED
      BY <1>2, <2>1, <2>2, <2>3 DEF HookPoll
  <1> QED
    BY <1>1, <1>2 DEF Next

LEMMA StepAlways == ASSUME Undisturbed PROVE Spec => []StepInv
  <1>1. StepInv /\ [Next]_vars => StepInv'
    BY StepNext
  <1> QED
    BY <1>1, StepInit, PTL DEF Spec

(* In an undisturbed guest a breakpoint that is not planted is the one      *)
(* mid-recoil: each hit is over before the next one.                        *)
THEOREM RecoilKnown == ASSUME Undisturbed PROVE Spec => []UnplantedIsPending
  BY StepAlways, PTL DEF StepInv

(* In an undisturbed guest single-stepping is on for every vcpu something   *)
(* waits on: no Toggle turns it off early.                                  *)
THEOREM PendingStepped == ASSUME Undisturbed PROVE Spec => []PendingIsStepping
  BY StepAlways, PTL DEF StepInv

(* In an undisturbed guest a capture is complete only by its vcpu's step.   *)
THEOREM CompleteStepped == ASSUME Undisturbed PROVE Spec => CompleteMeansStepped
  <1>1. StepInv /\ [Next]_vars =>
           [\A i \in 1..Len(sent') :
              sent'[i].captured /\ sent'[i].ok => event[sent'[i].vcpu].type = "step"]_vars
    BY CompleteStep
  <1> QED
    BY <1>1, StepAlways, PTL DEF Spec, CompleteMeansStepped
=============================================================================
