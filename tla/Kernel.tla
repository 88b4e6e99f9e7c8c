------------------------------- MODULE Kernel -------------------------------
(* The kernel profile of a handle (impl/kern/kprof.c) and the calls that     *)
(* need one (impl/bind/rv_kern.c).  rv_prof pauses the guest, copies its     *)
(* kernel image, decodes symbols and types from the copy, checks them with   *)
(* each other and with the guest, and resumes it; then symbols, types and    *)
(* walks answer until the next rv_prof or rv_detach.                         *)
(*                                                                           *)
(* A guest is a record: mapped and cells (its memory), blobs and banners     *)
(* (address -> the type data, the banner that starts there), anchor (where   *)
(* LSTAR points), task (the bytes of init_task); asks, what is asked of it,  *)
(* and walked, whether its structures are.  intact says that this is what a  *)
(* kernel builds: symbols is then its table and btfAt where its types lie.   *)
EXTENDS KernelTypes, KernelWalks

CONSTANTS
    Guests,
    LinuxBanner, InitTask, NrCpuIds, PerCpuOffset,  \* names of symbols
    PerCpuVars,     \* the names per-cpu addresses are asked for
    LinkMembers,    \* the <<type, member>> lists are walked by
    GivenOffset,    \* the offset the _off forms are given
    Swapper,        \* what init_task.comm reads
    ScanHits,       \* BANNER_HITS_MAX
    CheckHits       \* the hits ksym_check_banner looks at

(* Cells and the fields of types are unsigned numbers.                       *)
ASSUME GuestMemory ==
    \A g \in Guests :
        /\ g.anchor \in Nat /\ g.mapped \subseteq Nat
        /\ \A page \in g.mapped, k \in 0..(PageCells - 1) :
              LET va == page * PageCells + k IN va \in DOMAIN g.cells /\ g.cells[va] \in Nat
ASSUME GuestTypes ==
    \A g \in Guests : \A va \in DOMAIN g.blobs :
        LET types == g.blobs[va].types
        IN  /\ types \in Seq(ToSet(types))
            /\ \A t \in ToSet(types) :
                  /\ t.st \in Nat /\ t.kflag \in BOOLEAN /\ t.items \in Seq(ToSet(t.items))
                  /\ t.kind = "int" => t.bits \in Nat /\ t.boff \in Nat /\ t.signed \in BOOLEAN
                  /\ t.kind = "array" => t.elem \in Nat /\ t.nelems \in Nat
                  /\ \A m \in ToSet(t.items) :
                        /\ t.kind \in Composite => {m.type, m.off, m.width} \subseteq Nat
                        /\ t.kind \in Enums => m.val \in 0..(Pow2[EnumBits(t.kind)] - 1)
ASSUME GuestAsks ==
    /\ \A g \in Guests : \A q \in g.asks :
          /\ q.fn = "symat" => q.va \in Int
          /\ q.fn = "field" => /\ q.path \in Seq(ToSet(q.path))
                              /\ q.object \in Seq(0..(Pow2[ByteBits] - 1))
    /\ GivenOffset \in Int

VARIABLES
    guest,      \* the guest the handle is attached to
    img,        \* the copy of its image; start and end outlive the copy
    step        \* of kprof_init; 0 no profile, Ready a whole one

kernelVars == <<guest, img, step, sym, btf, ask, answer, walkVars>>

Steps == 8
Ready == Steps + 1

KernelInit ==
    /\ guest \in Guests
    /\ img = NoImage /\ step = 0
    /\ sym = NoTable /\ btf = NoBtf /\ ask = NoAsk /\ answer = No
    /\ WalksInit

---------------------------------------------------------------------------
(* The linux banners in the copy: all, and the first most of them.           *)
BannerHits(most) ==
    LET Hits == {va \in DOMAIN guest.banners : Copied(img, va, 1)}
    IN  {va \in Hits : Cardinality({v \in Hits : v < va}) < most}

CfgFromScan ==
    LET Parsed == {va \in BannerHits(ScanHits) : CfgFromBanner(guest.banners[va]) # NoCfg}
    IN  IF Parsed = {} THEN NoCfg ELSE CfgFromBanner(guest.banners[Min(Parsed)])

(* ksym_check_banner, and that its switches are the ones used.               *)
BannerFits ==
    LET s    == ByName(sym, LinuxBanner)
        here == guest.banners[sym[s].addr]
    IN  /\ s # 0
        /\ sym[s].addr \in BannerHits(CheckHits)
        /\ here.terminated
        /\ CfgFromBanner(here) = CfgFromScan
        /\ here.release

(* check_init_task: the name of the first task, through symbol and types.    *)
CommFits(f) ==
    /\ f.ok
    /\ f.kind = "cstr"
    /\ f.offset + f.size <= Len(guest.task)
    /\ Decode(f, SubSeq(guest.task, f.offset + 1, f.offset + f.size)).bytes = Swapper

InitTaskFits == ByName(sym, InitTask) # 0 /\ CommFits(Field(FieldType(NoName, "task_struct"), <<"comm">>))

---------------------------------------------------------------------------
(* kprof_init, the guest paused from its first step to its last.  A step     *)
(* that fails leaves no profile and names itself.                            *)
Idle == pc = "idle" /\ ask = NoAsk /\ step \in {0, Ready}

RvProf ==
    /\ Idle
    /\ step' = 1
    /\ img' = NoImage /\ sym' = NoTable /\ btf' = NoBtf /\ ask' = NoAsk /\ answer' = No
    /\ UNCHANGED <<guest, walkVars>>

FailsUnfreed ==
    /\ step' = 0
    /\ img' = NoImage /\ UNCHANGED <<sym, btf>>
    /\ ask' = [fn |-> "prof"] /\ answer' = [ok |-> FALSE, step |-> step]
    /\ UNCHANGED <<guest, walkVars>>

Fails ==
    /\ step' = 0
    /\ img' = NoImage /\ sym' = NoTable /\ btf' = NoBtf
    /\ ask' = [fn |-> "prof"] /\ answer' = [ok |-> FALSE, step |-> step]
    /\ UNCHANGED <<guest, walkVars>>

Passes == step' = step + 1 /\ UNCHANGED <<guest, ask, answer, walkVars>>

PauseAndLstar ==
    /\ step \in {1, 2}
    /\ \/ Fails
       \/ Passes /\ UNCHANGED <<img, sym, btf>>

LoadImage ==
    /\ step = 3
    /\ IF KimgLoad(guest) = NoImage THEN Fails
       ELSE Passes /\ img' = KimgLoad(guest) /\ UNCHANGED <<sym, btf>>

LoadSymbols ==
    /\ step = 4
    /\ LET cfg   == CfgFromScan
           table == IF cfg = NoCfg THEN NoTable ELSE KsymLoad(guest, img, cfg)
       IN  IF table = NoTable THEN Fails
           ELSE Passes /\ sym' = table /\ UNCHANGED <<img, btf>>

CheckBanner ==
    /\ step = 5
    /\ IF BannerFits THEN Passes /\ UNCHANGED <<img, sym, btf>> ELSE Fails

LoadTypes ==
    /\ step = 6
    /\ LET found == Locate(guest, img)
       IN  IF found = NoBtf THEN Fails
           ELSE Passes /\ btf' = found /\ UNCHANGED <<img, sym>>

CheckInitTask ==
    /\ step = 7
    /\ IF InitTaskFits THEN Passes /\ UNCHANGED <<img, sym, btf>> ELSE Fails

Resume ==
    /\ step = 8
    /\ \/ Fails
       \/ Passes /\ img' = [img EXCEPT !.runs = <<>>] /\ UNCHANGED <<sym, btf>>

KprofInit ==
    \/ PauseAndLstar \/ LoadImage \/ LoadSymbols \/ CheckBanner
    \/ LoadTypes \/ CheckInitTask \/ Resume

(* rv_detach frees the profile; a next handle may be attached.               *)
RvDetach ==
    /\ Idle /\ step = Ready
    /\ step' = 0
    /\ img' = NoImage /\ sym' = NoTable /\ btf' = NoBtf /\ ask' = NoAsk /\ answer' = No
    /\ UNCHANGED <<guest, walkVars>>

---------------------------------------------------------------------------
(* A question of symbols or types, and its answer.                           *)
SymbolAnswer(q) ==
    CASE q.fn = "sym" -> RvSym(q.name)
      [] q.fn = "symat" -> RvSymAt(img, q.va)
      [] q.fn = "ksyms" -> RvKsyms(q.first, q.max)

Ask ==
    /\ Idle /\ step = Ready
    /\ \E q \in guest.asks :
        /\ ask' = q
        /\ answer' = IF q.fn \in {"sym", "symat", "ksyms"} THEN SymbolAnswer(q) ELSE Answered(q)
    /\ UNCHANGED <<guest, img, step, sym, btf, walkVars>>

Answers ==
    /\ ask # NoAsk
    /\ ask' = NoAsk /\ answer' = No
    /\ UNCHANGED <<guest, img, step, sym, btf, walkVars>>

---------------------------------------------------------------------------
(* What the walkers take from the types: link_member, rb_layout, the fields  *)
(* of idr and xa_node; and from the symbols: the parts of a per-cpu address. *)
FieldNamed(type, path) == Field(FieldType(NoName, type), path)

OffsetOf(f, want) ==
    IF ~f.ok THEN NoMember ELSE IF NameOf(Type(Resolve(f.type))) = want THEN f.offset ELSE NoMember

LinkMember(type, member, want) == OffsetOf(FieldNamed(type, <<member>>), want)

RbLayout ==
    LET Lies(f, offset) == f.ok /\ f.offset = offset
        Of(member, offset) == Lies(FieldNamed("rb_node", <<member>>), offset)
    IN  Of("__rb_parent_color", 0) /\ Of("rb_right", 8) /\ Of("rb_left", 16)

IdrLayout ==
    LET size(id) == IF id = 0 THEN -1 ELSE Size(id)
        Hold(slots, most) ==
            /\ slots.ok
            /\ slots.size \div 8 \in {Pow2[k] : k \in 1..8}
            /\ most \in 1..MaxStruct
            /\ slots.offset + (slots.size \div 8) * 8 <= most
    IN  /\ \A p \in {<<"idr_rt", "xa_head">>, <<"idr_base">>} : FieldNamed("idr", p).ok
        /\ \A f \in {"shift", "offset", "parent"} : FieldNamed("xa_node", <<f>>).ok
        /\ Hold(FieldNamed("xa_node", <<"slots">>), size(FindStruct("xa_node")))

PerCpu(name) ==
    LET Known(n) == ByName(sym, n) # 0
    IN  [known |-> Known(name) /\ Known(PerCpuOffset) /\ Known(NrCpuIds),
         addr |-> IF Known(name) THEN sym[ByName(sym, name)].addr ELSE 0]

OffsetsOf(want) == {GivenOffset} \cup {LinkMember(m[1], m[2], want) : m \in LinkMembers}

Aside == <<guest, img, step, sym, btf, ask, answer>>

WalkCall ==
    /\ step = Ready /\ ask = NoAsk /\ guest.walked
    /\ LET offsets == [fn \in {"list", "hlist"} |->
                          OffsetsOf(IF fn = "list" THEN "list_head" ELSE "hlist_node")]
       IN  Call(offsets, RbLayout, IdrLayout, {PerCpu(n) : n \in PerCpuVars})
    /\ UNCHANGED Aside

WalkOn    == WalkStep /\ UNCHANGED Aside
WalkTaken == Taken /\ UNCHANGED Aside

KernelNext == RvProf \/ KprofInit \/ RvDetach \/ Ask \/ Answers \/ WalkCall \/ WalkOn \/ WalkTaken

KernelSpec == KernelInit /\ [][KernelNext]_kernelVars /\ WF_kernelVars(WalkOn)
---------------------------------------------------------------------------
(* Every variable in its range, and a profile whole or absent.               *)
TypeOK ==
    /\ step \in 0..Ready
    /\ pc \in {"idle", "links", "rb", "xa", "slots", "probing", "done"}
    /\ rc \in {"ok", "wild", "cap", "cycle", "budget", "unread", "torn", "refused"}
    /\ \A s \in ToSet(sym) : s.addr \in 0..(U64 - 1) /\ Len(s.name) \in 1..(MaxName - 2)
    /\ btf.n = 0 \/ btf.n = Len(btf.types) + 1
    /\ Len(stack) <= RbMaxDepth \/ call.fn = "idr"
    /\ step = 0 => sym = NoTable /\ btf = NoBtf
    /\ step >= 5 => sym # NoTable
    /\ step >= 7 => btf # NoBtf
    /\ pc # "idle" \/ ask # NoAsk => step = Ready \/ ask.fn = "prof"

(* What a kernel builds is found: only the hypervisor can fail its profile,  *)
(* and the profile has its symbols and its types, whatever else in the image *)
(* looks like digits, a banner or the magic of types (ksym.c:382, btf.c).    *)
IntactIsRead ==
    guest.intact =>
        /\ ask.fn = "prof" => answer.step \in {1, 2, 8}
        /\ step >= 5 => sym = guest.symbols
        /\ step >= 7 => btf.va = guest.btfAt

(* A table is only believed if it is one: it rises from symbol to symbol and *)
(* has its _text where the image begins (ksym.c:316, 329).                   *)
TableIsSound ==
    sym # NoTable =>
        /\ \A i, j \in DOMAIN sym : i < j => sym[i].addr <= sym[j].addr
        /\ \E i \in DOMAIN sym : sym[i].name = TextName /\ sym[i].addr = img.start

(* A lookup by address gives the last symbol at or below it, one by name a   *)
(* symbol of that name, and both give one wherever there is one.             *)
LookupsAgree ==
    /\ ask.fn = "symat" =>
          LET Below == {i \in DOMAIN sym : sym[i].addr <= ask.va}
          IN  /\ answer.ok <=> ask.va >= img.start /\ ask.va < img.end
              /\ answer.ok => answer.sym = sym[Max(Below)]
    /\ ask.fn = "sym" =>
          LET Named == {s \in ToSet(sym) : s.name = ask.name}
          IN  /\ answer.ok <=> Named # {}
              /\ answer.ok => \E s \in Named : s.addr = answer.addr

SymbolsTrue == IntactIsRead /\ TableIsSound /\ LookupsAgree
=============================================================================
