---------------------------- MODULE KernelWalks ----------------------------
(* The walkers of impl/kern/kwalk.c over guest memory nobody vouches for:    *)
(* list_head and hlist lists, rb-trees, the xarray under an idr, per-cpu     *)
(* addresses and scattered reads.  A walk takes one step per node it reads.  *)
(*                                                                           *)
(* What a read returns is chosen when it happens, from all an address may    *)
(* hold, and remembered in seen: a walk reads no node twice, so this is      *)
(* every content of memory, and every guest that changes it between reads.   *)
EXTENDS Integers, Sequences, FiniteSets, SequencesExt, Functions, Binary

CONSTANTS
    KernelStart,    \* the first kernel address (kwalk.h:66)
    Heads,          \* where calls look for a list, a tree or an idr
    Words,          \* [Heads -> what the word there may hold]
    Links,          \* [nodes -> the next pointers a list node may hold]
    Trees,          \* [nodes -> the rb_nodes that may be there]
    XaNodes,        \* [nodes -> the xa_nodes that may be there]
    Unmapped,       \* what an address that cannot be read gives
    NoMember,       \* for the offset of a link its container does not have
    Bases,          \* idr_base
    Wanted,         \* the max arguments of the calls
    Cpus,           \* the cpu arguments
    MaxNodes,       \* KWALK_MAX_NODES
    MinTable,       \* the smallest visited table
    RbMaxDepth,     \* KWALK_RB_MAX_DEPTH
    XaMaxNodes,     \* XA_MAX_NODES
    ChunkShift,     \* an xa_node has 2^ChunkShift slots
    ShiftLimit,     \* the width of an id
    MaxCpus,        \* the largest nr_cpu_ids believed
    BudgetEvery     \* the clock is read every so many nodes

Chunk == Pow2[ChunkShift]

(* A read gives an unsigned number, or a node of such numbers.               *)
ASSUME WalkBounds ==
    /\ {KernelStart, MinTable, XaMaxNodes, ChunkShift, BudgetEvery} \subseteq Nat \ {0}
    /\ {MaxNodes, RbMaxDepth, ShiftLimit} \cup Wanted \subseteq Nat
ASSUME WalkMemory ==
    /\ \A a \in DOMAIN Words : Words[a] \subseteq Nat
    /\ \A a \in DOMAIN Links : Links[a] \subseteq Nat
    /\ \A a \in DOMAIN Trees : Trees[a] \subseteq [parent : Nat, left : Nat, right : Nat]
    /\ \A a \in DOMAIN XaNodes : XaNodes[a] \subseteq
            [shift : Nat, offset : Nat, parent : Nat, slots : [1..Chunk -> Nat]]
ASSUME WalkArguments == Heads \subseteq Nat /\ Bases \subseteq Nat \cup {Unmapped}

VARIABLES
    pc,         \* idle, links, rb, xa (at a node), slots, probing, done
    call,       \* the arguments of the call and the word at its head
    node,       \* the address the walk is at
    parent,     \* what an rb_node has to name as its parent
    stack,      \* rb: nodes with the left side open; xa: the open nodes
    visited,    \* the addresses in the visited table
    seen,       \* what the reads of nodes returned
    steps,      \* nodes since the clock was read
    out,        \* what the caller gets
    rc          \* "ok", or why the walk gave up

walkVars == <<pc, call, node, parent, stack, visited, seen, steps, out, rc>>

KernelVa(a)  == a >= KernelStart
Clamped(max) == IF max > MaxNodes THEN MaxNodes ELSE max

(* walk_start: the smallest power of two, MinTable at least, with room for   *)
(* twice the nodes asked for.                                                *)
TableSizeUnbounded(max) ==
    LET Sizes == {Pow2[k] : k \in 0..(max + 2)}
    IN  CHOOSE c \in Sizes : /\ c >= 2 * (max + 1)
                             /\ \A d \in Sizes : d >= 2 * (max + 1) => c <= d

TableSize(max) ==
    LET Sizes == {MinTable * Pow2[k] : k \in 0..(max + 1)}
    IN  CHOOSE c \in Sizes : /\ c >= 2 * (max + 1)
                             /\ \A d \in Sizes : d >= 2 * (max + 1) => c <= d

Cap == TableSize(IF call.fn = "idr" THEN XaMaxNodes ELSE Clamped(call.max))

Reads(memory, a) == {Unmapped} \cup IF a \in DOMAIN memory THEN memory[a] ELSE {}

---------------------------------------------------------------------------
(* Entries of the xarray (kwalk.c:409).                                      *)
Internal(e) == e % 4 = 2
IsNode(e)   == Internal(e) /\ e > 4096
IsValue(e)  == e % 2 = 1
IsPointer(e) == e # 0 /\ ~Internal(e) /\ ~IsValue(e)

Top    == Last(stack)
Slot   == Top.slots[Top.i + 1]
Wrap(id) == id % Pow2[ShiftLimit]
Id     == Wrap(Top.index + Top.i * Pow2[Top.shift])
NextSlot(frames) == [frames EXCEPT ![Len(frames)].i = @ + 1]

---------------------------------------------------------------------------
NoCall == [fn |-> "none", root |-> 0, first |-> 0, max |-> 0, off |-> 0, limited |-> FALSE]

WalksInit ==
    /\ pc = "idle" /\ call = NoCall /\ node = 0 /\ parent = 0 /\ stack = <<>>
    /\ visited = {} /\ seen = <<>> /\ steps = 0 /\ out = <<>> /\ rc = "ok"

Begin(c, at, first) ==
    /\ pc = "idle"
    /\ call' = c /\ pc' = at /\ node' = first
    /\ UNCHANGED <<parent, stack, visited, seen, steps>>

Answer(c, found, why) == Begin(c, "done", 0) /\ out' = found /\ rc' = why

Return(why) ==
    /\ pc' = "done" /\ rc' = why
    /\ UNCHANGED <<call, node, parent, stack, visited, seen, steps, out>>

(* kwalk_list, kwalk_hlist and their _off forms.                             *)
WalkLinks(fn, root, off, max, limited) ==
    \E first \in Reads(Words, root) :
        LET c == [fn |-> fn, root |-> root, first |-> first, max |-> max, off |-> off,
                  limited |-> limited]
        IN  IF off = NoMember \/ ~KernelVa(root) \/ first = Unmapped
            THEN Answer([c EXCEPT !.first = 0], <<>>, "refused")
            ELSE Begin(c, "links", first) /\ out' = <<>> /\ rc' = "ok"

End == IF call.fn = "list" THEN call.root ELSE 0

(* kwalk_rbtree: an empty tree needs no table.  laid: BTF has the layout that *)
(* is needed, here and for an idr.                                           *)
WalkRbtree(laid, root, max, limited) ==
    \E top \in Reads(Words, root) :
        LET c == [fn |-> "rbtree", root |-> root, first |-> top, max |-> max, off |-> 0,
                  limited |-> limited]
        IN  IF ~laid \/ ~KernelVa(root) \/ top = Unmapped
            THEN Answer([c EXCEPT !.first = 0], <<>>, "refused")
            ELSE IF top = 0
            THEN Answer(c, <<>>, "ok")
            ELSE Begin(c, "rb", top) /\ out' = <<>> /\ rc' = "ok"

(* kwalk_idr: a lone entry sits in the head, anything else under a node.     *)
WalkIdr(laid, root, base, max, limited) ==
    \E head \in Reads(Words, root) :
        LET c == [fn |-> "idr", root |-> root, first |-> head, max |-> max, off |-> base,
                  limited |-> limited]
        IN  IF ~laid \/ ~KernelVa(root) \/ head = Unmapped \/ base = Unmapped
            THEN Answer([c EXCEPT !.first = 0], <<>>, "refused")
            ELSE IF IsNode(head)
            THEN Begin(c, "xa", head - 2) /\ out' = <<>> /\ rc' = "ok"
            ELSE IF IsPointer(head) /\ Clamped(max) = 0
            THEN Answer(c, <<>>, "cap")
            ELSE Answer(c, IF IsPointer(head) THEN <<[id |-> base, ptr |-> head]>> ELSE <<>>,
                        "ok")
---------------------------------------------------------------------------
(* The checks made at a node before it is read, in their order.  A visited   *)
(* table with no free slot is searched for an absent address without end.    *)
AtNode == \/ pc = "links" /\ node # End
          \/ pc = "rb" /\ node # 0
          \/ pc = "xa"

VerdictUnvisited ==
    IF ~KernelVa(node) THEN "wild"
    ELSE IF pc = "xa" /\ Cardinality(visited) + 1 > XaMaxNodes THEN "cap"
    ELSE IF \/ pc = "links" /\ Len(out) = Clamped(call.max)
            \/ pc = "rb" /\ Len(stack) = RbMaxDepth
    THEN "cap" ELSE "read"

Verdict ==
    IF ~KernelVa(node) THEN "wild"
    ELSE IF pc = "xa" /\ Cardinality(visited) + 1 > XaMaxNodes THEN "cap"
    ELSE IF node \in visited THEN "cycle"
    ELSE IF Cardinality(visited) = Cap THEN "probing"
    ELSE IF \/ pc = "links" /\ Len(out) = Clamped(call.max)
            \/ pc = "rb" /\ Len(stack) = RbMaxDepth
    THEN "cap" ELSE "read"

Refused == AtNode /\ Verdict \in {"wild", "cap", "cycle"} /\ Return(Verdict)

ProbesForever ==
    /\ pc = "probing" \/ (AtNode /\ Verdict = "probing")
    /\ pc' = "probing"
    /\ UNCHANGED <<call, node, parent, stack, visited, seen, steps, out, rc>>

(* walk_over_budget: the clock is looked at on every BudgetEvery-th node.    *)
BudgetGone ==
    /\ AtNode /\ Verdict = "read"
    /\ call.limited /\ steps + 1 = BudgetEvery
    /\ Return("budget")

Visit ==
    /\ AtNode /\ Verdict = "read"
    /\ visited' = visited \cup {node}
    /\ steps' = IF call.limited THEN (steps + 1) % BudgetEvery ELSE steps

Remember(content) == seen' = [a \in DOMAIN seen \cup {node} |->
                                IF a = node THEN content ELSE seen[a]]

(* The read of a node fails, or what it holds does not fit the structure.    *)
Unusable(why) ==
    /\ pc' = "done" /\ rc' = why
    /\ UNCHANGED <<call, node, parent, stack, seen, out>>

(* walk_links' loop.                                                         *)
ReadLink ==
    /\ pc = "links"
    /\ Visit
    /\ \E next \in Reads(Links, node) :
        IF next = Unmapped THEN Unusable("unread")
        ELSE /\ out' = Append(out, node - call.off)
             /\ node' = next
             /\ Remember(next)
             /\ UNCHANGED <<pc, call, parent, stack, rc>>

LinksEnd == pc = "links" /\ node = End /\ Return("ok")

(* kwalk_rbtree: down the left side, every node naming its parent.           *)
ReadRb ==
    /\ pc = "rb"
    /\ Visit
    /\ \E raw \in Reads(Trees, node) :
        IF raw = Unmapped THEN Unusable("unread")
        ELSE IF raw.parent # parent THEN Unusable("torn")
        ELSE /\ stack' = Append(stack, [node |-> node, right |-> raw.right])
             /\ parent' = node
             /\ node' = raw.left
             /\ Remember(raw)
             /\ UNCHANGED <<pc, call, out, rc>>

PopRb ==
    /\ pc = "rb" /\ node = 0
    /\ IF stack = <<>> THEN Return("ok")
       ELSE IF Len(out) = Clamped(call.max) THEN Return("cap")
       ELSE /\ out' = Append(out, Top.node)
            /\ parent' = Top.node
            /\ node' = Top.right
            /\ stack' = Front(stack)
            /\ UNCHANGED <<pc, call, visited, seen, steps, rc>>

(* xa_node up to its slots: the node's shift is one level below its          *)
(* parent's, and it names the parent and the slot it was reached from.       *)
MisplacedAnyLevel(raw) ==
    \/ raw.shift % ChunkShift # 0
    \/ raw.shift >= ShiftLimit
    \/ raw.parent # IF stack = <<>> THEN 0 ELSE Top.node
    \/ stack # <<>> /\ raw.offset # Top.i

Misplaced(raw) ==
    \/ raw.shift % ChunkShift # 0
    \/ raw.shift >= ShiftLimit
    \/ stack # <<>> /\ raw.shift # Top.shift - ChunkShift
    \/ raw.parent # IF stack = <<>> THEN 0 ELSE Top.node
    \/ stack # <<>> /\ raw.offset # Top.i

ReadXa ==
    /\ pc = "xa"
    /\ Visit
    /\ \E raw \in Reads(XaNodes, node) :
        IF raw = Unmapped THEN Unusable("unread")
        ELSE IF Misplaced(raw) THEN Unusable("torn")
        ELSE /\ stack' = Append(stack, [node |-> node, shift |-> raw.shift, i |-> 0,
                    index |-> IF stack = <<>> THEN 0 ELSE Id, slots |-> raw.slots])
             /\ pc' = "slots"
             /\ Remember(raw)
             /\ UNCHANGED <<call, node, parent, out, rc>>

(* xa_node's loop over the slots; its return resumes the loop of its caller. *)
XaSlot ==
    /\ pc = "slots" /\ Top.i < Chunk
    /\ IF IsNode(Slot) /\ Top.shift = 0 THEN Return("torn")
       ELSE IF IsPointer(Slot) /\ Len(out) = Clamped(call.max) THEN Return("cap")
       ELSE /\ pc' = IF IsNode(Slot) THEN "xa" ELSE pc
            /\ node' = IF IsNode(Slot) THEN Slot - 2 ELSE node
            /\ stack' = IF IsNode(Slot) THEN stack ELSE NextSlot(stack)
            /\ out' = IF IsPointer(Slot)
                      THEN Append(out, [id |-> Wrap(Id + call.off), ptr |-> Slot]) ELSE out
            /\ UNCHANGED <<call, parent, visited, seen, steps, rc>>

XaReturn ==
    /\ pc = "slots" /\ Top.i = Chunk
    /\ IF Len(stack) = 1 THEN Return("ok")
       ELSE /\ stack' = NextSlot(Front(stack))
            /\ UNCHANGED <<pc, call, node, parent, visited, seen, steps, out, rc>>

WalkStep ==
    \/ Refused \/ ProbesForever \/ BudgetGone
    \/ ReadLink \/ LinksEnd
    \/ ReadRb \/ PopRb
    \/ ReadXa \/ XaSlot \/ XaReturn

---------------------------------------------------------------------------
(* kwalk_read_many: every read is tried, and the failures are counted.       *)
ReadMany(vas) ==
    \E got \in [DOMAIN vas -> BOOLEAN] :
        Answer([NoCall EXCEPT !.fn = "many"],
               got, IF \A i \in DOMAIN vas : got[i] THEN "ok" ELSE "unread")

(* kwalk_nr_cpus and kwalk_percpu_addr, from the two symbols they need.      *)
PercpuAddr(known, sym, cpu) ==
    \E nr \in {Unmapped} \cup 0..(MaxCpus + 1), shift \in {Unmapped, 0, KernelStart} :
        LET c == [NoCall EXCEPT !.fn = "percpu", !.root = sym, !.max = cpu]
        IN  IF \/ ~known \/ nr = Unmapped \/ nr = 0 \/ nr > MaxCpus
               \/ cpu >= nr \/ shift = Unmapped \/ ~KernelVa(sym + shift)
            THEN Answer(c, <<>>, "refused")
            ELSE Answer(c, <<sym + shift>>, "ok")

(* The caller has its answer, and nothing of the walk is left.               *)
Taken ==
    /\ pc = "done"
    /\ pc' = "idle" /\ call' = NoCall /\ node' = 0 /\ parent' = 0 /\ stack' = <<>>
    /\ visited' = {} /\ seen' = <<>> /\ steps' = 0 /\ out' = <<>> /\ rc' = "ok"

(* A call, with what BTF and the symbols say of links, layouts and per-cpu   *)
(* variables.                                                                *)
Call(offsets, rb, idr, percpu) ==
    \/ \E fn \in {"list", "hlist"}, root \in Heads, max \in Wanted, limited \in BOOLEAN :
          \E off \in offsets[fn] : WalkLinks(fn, root, off, max, limited)
    \/ \E root \in Heads, max \in Wanted, limited \in BOOLEAN :
          WalkRbtree(rb, root, max, limited)
    \/ \E root \in Heads, base \in Bases, max \in Wanted, limited \in BOOLEAN :
          WalkIdr(idr, root, base, max, limited)
    \/ \E a, b \in Heads : ReadMany(<<a, b>>)
    \/ \E s \in percpu, cpu \in Cpus : PercpuAddr(s.known, s.addr, cpu)

WalksNext(offsets, rb, idr, percpu) == Taken \/ WalkStep \/ Call(offsets, rb, idr, percpu)

FairWalks == WF_walkVars(WalkStep)
---------------------------------------------------------------------------
(* What a walk answers, said of the memory it read (seen) and not of the way *)
(* it goes.                                                                  *)
Visits == [i \in DOMAIN out |-> out[i] + call.off]

IsChain ==
    IF out = <<>> THEN call.first = End
    ELSE /\ call.first = Visits[1]
         /\ \A i \in 1..(Len(out) - 1) : seen[Visits[i]] = Visits[i + 1]
         /\ seen[Visits[Len(out)]] = End

InOrder ==
    LET Deepest == Cardinality(visited)
        Below[depth \in 0..Deepest] == [a \in DOMAIN seen \cup {0} |->
            IF a = 0 \/ depth = 0 THEN <<>>
            ELSE Below[depth - 1][seen[a].left] \o <<a>> \o Below[depth - 1][seen[a].right]]
    IN  Below[Deepest][call.first]

(* The entry an xarray of that memory holds at an index, as a lookup of that *)
(* one index finds it, and the first index of the slot it is in.             *)
XaLoad(index) ==
    LET Load[depth \in 0..ShiftLimit] == [a \in DOMAIN seen |->
            LET raw == seen[a]
                s   == raw.slots[((index \div Pow2[raw.shift]) % Chunk) + 1]
            IN  IF IsNode(s) /\ depth > 0 THEN Load[depth - 1][s - 2]
                ELSE [ptr |-> s, first |-> (index % Pow2[raw.shift]) = 0]]
    IN  Load[ShiftLimit][call.first - 2]

XaEnd   == Chunk * Pow2[seen[call.first - 2].shift]
XaRange == 0..(XaEnd - 1)

(* Every id under the root fits the width of an id.  64 is no multiple of a  *)
(* shift of 6: in a root at shift 60 the slots from 16 on get the ids of the *)
(* first 16 again (kwalk.c:466).                                             *)
IdsFit ==
    IsNode(call.first) /\ call.first - 2 \in DOMAIN seen => XaEnd + call.off <= Pow2[ShiftLimit]

HoldsEntries ==
    IF ~IsNode(call.first)
    THEN ToSet(out) = {[id |-> call.off, ptr |-> p] : p \in {e \in {call.first} : IsPointer(e)}}
    ELSE /\ ToSet(out) = {[id |-> Wrap(i + call.off), ptr |-> XaLoad(i).ptr] :
                i \in {j \in XaRange : XaLoad(j).first /\ IsPointer(XaLoad(j).ptr)}}
         /\ IdsFit => \A i, j \in DOMAIN out : i < j => out[i].id < out[j].id

(* A call that succeeds answers what the structure in guest memory holds,    *)
(* all of it and in its order: the containers along the list, the nodes of   *)
(* the tree from the left, the entries of the idr by id (kwalk.h:78-120), in *)
(* order as far as the ids do not wrap.                                      *)
Complete ==
    pc = "done" /\ rc = "ok" =>
        /\ call.fn \in {"list", "hlist"} => IsChain
        /\ call.fn = "rbtree" => out = InOrder
        /\ call.fn = "idr" => HoldsEntries

(* Whatever memory holds, and however the walk ended, what it found it found *)
(* once, in a node it read at a kernel address, and it fits the buffer the   *)
(* caller gave (kwalk.c:239, 371, 458).  An id is given once unless it wraps.*)
FoundIsReal ==
    call.fn \in {"list", "hlist", "rbtree", "idr"} =>
        /\ Len(out) <= call.max
        /\ Len(out) <= MaxNodes
        /\ (call.fn = "idr" => IdsFit) => IsInjective(out)
        /\ call.fn # "idr" => \A i \in DOMAIN out :
               Visits[i] \in DOMAIN seen /\ KernelVa(Visits[i])

(* Every walk ends: a cycle, a wild pointer or an endless structure ends it  *)
(* with an error rather than a hang (kwalk.h:15-18).                         *)
WalkEnds == (pc # "idle") ~> (pc = "done")
=============================================================================
