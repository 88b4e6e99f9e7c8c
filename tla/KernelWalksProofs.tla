------------------------- MODULE KernelWalksProofs -------------------------
(***************************************************************************)
(* Proofs about the walkers, for any memory, any calls and any value of the *)
(* bounds.                                                                  *)
(***************************************************************************)
EXTENDS KernelWalks, FiniteSetTheorems, SequenceTheorems, WellFoundedInduction, TLAPS

-----------------------------------------------------------------------------
(* Induction over the naturals, as a least element: the library's induction *)
(* theorems take an operator, which the provers cannot instantiate.         *)
LEMMA LeastNat ==
    ASSUME NEW S \in SUBSET Nat, S # {}
    PROVE  \E x \in S : \A y \in S : x <= y
  <1> DEFINE T == {0..x : x \in S}
  <1>1. T \subseteq FiniteSubsetsOf(Nat) /\ T # {}
    <2>1. \A x \in S : IsFiniteSet(0..x) /\ 0..x \in SUBSET Nat
      BY FS_Interval
    <2> QED
      BY <2>1 DEF FiniteSubsetsOf
  <1>2. PICK I \in T : \A J \in T : ~(<<J, I>> \in StrictSubsetOrdering(Nat))
    BY <1>1, FS_StrictSubsetOrderingWellFounded, WFMin
  <1>3. PICK x \in S : I = 0..x
    OBVIOUS
  <1>4. ASSUME NEW y \in S PROVE x <= y
    <2> DEFINE p == <<0..y, 0..x>>
    <2>1. 0..y \in T /\ 0..x \in T
      OBVIOUS
    <2>2. p \notin StrictSubsetOrdering(Nat)
      BY <1>2, <1>3, <2>1
    <2>3. p \in (SUBSET Nat) \X (SUBSET Nat) /\ p[1] = 0..y /\ p[2] = 0..x
      OBVIOUS
    <2>4. ~(0..y \subseteq 0..x /\ 0..y # 0..x)
      BY <2>2, <2>3 DEF StrictSubsetOrdering
    <2> QED
      BY <2>4
  <1> QED
    BY <1>4

(* What holds of 0, and of n + 1 whenever of n, holds of every number.      *)
LEMMA NatInduct ==
    ASSUME NEW S \in SUBSET Nat, 0 \in S, \A n \in S : n + 1 \in S
    PROVE  S = Nat
  <1> SUFFICES ASSUME Nat \ S # {} PROVE FALSE
    OBVIOUS
  <1>1. PICK x \in Nat \ S : \A y \in Nat \ S : x <= y
    BY LeastNat
  <1>2. x - 1 \in S
    BY <1>1
  <1> QED
    BY <1>1, <1>2

-----------------------------------------------------------------------------
(* Powers of two.                                                           *)
Pow2Step(f, n) == f[n] = IF n = 0 THEN 1 ELSE 2 * f[n - 1]
Pow2To(m, f)   == f \in [0..m -> Nat] /\ \A n \in 0..m : Pow2Step(f, n)

LEMMA Pow2Exists ==
    ASSUME NEW m \in Nat
    PROVE  \E f : Pow2To(m, f)
  <1> DEFINE S == {n \in Nat : \E f : Pow2To(n, f)}
  <1>1. 0 \in S
    <2>1. Pow2To(0, [n \in 0..0 |-> 1])
      BY DEF Pow2To, Pow2Step
    <2> QED
      BY <2>1
  <1>2. ASSUME NEW n \in S PROVE n + 1 \in S
    <2>1. PICK f : Pow2To(n, f)
      OBVIOUS
    <2> DEFINE g == [k \in 0..(n + 1) |-> IF k = n + 1 THEN 2 * f[n] ELSE f[k]]
    <2>2. g \in [0..(n + 1) -> Nat]
      BY <2>1 DEF Pow2To
    <2>3. ASSUME NEW k \in 0..(n + 1) PROVE Pow2Step(g, k)
      BY <2>1 DEF Pow2To, Pow2Step
    <2>4. Pow2To(n + 1, g)
      BY <2>2, <2>3 DEF Pow2To
    <2> QED
      BY <2>4
  <1> HIDE DEF S
  <1>3. S = Nat
    BY <1>1, <1>2, NatInduct DEF S
  <1> QED
    BY <1>3 DEF S

LEMMA Pow2Unique ==
    ASSUME NEW m \in Nat, NEW k \in Nat, NEW f, NEW g, Pow2To(m, f), Pow2To(k, g),
           NEW n \in Nat, n <= m, n <= k
    PROVE  f[n] = g[n]
  <1> DEFINE S == {i \in Nat : i <= m /\ i <= k => f[i] = g[i]}
  <1>1. 0 \in S
    BY DEF Pow2To, Pow2Step
  <1>2. ASSUME NEW i \in S PROVE i + 1 \in S
    <2> SUFFICES ASSUME i + 1 <= m, i + 1 <= k PROVE f[i + 1] = g[i + 1]
      OBVIOUS
    <2>1. f[i] = g[i] /\ i + 1 # 0 /\ (i + 1) - 1 = i
      OBVIOUS
    <2>2. Pow2Step(f, i + 1) /\ Pow2Step(g, i + 1)
      BY DEF Pow2To
    <2> QED
      BY <2>1, <2>2 DEF Pow2Step
  <1> HIDE DEF S
  <1>3. S = Nat
    BY <1>1, <1>2, NatInduct DEF S
  <1> QED
    BY <1>3 DEF S

LEMMA Pow2Def ==
    /\ Pow2 \in [Nat -> Nat]
    /\ Pow2[0] = 1
    /\ \A n \in Nat : Pow2[n + 1] = 2 * Pow2[n]
  <1> DEFINE Pick(n) == CHOOSE f : Pow2To(n, f)
             F == [n \in Nat |-> Pick(n)[n]]
  <1>1. \A n \in Nat : Pow2To(n, Pick(n))
    BY Pow2Exists
  <1> HIDE DEF Pick
  <1>2. F \in [Nat -> Nat]
    BY <1>1 DEF Pow2To
  <1>3. ASSUME NEW n \in Nat PROVE F[n] = IF n = 0 THEN 1 ELSE 2 * F[n - 1]
    <2>1. CASE n = 0
      BY <1>1, <2>1 DEF Pow2To, Pow2Step
    <2>2. CASE n # 0
      <3>1. Pick(n)[n] = 2 * Pick(n)[n - 1]
        BY <1>1, <2>2 DEF Pow2To, Pow2Step
      <3>2. Pick(n)[n - 1] = Pick(n - 1)[n - 1]
        BY <1>1, <2>2, Pow2Unique
      <3> QED
        BY <2>2, <3>1, <3>2
    <2> QED
      BY <2>1, <2>2
  <1> HIDE DEF F
  <1>4. F = [n \in Nat |-> IF n = 0 THEN 1 ELSE 2 * F[n - 1]]
    BY <1>2, <1>3
  <1>5. Pow2 = [n \in Nat |-> IF n = 0 THEN 1 ELSE 2 * Pow2[n - 1]]
    BY <1>4 DEF Pow2
  <1>6. \A n \in Nat : Pow2[n] = IF n = 0 THEN 1 ELSE 2 * Pow2[n - 1]
    BY <1>5
  <1> DEFINE S == {n \in Nat : Pow2[n] \in Nat}
  <1>7. S = Nat
    <2>1. 0 \in S /\ \A n \in S : n + 1 \in S
      BY <1>6
    <2> HIDE DEF S
    <2> QED
      BY <2>1, NatInduct DEF S
  <1>8. Pow2 \in [Nat -> Nat]
    <2>1. \A n \in Nat : Pow2[n] \in Nat
      BY <1>7
    <2>2. Pow2 = [n \in Nat |-> Pow2[n]]
      BY <1>5
    <2> QED
      BY <2>1, <2>2
  <1>9. ASSUME NEW n \in Nat PROVE Pow2[n + 1] = 2 * Pow2[n]
    BY <1>6
  <1> QED
    BY <1>6, <1>8, <1>9

LEMMA Pow2Positive == \A n \in Nat : Pow2[n] \in Nat /\ n < Pow2[n]
  <1> DEFINE S == {n \in Nat : n < Pow2[n]}
  <1>1. 0 \in S /\ \A n \in S : n + 1 \in S
    BY Pow2Def
  <1> HIDE DEF S
  <1>2. S = Nat
    BY <1>1, NatInduct DEF S
  <1> QED
    BY <1>2, Pow2Def DEF S

LEMMA Pow2Sum ==
    ASSUME NEW m \in Nat, NEW n \in Nat
    PROVE  Pow2[m + n] = Pow2[m] * Pow2[n]
  <1> DEFINE S == {k \in Nat : Pow2[m + k] = Pow2[m] * Pow2[k]}
  <1>1. 0 \in S
    BY Pow2Def
  <1>2. ASSUME NEW k \in S PROVE k + 1 \in S
    <2>1. Pow2[m + k] = Pow2[m] * Pow2[k] /\ k \in Nat
      OBVIOUS
    <2>2. Pow2[(m + k) + 1] = 2 * Pow2[m + k] /\ Pow2[k + 1] = 2 * Pow2[k]
      BY <2>1, Pow2Def
    <2>3. Pow2[m] \in Nat /\ Pow2[k] \in Nat /\ (m + k) + 1 = m + (k + 1)
      BY <2>1, Pow2Def
    <2>4. 2 * (Pow2[m] * Pow2[k]) = Pow2[m] * (2 * Pow2[k])
      BY <2>3
    <2>5. Pow2[m + (k + 1)] = Pow2[m] * Pow2[k + 1]
      BY <2>1, <2>2, <2>3, <2>4
    <2> QED
      BY <2>5
  <1> HIDE DEF S
  <1>3. S = Nat
    BY <1>1, <1>2, NatInduct DEF S
  <1> QED
    BY <1>3 DEF S

(* The table has a slot for twice the nodes that are asked for, and one.    *)
LEMMA TableRoom ==
    ASSUME NEW max \in Nat
    PROVE  TableSize(max) \in Nat /\ TableSize(max) >= 2 * (max + 1)
  <1> DEFINE Sizes == {MinTable * Pow2[k] : k \in 0..(max + 1)}
             Enough == {c \in Sizes : c >= 2 * (max + 1)}
  <1>1. Sizes \subseteq Nat
    BY WalkBounds, Pow2Def
  <1>2. MinTable * Pow2[max + 1] \in Enough
    <2>1. Pow2[max + 1] = 2 * Pow2[max] /\ max < Pow2[max] /\ Pow2[max] \in Nat
      BY Pow2Def, Pow2Positive
    <2>2. Pow2[max + 1] \in Nat /\ Pow2[max + 1] >= 2 * (max + 1)
      BY <2>1
    <2>3. MinTable * Pow2[max + 1] >= Pow2[max + 1]
      BY <2>2, WalkBounds
    <2> QED
      BY <1>1, <2>2, <2>3
  <1> HIDE DEF Sizes
  <1>3. PICK c \in Enough : \A d \in Enough : c <= d
    BY <1>1, <1>2, LeastNat
  <1>4. \E b \in Sizes : /\ b >= 2 * (max + 1)
                         /\ \A d \in Sizes : d >= 2 * (max + 1) => b <= d
    BY <1>3
  <1> QED
    BY <1>1, <1>4 DEF TableSize, Sizes

-----------------------------------------------------------------------------
(* The table holds every node a walk over links, or of an xarray, may visit.*)
LEMMA CapRoom ==
    ASSUME call.max \in Nat
    PROVE  /\ Clamped(call.max) \in Nat
           /\ Clamped(call.max) <= call.max /\ Clamped(call.max) <= MaxNodes
           /\ Cap \in Nat
           /\ call.fn # "idr" => Cap > Clamped(call.max)
           /\ call.fn = "idr" => Cap > XaMaxNodes
  <1>1. /\ Clamped(call.max) \in Nat
        /\ Clamped(call.max) <= call.max /\ Clamped(call.max) <= MaxNodes
    BY WalkBounds DEF Clamped
  <1>2. XaMaxNodes \in Nat
    BY WalkBounds
  <1> QED
    BY <1>1, <1>2, TableRoom DEF Cap

(***************************************************************************)
(* The inductive invariant, one part for each kind of walk.  A walk that    *)
(* was refused has found nothing.                                           *)
(***************************************************************************)
Real(a) == a \in visited /\ a \in DOMAIN seen /\ KernelVa(a)

WalkShape ==
    /\ pc \in {"idle", "links", "rb", "xa", "slots", "probing", "done"}
    /\ rc \in {"ok", "wild", "cap", "cycle", "budget", "unread", "torn", "refused"}
    /\ call.fn \in {"none", "list", "hlist", "rbtree", "idr", "many", "percpu"}
    /\ pc # "done" => rc = "ok"
    /\ pc = "idle" => /\ call.fn = "none"
                      /\ stack = <<>> /\ visited = {} /\ seen = <<>> /\ parent = 0
    /\ pc = "links" => call.fn \in {"list", "hlist"}
    /\ pc \in {"rb", "probing"} => call.fn = "rbtree"
    /\ pc \in {"xa", "slots"} => call.fn = "idr"
    /\ IsFiniteSet(visited)
    /\ call.fn \in {"list", "hlist", "rbtree", "idr"} => call.max \in Nat
    /\ rc = "refused" => out = <<>>

(* What was found so far is the list from its first node up to this one.    *)
Linked ==
    IF out = <<>> THEN call.first = node
    ELSE /\ call.first = Visits[1]
         /\ \A i \in 1..(Len(out) - 1) : seen[Visits[i]] = Visits[i + 1]
         /\ seen[Visits[Len(out)]] = node

LinksInv ==
    call.fn \in {"list", "hlist"} /\ rc # "refused" =>
        /\ call.off \in Int /\ call.root \in Nat /\ node \in Nat
        /\ out \in Seq(Int) /\ Len(out) <= Clamped(call.max)
        /\ \A i \in DOMAIN out : Real(Visits[i])
        /\ \A i, j \in DOMAIN out : out[i] = out[j] => i = j
        /\ pc = "links" => Cardinality(visited) = Len(out)
        /\ Linked
        /\ pc = "done" /\ rc = "ok" => node = End

LEMMA LinksVisits ==
    ASSUME out \in Seq(Int), call.off \in Int
    PROVE  /\ DOMAIN out = 1..Len(out) /\ Len(out) \in Nat
           /\ DOMAIN Visits = DOMAIN out
           /\ \A i \in DOMAIN out : Visits[i] = out[i] + call.off /\ Visits[i] \in Int
  BY DEF Visits

(* A read that succeeds adds one node to what was seen, and keeps the rest. *)
LEMMA Remembered ==
    ASSUME NEW content, Remember(content)
    PROVE  /\ DOMAIN seen' = DOMAIN seen \cup {node}
           /\ seen'[node] = content
           /\ \A a \in DOMAIN seen : a # node => seen'[a] = seen[a]
  BY DEF Remember

LEMMA VisitedMore ==
    ASSUME WalkShape, Visit
    PROVE  /\ IsFiniteSet(visited') /\ visited' = visited \cup {node}
           /\ node \notin visited /\ KernelVa(node)
           /\ Cardinality(visited) \in Nat
           /\ Cardinality(visited') = Cardinality(visited) + 1
  <1>1. node \notin visited /\ KernelVa(node)
    BY DEF Visit, Verdict
  <1>2. visited' = visited \cup {node} /\ IsFiniteSet(visited)
    BY DEF Visit, WalkShape
  <1> QED
    BY <1>1, <1>2, FS_AddElement, FS_CardinalityType

-----------------------------------------------------------------------------
(* A tree: the nodes with their left side open and those found are distinct *)
(* nodes that were read.                                                    *)
RbInv ==
    call.fn = "rbtree" /\ rc # "refused" =>
        /\ call.off = 0 /\ node \in Nat
        /\ stack \in Seq([node : Nat, right : Nat]) /\ Len(stack) <= RbMaxDepth
        /\ out \in Seq(Nat) /\ Len(out) <= Clamped(call.max)
        /\ \A i \in DOMAIN out : Real(out[i])
        /\ \A i, j \in DOMAIN out : out[i] = out[j] => i = j
        /\ \A i \in DOMAIN stack : Real(stack[i].node)
        /\ \A i, j \in DOMAIN stack : stack[i].node = stack[j].node => i = j
        /\ \A i \in DOMAIN stack, j \in DOMAIN out : stack[i].node # out[j]

(* An xarray: from the root down, each open node covers the slot of the one *)
(* above that it was reached from, and what was found lies before the slot  *)
(* the walk is at.                                                          *)
Frame  == [node : Nat, shift : Nat, i : Nat, index : Nat, slots : [1..Chunk -> Nat]]
TopNode == call.first - 2
At(k)  == stack[k].index + stack[k].i * Pow2[stack[k].shift]
Width(k) == Chunk * Pow2[stack[k].shift]
Fits   == XaEnd + call.off <= Pow2[ShiftLimit]

Path ==
    /\ stack[1].index = 0 /\ stack[1].shift = seen[TopNode].shift
    /\ \A k \in 1..(Len(stack) - 1) :
          stack[k].i < Chunk /\ stack[k].shift = stack[k + 1].shift + ChunkShift
    /\ stack[Len(stack)].i <= Chunk
    /\ pc = "xa" => stack[Len(stack)].i < Chunk

Placed ==
    /\ \A k \in 1..(Len(stack) - 1) : stack[k + 1].index = At(k)
    /\ \A k \in 1..Len(stack) : stack[k].index + Width(k) <= XaEnd
    /\ \A j \in DOMAIN out : out[j].id < call.off + At(Len(stack))
    /\ \A i, j \in DOMAIN out : i < j => out[i].id < out[j].id

XaInv ==
    call.fn = "idr" /\ rc # "refused" =>
        /\ call.off \in Nat /\ call.first \in Nat
        /\ out \in Seq([id : Nat, ptr : Nat]) /\ Len(out) <= Clamped(call.max)
        /\ ~IsNode(call.first) => pc = "done" /\ Len(out) <= 1
        /\ IsNode(call.first) =>
              /\ node \in Nat
              /\ stack \in Seq(Frame)
              /\ Cardinality(visited) <= XaMaxNodes
              /\ DOMAIN seen \subseteq visited
              /\ stack = <<>> => out = <<>> /\ pc # "slots" /\ (pc = "xa" => node = TopNode)
              /\ stack # <<>> => /\ TopNode \in DOMAIN seen /\ seen[TopNode].shift \in Nat
                                 /\ Path
                                 /\ Fits => Placed

WalkInv == WalkShape /\ LinksInv /\ RbInv /\ XaInv

LEMMA InvInit == WalksInit => WalkInv
  BY FS_EmptySet DEF WalksInit, WalkInv, WalkShape, LinksInv, RbInv, XaInv, NoCall

(* A walk that gives up, or ends, keeps what it found.                      *)
LEMMA ReturnKeeps ==
    ASSUME WalkInv, NEW why \in {"ok", "wild", "cap", "cycle", "budget", "unread", "torn"},
           pc \in {"links", "rb", "xa", "slots"}, Return(why),
           pc = "links" /\ why = "ok" => node = End
    PROVE  WalkInv'
  <1>1. WalkShape'
    BY DEF WalkInv, WalkShape, Return
  <1>2. LinksInv'
    BY DEF WalkInv, WalkShape, LinksInv, Return, Linked, Visits, Real, Clamped, End
  <1>3. RbInv'
    BY DEF WalkInv, WalkShape, RbInv, Return, Real, Clamped
  <1>4. XaInv'
    BY DEF WalkInv, WalkShape, XaInv, Return, Path, Placed, Fits, At, Width, TopNode, XaEnd, Clamped
  <1> QED
    BY <1>1, <1>2, <1>3, <1>4 DEF WalkInv

LEMMA TakenKeeps ==
    ASSUME WalkInv, Taken
    PROVE  WalkInv'
  BY FS_EmptySet DEF Taken, WalkInv, WalkShape, LinksInv, RbInv, XaInv, NoCall

(* A visited table is only ever full in a tree: the walks over links and of *)
(* an xarray end before theirs is.                                          *)
LEMMA OnlyTreesProbe ==
    ASSUME WalkInv, AtNode, Verdict = "probing"
    PROVE  pc = "rb"
  <1>1. CASE pc = "links"
    <2>1. call.fn \in {"list", "hlist"} /\ rc = "ok" /\ call.max \in Nat
      BY <1>1 DEF WalkInv, WalkShape
    <2>2. Cardinality(visited) = Len(out) /\ Len(out) <= Clamped(call.max) /\ Len(out) \in Nat
      BY <1>1, <2>1 DEF WalkInv, LinksInv
    <2>3. Cap > Clamped(call.max) /\ Cap \in Nat /\ Clamped(call.max) \in Nat
      BY <2>1, CapRoom
    <2>4. Cardinality(visited) = Cap
      BY DEF Verdict
    <2> QED
      BY <2>2, <2>3, <2>4
  <1>2. CASE pc = "xa"
    <2>1. call.fn = "idr" /\ rc = "ok" /\ call.max \in Nat /\ IsFiniteSet(visited)
      BY <1>2 DEF WalkInv, WalkShape
    <2>2. Cardinality(visited) + 1 <= XaMaxNodes /\ Cardinality(visited) = Cap
      BY <1>2, <2>1, FS_CardinalityType, WalkBounds DEF Verdict
    <2>3. Cap > XaMaxNodes /\ Cap \in Nat
      BY <2>1, CapRoom
    <2> QED
      BY <2>2, <2>3, WalkBounds
  <1> QED
    BY <1>1, <1>2 DEF AtNode

LEMMA RefusedKeeps ==
    ASSUME WalkInv, Refused
    PROVE  WalkInv'
  <1>1. pc \in {"links", "rb", "xa", "slots"} /\ Return(Verdict)
        /\ Verdict \in {"wild", "cap", "cycle"}
    BY DEF Refused, AtNode
  <1> QED
    BY <1>1, ReturnKeeps

LEMMA BudgetKeeps ==
    ASSUME WalkInv, BudgetGone
    PROVE  WalkInv'
  <1>1. pc \in {"links", "rb", "xa", "slots"} /\ Return("budget")
    BY DEF BudgetGone, AtNode
  <1> QED
    BY <1>1, ReturnKeeps

LEMMA LinksEndKeeps ==
    ASSUME WalkInv, LinksEnd
    PROVE  WalkInv'
  BY ReturnKeeps DEF LinksEnd

LEMMA ProbesKeeps ==
    ASSUME WalkInv, ProbesForever
    PROVE  WalkInv'
  <1>1. call.fn = "rbtree" /\ rc = "ok" /\ pc # "idle"
    BY OnlyTreesProbe DEF ProbesForever, WalkInv, WalkShape, AtNode
  <1>2. pc' = "probing" /\ UNCHANGED <<call, node, parent, stack, visited, seen, steps, out, rc>>
    BY DEF ProbesForever
  <1>3. WalkShape'
    BY <1>1, <1>2 DEF WalkInv, WalkShape
  <1>4. RbInv'
    BY <1>1, <1>2 DEF WalkInv, RbInv, Real, Clamped
  <1>5. LinksInv' /\ XaInv'
    BY <1>1, <1>2 DEF LinksInv, XaInv
  <1> QED
    BY <1>3, <1>4, <1>5 DEF WalkInv

(* What a read gives is a number, or a node of numbers, unless it fails.    *)
LEMMA ReadsLinks ==
    ASSUME NEW a, NEW next \in Reads(Links, a), next # Unmapped
    PROVE  next \in Nat
  BY WalkMemory DEF Reads

LEMMA ReadsTrees ==
    ASSUME NEW a, NEW raw \in Reads(Trees, a), raw # Unmapped
    PROVE  raw \in [parent : Nat, left : Nat, right : Nat]
  BY WalkMemory DEF Reads

LEMMA ReadsXaNodes ==
    ASSUME NEW a, NEW raw \in Reads(XaNodes, a), raw # Unmapped
    PROVE  raw \in [shift : Nat, offset : Nat, parent : Nat, slots : [1..Chunk -> Nat]]
  BY WalkMemory DEF Reads

LEMMA ReadsWords ==
    ASSUME NEW a, NEW word \in Reads(Words, a), word # Unmapped
    PROVE  word \in Nat
  BY WalkMemory DEF Reads

(* A node that cannot be used ends the walk with what was found before it.  *)
LEMMA UnusableKeeps ==
    ASSUME WalkInv, Visit, NEW why \in {"unread", "torn"}, Unusable(why)
    PROVE  WalkInv'
  <1>1. pc \in {"links", "rb", "xa"} /\ rc = "ok"
    BY DEF Visit, AtNode, WalkInv, WalkShape
  <1>2. /\ pc' = "done" /\ rc' = why
        /\ UNCHANGED <<call, node, parent, stack, seen, out>>
    BY DEF Unusable
  <1>3. IsFiniteSet(visited') /\ visited' = visited \cup {node}
        /\ Cardinality(visited) \in Nat /\ Cardinality(visited') = Cardinality(visited) + 1
    BY VisitedMore DEF WalkInv
  <1>4. WalkShape'
    BY <1>1, <1>2, <1>3 DEF WalkInv, WalkShape
  <1>5. LinksInv'
    BY <1>1, <1>2, <1>3 DEF WalkInv, WalkShape, LinksInv, Linked, Visits, Real, Clamped, End
  <1>6. RbInv'
    BY <1>1, <1>2, <1>3 DEF WalkInv, WalkShape, RbInv, Real, Clamped
  <1>7. XaInv'
    <2>1. SUFFICES ASSUME call.fn = "idr" PROVE XaInv'
      BY <1>2 DEF XaInv
    <2>2. pc = "xa"
      BY <1>1, <2>1 DEF WalkInv, WalkShape
    <2>3. Cardinality(visited') <= XaMaxNodes
      BY <1>3, <2>2, WalkBounds DEF Visit, Verdict
    <2> QED
      BY <1>1, <1>2, <1>3, <2>3
         DEF WalkInv, WalkShape, XaInv, Path, Placed, Fits, At, Width, TopNode, XaEnd, Clamped
  <1> QED
    BY <1>4, <1>5, <1>6, <1>7 DEF WalkInv

-----------------------------------------------------------------------------
(* The next node of a list.                                                 *)
LEMMA ReadLinkKeeps ==
    ASSUME WalkInv, ReadLink
    PROVE  WalkInv'
  <1>1. PICK next \in Reads(Links, node) :
            IF next = Unmapped THEN Unusable("unread")
            ELSE /\ out' = Append(out, node - call.off)
                 /\ node' = next
                 /\ Remember(next)
                 /\ UNCHANGED <<pc, call, parent, stack, rc>>
    BY DEF ReadLink
  <1>2. CASE next = Unmapped
    BY <1>1, <1>2, UnusableKeeps DEF ReadLink
  <1>3. CASE next # Unmapped
    <2>1. /\ out' = Append(out, node - call.off) /\ node' = next
          /\ UNCHANGED <<pc, call, parent, stack, rc>>
      BY <1>1, <1>3
    <2>2. /\ pc = "links" /\ rc = "ok" /\ call.fn \in {"list", "hlist"} /\ call.max \in Nat
          /\ next \in Nat
      BY <1>3, ReadsLinks DEF ReadLink, WalkInv, WalkShape
    <2>3. /\ call.off \in Int /\ call.root \in Nat /\ node \in Nat
          /\ out \in Seq(Int) /\ Len(out) <= Clamped(call.max)
          /\ \A i \in DOMAIN out : Real(Visits[i])
          /\ \A i, j \in DOMAIN out : out[i] = out[j] => i = j
          /\ Cardinality(visited) = Len(out)
          /\ Linked
      BY <2>2 DEF WalkInv, LinksInv
    <2>4. /\ IsFiniteSet(visited') /\ visited' = visited \cup {node}
          /\ node \notin visited /\ KernelVa(node)
          /\ Cardinality(visited') = Cardinality(visited) + 1
      BY VisitedMore DEF WalkInv, ReadLink
    <2>5. /\ DOMAIN seen' = DOMAIN seen \cup {node} /\ seen'[node] = next
          /\ \A a \in DOMAIN seen : a # node => seen'[a] = seen[a]
      BY <1>1, <1>3, Remembered
    <2>6. Len(out) # Clamped(call.max) /\ Clamped(call.max) \in Nat
      BY <2>2, CapRoom DEF ReadLink, Visit, Verdict
    <2>7. /\ out' \in Seq(Int) /\ Len(out') = Len(out) + 1 /\ Len(out) \in Nat
          /\ out'[Len(out) + 1] = node - call.off
          /\ \A i \in DOMAIN out : out'[i] = out[i] /\ i \in 1..Len(out)
          /\ DOMAIN out' = 1..(Len(out) + 1) /\ DOMAIN out = 1..Len(out)
      BY <2>1, <2>3
    <2>8. /\ \A i \in 1..Len(out) : Visits[i] = out[i] + call.off /\ Visits'[i] = Visits[i]
          /\ Visits'[Len(out) + 1] = node
      BY <2>1, <2>3, <2>7 DEF Visits
    <2>9. \A i \in 1..Len(out) : Visits[i] \in visited /\ Visits[i] # node
                                 /\ Visits[i] \in DOMAIN seen /\ KernelVa(Visits[i])
      <3> SUFFICES ASSUME NEW i \in DOMAIN out
                   PROVE  /\ Visits[i] \in visited /\ Visits[i] # node
                          /\ Visits[i] \in DOMAIN seen /\ KernelVa(Visits[i])
        BY <2>7
      <3>1. Real(Visits[i])
        BY <2>3
      <3> QED
        BY <2>4, <3>1 DEF Real
    <2>10. \A i \in DOMAIN out' : Real(Visits[i])'
      BY <2>4, <2>5, <2>7, <2>8, <2>9 DEF Real
    <2>11. \A i, j \in DOMAIN out' : out'[i] = out'[j] => i = j
      <3>1. ASSUME NEW i \in DOMAIN out PROVE out[i] # node - call.off
        <4>1. out[i] \in Int /\ i \in 1..Len(out)
          BY <2>3, <2>7
        <4>2. Visits[i] = out[i] + call.off /\ Visits[i] # node
          BY <2>8, <2>9, <4>1
        <4>3. call.off \in Int /\ node \in Nat
          BY <2>3
        <4> QED
          BY <4>1, <4>2, <4>3
      <3>2. \A i \in DOMAIN out' : i \in DOMAIN out \/ i = Len(out) + 1
        BY <2>7
      <3> SUFFICES ASSUME NEW i \in DOMAIN out', NEW j \in DOMAIN out', out'[i] = out'[j]
                   PROVE  i = j
        OBVIOUS
      <3>3. CASE i \in DOMAIN out /\ j \in DOMAIN out
        BY <2>3, <2>7, <3>3
      <3>4. CASE i = Len(out) + 1 \/ j = Len(out) + 1
        BY <2>7, <3>1, <3>2, <3>4
      <3> QED
        BY <3>2, <3>3, <3>4
    <2>12. Linked'
      <3>1. CASE out = <<>>
        BY <2>1, <2>3, <2>5, <2>7, <2>8, <3>1 DEF Linked
      <3>2. CASE out # <<>>
        <4>1. Len(out) > 0 /\ out' # <<>>
          BY <2>3, <2>7, <3>2
        <4>2. call'.first = Visits'[1]
          BY <2>1, <2>3, <2>8, <3>2, <4>1, <2>7 DEF Linked
        <4>3. ASSUME NEW i \in 1..Len(out) PROVE seen'[Visits'[i]] = Visits'[i + 1]
          <5>1. CASE i = Len(out)
            BY <2>3, <2>5, <2>8, <2>9, <3>2, <4>1, <5>1, <2>7 DEF Linked
          <5>2. CASE i # Len(out)
            <6>0. Len(out) \in Nat
              BY <2>7
            <6>1. i \in 1..(Len(out) - 1) /\ i + 1 \in 1..Len(out)
              BY <5>2, <6>0
            <6>2. seen[Visits[i]] = Visits[i + 1]
              BY <2>3, <3>2, <6>1 DEF Linked
            <6>3. Visits'[i] = Visits[i] /\ Visits'[i + 1] = Visits[i + 1]
              BY <2>8, <6>1
            <6>4. seen'[Visits[i]] = seen[Visits[i]]
              BY <2>5, <2>9, <6>1
            <6> QED
              BY <6>2, <6>3, <6>4
          <5> QED
            BY <5>1, <5>2
        <4>4. Len(out') - 1 = Len(out)
          BY <2>7
        <4>5. seen'[Visits'[Len(out')]] = node'
          BY <2>1, <2>5, <2>7, <2>8
        <4> QED
          BY <4>1, <4>2, <4>3, <4>4, <4>5 DEF Linked
      <3> QED
        BY <3>1, <3>2
    <2>13. LinksInv'
      <3>1. Len(out') <= Clamped(call'.max) /\ Clamped(call.max)' = Clamped(call.max)
        BY <2>1, <2>3, <2>6, <2>7 DEF Clamped
      <3> QED
        BY <2>1, <2>2, <2>3, <2>4, <2>7, <2>10, <2>11, <2>12, <3>1 DEF LinksInv
    <2>14. WalkShape'
      BY <2>1, <2>2, <2>4 DEF WalkInv, WalkShape
    <2>15. RbInv' /\ XaInv'
      BY <2>1, <2>2 DEF RbInv, XaInv
    <2> QED
      BY <2>13, <2>14, <2>15 DEF WalkInv
  <1> QED
    BY <1>2, <1>3

-----------------------------------------------------------------------------
(* A node of a tree, on the way down its left side.                         *)
LEMMA ReadRbKeeps ==
    ASSUME WalkInv, ReadRb
    PROVE  WalkInv'
  <1>1. PICK raw \in Reads(Trees, node) :
            IF raw = Unmapped THEN Unusable("unread")
            ELSE IF raw.parent # parent THEN Unusable("torn")
            ELSE /\ stack' = Append(stack, [node |-> node, right |-> raw.right])
                 /\ parent' = node
                 /\ node' = raw.left
                 /\ Remember(raw)
                 /\ UNCHANGED <<pc, call, out, rc>>
    BY DEF ReadRb
  <1>2. CASE raw = Unmapped \/ raw.parent # parent
    BY <1>1, <1>2, UnusableKeeps DEF ReadRb
  <1>3. CASE ~(raw = Unmapped \/ raw.parent # parent)
    <2>1. /\ stack' = Append(stack, [node |-> node, right |-> raw.right])
          /\ node' = raw.left /\ Remember(raw)
          /\ UNCHANGED <<pc, call, out, rc>>
      BY <1>1, <1>3
    <2>2. /\ pc = "rb" /\ rc = "ok" /\ call.fn = "rbtree" /\ call.max \in Nat
          /\ raw.left \in Nat /\ raw.right \in Nat
      BY <1>3, ReadsTrees DEF ReadRb, WalkInv, WalkShape
    <2>3. /\ call.off = 0 /\ node \in Nat
          /\ stack \in Seq([node : Nat, right : Nat]) /\ Len(stack) <= RbMaxDepth
          /\ out \in Seq(Nat) /\ Len(out) <= Clamped(call.max)
          /\ \A i \in DOMAIN out : Real(out[i])
          /\ \A i, j \in DOMAIN out : out[i] = out[j] => i = j
          /\ \A i \in DOMAIN stack : Real(stack[i].node)
          /\ \A i, j \in DOMAIN stack : stack[i].node = stack[j].node => i = j
          /\ \A i \in DOMAIN stack, j \in DOMAIN out : stack[i].node # out[j]
      BY <2>2 DEF WalkInv, RbInv
    <2>4. /\ IsFiniteSet(visited') /\ visited' = visited \cup {node}
          /\ node \notin visited /\ KernelVa(node)
      BY VisitedMore DEF WalkInv, ReadRb
    <2>5. DOMAIN seen' = DOMAIN seen \cup {node}
      BY <2>1, Remembered
    <2>6. Len(stack) # RbMaxDepth
      BY <2>2 DEF ReadRb, Visit, Verdict
    <2>7. /\ stack' \in Seq([node : Nat, right : Nat]) /\ Len(stack') = Len(stack) + 1
          /\ Len(stack) \in Nat
          /\ stack'[Len(stack) + 1].node = node
          /\ \A i \in DOMAIN stack : stack'[i] = stack[i] /\ i \in 1..Len(stack)
          /\ DOMAIN stack' = 1..(Len(stack) + 1) /\ DOMAIN stack = 1..Len(stack)
      BY <2>1, <2>2, <2>3
    <2>8. /\ \A i \in DOMAIN stack : stack[i].node \in visited /\ stack[i].node # node
          /\ \A j \in DOMAIN out : out[j] \in visited /\ out[j] # node
      BY <2>3, <2>4 DEF Real
    <2>9. Len(stack') <= RbMaxDepth
      <3>1. RbMaxDepth \in Nat
        BY WalkBounds
      <3>2. Len(stack) \in Nat /\ Len(stack) <= RbMaxDepth
        BY <2>3, <2>7
      <3>3. Len(stack') = Len(stack) + 1
        BY <2>7
      <3> QED
        BY <2>6, <3>1, <3>2, <3>3
    <2>10. \A i \in DOMAIN out' : Real(out[i])'
      BY <2>1, <2>3, <2>4, <2>5 DEF Real
    <2> DEFINE new == Len(stack) + 1
    <2>a. \A i \in DOMAIN stack' : i \in DOMAIN stack \/ i = new
      BY <2>7
    <2>11. ASSUME NEW i \in DOMAIN stack' PROVE Real(stack[i].node)'
      <3>1. CASE i \in DOMAIN stack
        <4>1. stack'[i].node = stack[i].node /\ Real(stack[i].node)
          BY <2>3, <2>7, <3>1
        <4> QED
          BY <2>4, <2>5, <4>1 DEF Real
      <3>2. CASE i = new
        BY <2>4, <2>5, <2>7, <3>2 DEF Real
      <3> QED
        BY <2>a, <3>1, <3>2
    <2>12. ASSUME NEW i \in DOMAIN stack', NEW j \in DOMAIN stack',
                  stack'[i].node = stack'[j].node
           PROVE  i = j
      <3>1. CASE i \in DOMAIN stack /\ j \in DOMAIN stack
        BY <2>3, <2>7, <2>12, <3>1
      <3>2. CASE i = new \/ j = new
        BY <2>7, <2>8, <2>12, <2>a, <3>2
      <3> QED
        BY <2>a, <3>1, <3>2
    <2>13. \A i \in DOMAIN stack', j \in DOMAIN out' : stack'[i].node # out'[j]
      BY <2>1, <2>3, <2>7, <2>8
    <2>14. RbInv'
      BY <2>1, <2>2, <2>3, <2>7, <2>9, <2>10, <2>11, <2>12, <2>13 DEF RbInv, Clamped
    <2>15. WalkShape'
      BY <2>1, <2>2, <2>4 DEF WalkInv, WalkShape
    <2>16. LinksInv' /\ XaInv'
      BY <2>1, <2>2 DEF LinksInv, XaInv
    <2> QED
      BY <2>14, <2>15, <2>16 DEF WalkInv
  <1> QED
    BY <1>2, <1>3

(* What the last and the first of a sequence are.                           *)
LEMMA FrontLast ==
    ASSUME NEW T, NEW s \in Seq(T), s # <<>>
    PROVE  /\ Len(s) \in Nat \ {0} /\ Last(s) = s[Len(s)] /\ Last(s) \in T
           /\ Front(s) \in Seq(T) /\ Len(Front(s)) = Len(s) - 1
           /\ DOMAIN Front(s) = 1..(Len(s) - 1) /\ DOMAIN s = 1..Len(s)
           /\ \A i \in 1..(Len(s) - 1) : Front(s)[i] = s[i] /\ i \in 1..Len(s)
  <1>1. Len(s) \in Nat \ {0} /\ DOMAIN s = 1..Len(s)
    OBVIOUS
  <1>2. Last(s) = s[Len(s)] /\ Last(s) \in T
    BY <1>1 DEF Last
  <1>3. Front(s) = SubSeq(s, 1, Len(s) - 1)
    BY DEF Front
  <1>4. /\ Front(s) \in Seq(T) /\ Len(Front(s)) = Len(s) - 1
        /\ DOMAIN Front(s) = 1..(Len(s) - 1)
    BY <1>1, <1>3
  <1>5. \A i \in 1..(Len(s) - 1) : Front(s)[i] = s[i] /\ i \in 1..Len(s)
    BY <1>1, <1>3
  <1> QED
    BY <1>1, <1>2, <1>4, <1>5

(* The node whose left side is done is found, and its right side is next.   *)
LEMMA PopRbKeeps ==
    ASSUME WalkInv, PopRb
    PROVE  WalkInv'
  <1>1. /\ pc = "rb" /\ rc = "ok" /\ call.fn = "rbtree" /\ call.max \in Nat
    BY DEF PopRb, WalkInv, WalkShape
  <1>2. CASE stack = <<>> \/ Len(out) = Clamped(call.max)
    <2>1. Return("ok") \/ Return("cap")
      BY <1>2 DEF PopRb
    <2> QED
      BY <1>1, <2>1, ReturnKeeps
  <1>3. CASE stack # <<>> /\ Len(out) # Clamped(call.max)
    <2>1. /\ out' = Append(out, Top.node) /\ node' = Top.right /\ stack' = Front(stack)
          /\ UNCHANGED <<pc, call, visited, seen, steps, rc>>
      BY <1>3 DEF PopRb
    <2>2. /\ call.off = 0 /\ node \in Nat
          /\ stack \in Seq([node : Nat, right : Nat]) /\ Len(stack) <= RbMaxDepth
          /\ out \in Seq(Nat) /\ Len(out) <= Clamped(call.max)
          /\ \A i \in DOMAIN out : Real(out[i])
          /\ \A i, j \in DOMAIN out : out[i] = out[j] => i = j
          /\ \A i \in DOMAIN stack : Real(stack[i].node)
          /\ \A i, j \in DOMAIN stack : stack[i].node = stack[j].node => i = j
          /\ \A i \in DOMAIN stack, j \in DOMAIN out : stack[i].node # out[j]
      BY <1>1 DEF WalkInv, RbInv
    <2> DEFINE n == Len(stack)
    <2>3. /\ n \in Nat \ {0} /\ Top = stack[n] /\ Top \in [node : Nat, right : Nat]
          /\ stack' \in Seq([node : Nat, right : Nat]) /\ Len(stack') = n - 1
          /\ DOMAIN stack' = 1..(n - 1) /\ DOMAIN stack = 1..n
          /\ \A i \in 1..(n - 1) : stack'[i] = stack[i] /\ i \in 1..n
      <3>1. stack \in Seq([node : Nat, right : Nat]) /\ stack # <<>> /\ stack' = Front(stack)
        BY <1>3, <2>1, <2>2
      <3> DEFINE T == [node : Nat, right : Nat]
      <3>2. stack \in Seq(T)
        BY <3>1
      <3> HIDE DEF T
      <3>3. /\ n \in Nat \ {0} /\ Top = stack[n] /\ Top \in T
            /\ stack' \in Seq(T) /\ Len(stack') = n - 1
            /\ DOMAIN stack' = 1..(n - 1) /\ DOMAIN stack = 1..n
            /\ \A i \in 1..(n - 1) : stack'[i] = stack[i] /\ i \in 1..n
        BY <3>1, <3>2, FrontLast DEF Top
      <3>4. Top \in [node : Nat, right : Nat]
        BY <3>3 DEF T
      <3>5. stack' \in Seq([node : Nat, right : Nat])
        BY <3>3 DEF T
      <3> QED
        BY <3>3, <3>4, <3>5
    <2>4. Top.node \in Nat /\ Top.right \in Nat /\ n \in DOMAIN stack
      BY <2>3
    <2> HIDE DEF n
    <2>5. /\ out' \in Seq(Nat) /\ Len(out') = Len(out) + 1 /\ Len(out) \in Nat
          /\ out'[Len(out) + 1] = Top.node
          /\ \A i \in DOMAIN out : out'[i] = out[i]
          /\ \A i \in DOMAIN out' : i \in DOMAIN out \/ i = Len(out) + 1
      BY <2>1, <2>2, <2>4
    <2>6. Len(out') <= Clamped(call.max)
      <3>1. Clamped(call.max) \in Nat
        BY <1>1, CapRoom
      <3>2. Len(out) <= Clamped(call.max) /\ Len(out) \in Nat /\ Len(out') = Len(out) + 1
        BY <2>2, <2>5
      <3> QED
        BY <1>3, <3>1, <3>2
    <2>7. Len(stack') <= RbMaxDepth
      <3>1. RbMaxDepth \in Nat
        BY WalkBounds
      <3>2. n \in Nat /\ n <= RbMaxDepth /\ Len(stack') = n - 1
        BY <2>2, <2>3 DEF n
      <3> QED
        BY <3>1, <3>2
    <2>8. ASSUME NEW i \in DOMAIN out' PROVE Real(out[i])'
      <3>1. out'[i] = Top.node \/ (i \in DOMAIN out /\ out'[i] = out[i])
        BY <2>5
      <3>2. Real(Top.node) /\ \A k \in DOMAIN out : Real(out[k])
        BY <2>2, <2>3, <2>4
      <3> QED
        BY <2>1, <3>1, <3>2 DEF Real
    <2>9. ASSUME NEW i \in DOMAIN out', NEW j \in DOMAIN out', out'[i] = out'[j]
          PROVE  i = j
      <3>1. \A k \in DOMAIN out : out[k] # Top.node
        BY <2>2, <2>3, <2>4
      <3>2. CASE i \in DOMAIN out /\ j \in DOMAIN out
        BY <2>2, <2>5, <2>9, <3>2
      <3>3. CASE i = Len(out) + 1 \/ j = Len(out) + 1
        BY <2>5, <2>9, <3>1, <3>3
      <3> QED
        BY <2>5, <3>2, <3>3
    <2>10. \A i \in DOMAIN stack' : i \in DOMAIN stack /\ stack'[i] = stack[i] /\ i # n
      BY <2>3
    <2>11. ASSUME NEW i \in DOMAIN stack' PROVE Real(stack[i].node)'
      <3>1. stack'[i] = stack[i] /\ Real(stack[i].node)
        BY <2>2, <2>10
      <3> QED
        BY <2>1, <3>1 DEF Real
    <2>12. \A i, j \in DOMAIN stack' : stack'[i].node = stack'[j].node => i = j
      BY <2>2, <2>10
    <2>13. ASSUME NEW i \in DOMAIN stack', NEW j \in DOMAIN out' PROVE stack'[i].node # out'[j]
      <3>1. stack[i].node # Top.node
        BY <2>2, <2>3, <2>4, <2>10
      <3>2. \A k \in DOMAIN out : stack[i].node # out[k]
        BY <2>2, <2>10
      <3> QED
        BY <2>5, <2>10, <3>1, <3>2
    <2>14. RbInv'
      BY <2>1, <2>2, <2>3, <2>4, <2>5, <2>6, <2>7, <2>8, <2>9, <2>11, <2>12, <2>13
         DEF RbInv, Clamped
    <2>15. WalkShape'
      BY <1>1, <2>1 DEF WalkInv, WalkShape
    <2>16. LinksInv' /\ XaInv'
      BY <1>1, <2>1 DEF LinksInv, XaInv
    <2> QED
      BY <2>14, <2>15, <2>16 DEF WalkInv
  <1> QED
    BY <1>2, <1>3

-----------------------------------------------------------------------------
(* The arithmetic of an xarray.                                             *)
LEMMA Level ==
    /\ Chunk \in Nat \ {0} /\ Pow2[ShiftLimit] \in Nat \ {0}
    /\ \A s \in Nat : Pow2[s] \in Nat \ {0} /\ Pow2[s + ChunkShift] = Chunk * Pow2[s]
  <1>1. ChunkShift \in Nat /\ ShiftLimit \in Nat
    BY WalkBounds
  <1>2. \A s \in Nat : Pow2[s] \in Nat \ {0}
    BY Pow2Positive
  <1>3. ASSUME NEW s \in Nat PROVE Pow2[s + ChunkShift] = Chunk * Pow2[s]
    <2>1. Pow2[s + ChunkShift] = Pow2[s] * Pow2[ChunkShift]
      BY <1>1, Pow2Sum
    <2> QED
      BY <1>1, <1>2, <2>1 DEF Chunk
  <1> QED
    BY <1>1, <1>2, <1>3 DEF Chunk

(* Multiplication, once for all.                                            *)
LEMMA Product ==
    ASSUME NEW a \in Nat, NEW b \in Nat, NEW c \in Nat
    PROVE  /\ a * b \in Nat
           /\ (a + 1) * b = a * b + b
           /\ a < c => a * b + b <= c * b
           /\ a <= c => a * b <= c * b
  OBVIOUS

LEMMA WrapsTo ==
    ASSUME NEW id \in Nat
    PROVE  Wrap(id) \in Nat /\ (id < Pow2[ShiftLimit] => Wrap(id) = id)
  BY Level DEF Wrap

(* The last frame with its slot moved on.                                   *)
LEMMA NextFrames ==
    ASSUME NEW s \in Seq(Frame), s # <<>>
    PROVE  /\ NextSlot(s) \in Seq(Frame) /\ Len(NextSlot(s)) = Len(s) /\ NextSlot(s) # <<>>
           /\ \A k \in 1..(Len(s) - 1) : NextSlot(s)[k] = s[k]
           /\ NextSlot(s)[Len(s)] = [s[Len(s)] EXCEPT !.i = @ + 1]
  <1>1. Len(s) \in Nat \ {0} /\ s[Len(s)] \in Frame /\ Len(s) \in 1..Len(s)
    OBVIOUS
  <1>2. ASSUME NEW f \in Frame PROVE [f EXCEPT !.i = @ + 1] \in Frame
    <2>1. f.i + 1 \in Nat
      BY DEF Frame
    <2> QED
      BY <2>1 DEF Frame
  <1>3. NextSlot(s) = [s EXCEPT ![Len(s)] = [s[Len(s)] EXCEPT !.i = @ + 1]]
    BY DEF NextSlot
  <1>4. [s[Len(s)] EXCEPT !.i = @ + 1] \in Frame
    BY <1>1, <1>2
  <1> HIDE DEF Frame
  <1> QED
    BY <1>1, <1>3, <1>4

(* Where the walk is, the frames in their place: before the end of the      *)
(* slots of the root, so that its id does not wrap.                         *)
LEMMA WithinRoot ==
    ASSUME stack \in Seq(Frame), stack # <<>>, Placed, Fits, call.off \in Nat,
           XaEnd \in Nat, stack[Len(stack)].i < Chunk
    PROVE  /\ At(Len(stack)) \in Nat
           /\ At(Len(stack)) + Pow2[stack[Len(stack)].shift] <= XaEnd
           /\ Id = At(Len(stack))
           /\ Wrap(Id + call.off) = At(Len(stack)) + call.off
  <1> DEFINE n == Len(stack)
             f == stack[n]
             P == Pow2[f.shift]
  <1>1. n \in Nat \ {0} /\ f \in Frame /\ Top = f
    BY DEF Top, Last
  <1>2. f.index \in Nat /\ f.i \in Nat /\ P \in Nat \ {0} /\ f.i < Chunk /\ Chunk \in Nat
    BY <1>1, Level DEF Frame
  <1>3. f.index + Chunk * P <= XaEnd
    BY <1>1 DEF Placed, Width
  <1>4. At(n) = f.index + f.i * P /\ Id = Wrap(f.index + f.i * P)
    BY <1>1 DEF At, Id
  <1>5. XaEnd + call.off <= Pow2[ShiftLimit] /\ Pow2[ShiftLimit] \in Nat
    BY Level DEF Fits
  <1> HIDE DEF n, f, P
  <1>6. f.i * P \in Nat /\ f.i * P + P <= Chunk * P /\ Chunk * P \in Nat
    BY <1>2, Product
  <1>7. At(n) \in Nat /\ At(n) + P <= XaEnd
    <2> DEFINE a == f.i * P
               b == Chunk * P
    <2>1. /\ a \in Nat /\ b \in Nat /\ a + P <= b
          /\ f.index + b <= XaEnd /\ At(n) = f.index + a
      BY <1>3, <1>4, <1>6
    <2> HIDE DEF a, b
    <2> QED
      BY <1>2, <2>1
  <1>8. At(n) < Pow2[ShiftLimit] /\ At(n) + call.off < Pow2[ShiftLimit]
    BY <1>2, <1>5, <1>7
  <1>9. Id = At(n)
    BY <1>4, <1>7, <1>8, WrapsTo
  <1>10. Wrap(Id + call.off) = At(n) + call.off
    <2>1. At(n) + call.off \in Nat
      BY <1>7
    <2>2. Wrap(At(n) + call.off) = At(n) + call.off
      BY <1>8, <2>1, WrapsTo
    <2> QED
      BY <1>9, <2>2
  <1> QED
    BY <1>7, <1>9, <1>10 DEF n, f, P

LEMMA Appended ==
    ASSUME NEW T, NEW s \in Seq(T), NEW e \in T
    PROVE  /\ Append(s, e) \in Seq(T) /\ Len(Append(s, e)) = Len(s) + 1 /\ Append(s, e) # <<>>
           /\ Append(s, e)[Len(s) + 1] = e
           /\ \A k \in 1..Len(s) : Append(s, e)[k] = s[k]
           /\ DOMAIN Append(s, e) = 1..(Len(s) + 1)
  OBVIOUS

(* What is known of a walk of an xarray that goes on.                       *)
LEMMA XaGoesOn ==
    ASSUME WalkInv, pc \in {"xa", "slots"}
    PROVE  /\ call.fn = "idr" /\ rc = "ok" /\ call.max \in Nat
           /\ call.off \in Nat /\ call.first \in Nat /\ IsNode(call.first)
           /\ out \in Seq([id : Nat, ptr : Nat]) /\ Len(out) <= Clamped(call.max)
           /\ node \in Nat /\ stack \in Seq(Frame)
           /\ Cardinality(visited) <= XaMaxNodes /\ DOMAIN seen \subseteq visited
           /\ stack = <<>> => out = <<>> /\ pc = "xa" /\ node = TopNode
           /\ stack # <<>> => /\ TopNode \in DOMAIN seen /\ seen[TopNode].shift \in Nat
                              /\ Path
                              /\ Fits => Placed
  <1>1. call.fn = "idr" /\ rc = "ok" /\ call.max \in Nat
    BY DEF WalkInv, WalkShape
  <1> QED
    BY <1>1 DEF WalkInv, XaInv

LEMMA EndIsNat ==
    ASSUME TopNode \in DOMAIN seen, seen[TopNode].shift \in Nat
    PROVE  XaEnd \in Nat
  <1>1. XaEnd = Chunk * Pow2[seen[TopNode].shift]
    BY DEF XaEnd, TopNode
  <1> QED
    BY <1>1, Level, Product

(* A node of an xarray, one level below the slot it was reached from.       *)
LEMMA ReadXaKeeps ==
    ASSUME WalkInv, ReadXa
    PROVE  WalkInv'
  <1>1. PICK raw \in Reads(XaNodes, node) :
            IF raw = Unmapped THEN Unusable("unread")
            ELSE IF Misplaced(raw) THEN Unusable("torn")
            ELSE /\ stack' = Append(stack, [node |-> node, shift |-> raw.shift, i |-> 0,
                        index |-> IF stack = <<>> THEN 0 ELSE Id, slots |-> raw.slots])
                 /\ pc' = "slots"
                 /\ Remember(raw)
                 /\ UNCHANGED <<call, node, parent, out, rc>>
    BY DEF ReadXa
  <1>2. CASE raw = Unmapped \/ Misplaced(raw)
    BY <1>1, <1>2, UnusableKeeps DEF ReadXa
  <1>3. CASE ~(raw = Unmapped \/ Misplaced(raw))
    <2> DEFINE frame == [node |-> node, shift |-> raw.shift, i |-> 0,
                         index |-> IF stack = <<>> THEN 0 ELSE Id, slots |-> raw.slots]
    <2>1. /\ stack' = Append(stack, frame) /\ pc' = "slots" /\ Remember(raw)
          /\ UNCHANGED <<call, node, parent, out, rc>>
      BY <1>1, <1>3
    <2>2. /\ pc = "xa"
          /\ raw.shift \in Nat /\ raw.slots \in [1..Chunk -> Nat]
          /\ stack # <<>> => raw.shift = Top.shift - ChunkShift
      <3>1. raw \in [shift : Nat, offset : Nat, parent : Nat, slots : [1..Chunk -> Nat]]
        BY <1>3, ReadsXaNodes
      <3> QED
        BY <1>3, <3>1 DEF ReadXa, Misplaced
    <2>3. /\ call.fn = "idr" /\ rc = "ok" /\ call.max \in Nat
          /\ call.off \in Nat /\ call.first \in Nat /\ IsNode(call.first)
          /\ out \in Seq([id : Nat, ptr : Nat]) /\ Len(out) <= Clamped(call.max)
          /\ node \in Nat /\ stack \in Seq(Frame)
          /\ Cardinality(visited) <= XaMaxNodes /\ DOMAIN seen \subseteq visited
          /\ stack = <<>> => out = <<>> /\ node = TopNode
          /\ stack # <<>> => /\ TopNode \in DOMAIN seen /\ seen[TopNode].shift \in Nat
                             /\ Path
                             /\ Fits => Placed
      BY <2>2, XaGoesOn
    <2>4. /\ IsFiniteSet(visited') /\ visited' = visited \cup {node} /\ node \notin visited
          /\ Cardinality(visited) \in Nat /\ Cardinality(visited') = Cardinality(visited) + 1
      BY VisitedMore DEF WalkInv, ReadXa
    <2>5. Cardinality(visited') <= XaMaxNodes
      BY <2>2, <2>4, WalkBounds DEF ReadXa, Visit, Verdict
    <2>6. /\ DOMAIN seen' = DOMAIN seen \cup {node} /\ seen'[node] = raw
          /\ \A a \in DOMAIN seen : a # node => seen'[a] = seen[a]
      BY <2>1, Remembered
    <2>7. frame \in Frame
      <3>1. stack # <<>> => Id \in Nat
        <4>1. ASSUME stack # <<>> PROVE Top.index + Top.i * Pow2[Top.shift] \in Nat
          <5>1. Top \in Frame
            BY <2>3, <4>1, FrontLast DEF Top
          <5>2. Top.index \in Nat /\ Top.i \in Nat /\ Pow2[Top.shift] \in Nat
            BY <5>1, Level DEF Frame
          <5> QED
            BY <5>2, Product
        <4> QED
          BY <4>1, WrapsTo DEF Id
      <3>2. frame.index \in Nat
        BY <3>1
      <3> QED
        BY <2>2, <2>3, <3>2 DEF Frame
    <2> HIDE DEF frame
    <2>0. PICK n \in Nat : n = Len(stack)
      <3>1. Len(stack) \in Nat
        BY <2>3
      <3> QED
        BY <3>1
    <2>8. /\ stack' \in Seq(Frame) /\ Len(stack') = n + 1 /\ stack' # <<>> /\ n \in Nat
          /\ stack'[n + 1] = frame
          /\ \A k \in 1..n : stack'[k] = stack[k]
      <3>1. stack \in Seq(Frame) /\ stack' = Append(stack, frame)
        BY <2>1, <2>3
      <3> QED
        BY <2>0, <2>7, <3>1, Appended
    <2>9. WalkShape'
      BY <2>1, <2>2, <2>3, <2>4 DEF WalkInv, WalkShape
    <2>10. LinksInv' /\ RbInv'
      BY <2>1, <2>3 DEF LinksInv, RbInv
    <2>11. TopNode' = TopNode /\ Clamped(call.max)' = Clamped(call.max)
      BY <2>1 DEF TopNode, Clamped
    <2>12. TopNode' \in DOMAIN seen' /\ seen'[TopNode'].shift \in Nat
           /\ Path' /\ (Fits' => Placed')
      <3>1. frame.i = 0 /\ frame.shift = raw.shift
            /\ frame.index = IF stack = <<>> THEN 0 ELSE Id
        BY DEF frame
      <3>2. CASE stack = <<>>
        <4>1. n = 0 /\ out' = <<>> /\ node = TopNode /\ seen'[TopNode] = raw
          BY <2>0, <2>1, <2>3, <2>6, <3>2
        <4>2. /\ Len(stack') = 1 /\ stack'[1] = frame /\ frame.index = 0
              /\ stack'[1].shift = raw.shift /\ stack'[1].i = 0
          BY <2>8, <3>1, <3>2, <4>1
        <4>3. Path'
          BY <2>1, <2>11, <4>1, <4>2, Level DEF Path
        <4>4. XaEnd' = Chunk * Pow2[raw.shift] /\ XaEnd' \in Nat
          BY <2>2, <2>11, <4>1, Level, Product DEF XaEnd, TopNode
        <4>5. Placed'
          <5>1. Width(1)' = XaEnd' /\ stack'[1].index = 0
            BY <4>2, <4>4 DEF Width
          <5> QED
            BY <4>1, <4>2, <4>4, <5>1 DEF Placed
        <4> QED
          BY <2>2, <2>6, <2>11, <4>1, <4>3, <4>5
      <3>3. CASE stack # <<>>
        <4>1. TopNode \in DOMAIN seen' /\ seen'[TopNode] = seen[TopNode] /\ XaEnd \in Nat
          BY <2>3, <2>4, <2>6, <3>3, EndIsNat
        <4>2. XaEnd' = XaEnd /\ (Fits' <=> Fits)
          BY <2>1, <2>11, <4>1 DEF XaEnd, Fits, TopNode
        <4>3. /\ n \in Nat \ {0} /\ stack[n] \in Frame /\ Top = stack[n]
              /\ stack[n].shift \in Nat /\ stack[n].i < Chunk
          <5>1. n \in Nat \ {0} /\ stack[n] \in Frame /\ Top = stack[n]
            <6>1. stack \in Seq(Frame)
              BY <2>3
            <6> QED
              BY <2>0, <3>3, <6>1, FrontLast DEF Top
          <5>2. stack[n].i < Chunk
            BY <2>0, <2>2, <2>3, <3>3 DEF Path
          <5> QED
            BY <5>1, <5>2 DEF Frame
        <4>4. stack[n].shift = raw.shift + ChunkShift
          <5>1. ChunkShift \in Nat
            BY WalkBounds
          <5> QED
            BY <2>2, <3>3, <4>3, <5>1
        <4>5. \A k \in 1..(n - 1) :
                 stack[k].i < Chunk /\ stack[k].shift = stack[k + 1].shift + ChunkShift
          BY <2>0, <2>3, <3>3 DEF Path
        <4>6. Path'
          <5>1. stack'[1] = stack[1]
            BY <2>8, <4>3
          <5>2. ASSUME NEW k \in 1..(Len(stack') - 1)
                PROVE  stack'[k].i < Chunk /\ stack'[k].shift = stack'[k + 1].shift + ChunkShift
            <6>1. stack'[k] = stack[k] /\ k \in 1..n
              BY <2>8
            <6>2. CASE k = n
              BY <2>8, <3>1, <4>3, <4>4, <6>1, <6>2
            <6>3. CASE k # n
              <7>1. k \in 1..(n - 1) /\ k + 1 \in 1..n
                BY <4>3, <6>1, <6>3
              <7> QED
                BY <2>8, <4>5, <6>1, <7>1
            <6> QED
              BY <6>2, <6>3
          <5>3. stack'[Len(stack')].i = 0 /\ 0 <= Chunk
            BY <2>8, <3>1, Level
          <5> QED
            BY <2>1, <2>3, <2>11, <3>3, <4>1, <5>1, <5>2, <5>3 DEF Path
        <4>7. ASSUME Fits PROVE Placed'
          <5>1. Placed
            BY <2>3, <3>3, <4>7
          <5>2. At(n) \in Nat /\ Id = At(n) /\ At(n) + Pow2[stack[n].shift] <= XaEnd
            BY <2>0, <2>3, <3>3, <4>1, <4>3, <4>7, <5>1, WithinRoot
          <5>3. \A k \in 1..n : At(k)' = At(k) /\ Width(k)' = Width(k)
            BY <2>8 DEF At, Width
          <5>4. /\ stack'[n + 1].index = At(n) /\ At(n + 1)' = At(n)
                /\ Width(n + 1)' = Pow2[stack[n].shift]
            <6>1. stack'[n + 1].index = At(n) /\ stack'[n + 1].i = 0 /\ stack'[n + 1].shift = raw.shift
              BY <2>8, <3>1, <3>3, <5>2
            <6>2. Pow2[raw.shift] \in Nat
              BY <2>2, Level
            <6>3. At(n + 1)' = At(n) + 0 * Pow2[raw.shift]
              BY <6>1 DEF At
            <6>4. Width(n + 1)' = Pow2[stack[n].shift]
              BY <2>2, <4>4, <6>1, Level DEF Width
            <6> QED
              BY <5>2, <6>1, <6>2, <6>3, <6>4
          <5>5. ASSUME NEW k \in 1..(Len(stack') - 1) PROVE stack'[k + 1].index = At(k)'
            <6>1. k \in 1..n /\ (k # n => k \in 1..(n - 1) /\ k + 1 \in 1..n)
              BY <2>8, <4>3
            <6>2. CASE k = n
              BY <5>3, <5>4, <6>1, <6>2
            <6>3. CASE k # n
              BY <2>0, <2>8, <5>1, <5>3, <6>1, <6>3 DEF Placed
            <6> QED
              BY <6>2, <6>3
          <5>6. ASSUME NEW k \in 1..Len(stack') PROVE stack'[k].index + Width(k)' <= XaEnd'
            <6>1. k \in 1..n \/ k = n + 1
              BY <2>8
            <6>2. CASE k \in 1..n
              BY <2>0, <2>8, <4>2, <5>1, <5>3, <6>2 DEF Placed
            <6>3. CASE k = n + 1
              BY <4>2, <5>2, <5>4, <6>3
            <6> QED
              BY <6>1, <6>2, <6>3
          <5>7. At(Len(stack))' = At(Len(stack))
            BY <2>0, <2>8, <5>4 DEF At
          <5> QED
            BY <2>1, <5>1, <5>5, <5>6, <5>7 DEF Placed
        <4> QED
          BY <2>3, <2>11, <3>3, <4>1, <4>2, <4>6, <4>7
      <3> QED
        BY <3>2, <3>3
    <2>13. XaInv'
      BY <2>1, <2>3, <2>4, <2>5, <2>6, <2>8, <2>11, <2>12 DEF XaInv
    <2> QED
      BY <2>9, <2>10, <2>13 DEF WalkInv
  <1> QED
    BY <1>2, <1>3

(* The walk goes on to the next slot of a node: what it found lies before.  *)
LEMMA NextSlotPlace ==
    ASSUME stack \in Seq(Frame), stack # <<>>, NEW m \in Nat, m # 0, m <= Len(stack),
           stack[m].i < Chunk, Path,
           NEW kept \in Seq(Frame), Len(kept) = m, \A k \in 1..m : kept[k] = stack[k],
           stack' = NextSlot(kept), UNCHANGED <<pc, call, seen>>, pc # "xa"
    PROVE  /\ stack' \in Seq(Frame) /\ stack' # <<>> /\ Len(stack') = m
           /\ Path'
           /\ XaEnd' = XaEnd /\ (Fits' <=> Fits)
           /\ At(m)' = At(m) + Pow2[stack[m].shift]
           /\ Placed => /\ \A k \in 1..(m - 1) : stack'[k + 1].index = At(k)'
                        /\ \A k \in 1..m : stack'[k].index + Width(k)' <= XaEnd'
  <1> DEFINE f == [stack[m] EXCEPT !.i = @ + 1]
  <1>1. stack[m] \in Frame /\ kept # <<>> /\ m \in 1..m /\ 1 \in 1..m
    OBVIOUS
  <1>2. /\ stack' \in Seq(Frame) /\ stack' # <<>> /\ Len(stack') = m
        /\ \A k \in 1..(m - 1) : stack'[k] = stack[k]
        /\ stack'[m] = f
    <2>1. \A k \in 1..(m - 1) : k \in 1..m
      OBVIOUS
    <2> QED
      BY <1>1, <2>1, NextFrames
  <1>3. /\ f.i = stack[m].i + 1 /\ f.shift = stack[m].shift /\ f.index = stack[m].index
        /\ stack[m].i \in Nat /\ stack[m].shift \in Nat /\ stack[m].index \in Nat
    BY <1>1 DEF Frame
  <1> HIDE DEF f
  <1>4. \A k \in 1..m : stack'[k].shift = stack[k].shift /\ stack'[k].index = stack[k].index
    <2>1. \A k \in 1..m : k = m \/ k \in 1..(m - 1)
      OBVIOUS
    <2> QED
      BY <1>2, <1>3, <2>1
  <1>5. XaEnd' = XaEnd /\ (Fits' <=> Fits)
    BY DEF XaEnd, Fits
  <1>6. Path'
    <2>1. stack'[1].index = 0 /\ stack'[1].shift = seen[TopNode].shift
      BY <1>1, <1>4 DEF Path
    <2>2. ASSUME NEW k \in 1..(m - 1)
          PROVE  stack'[k].i < Chunk /\ stack'[k].shift = stack'[k + 1].shift + ChunkShift
      <3>1. k \in 1..(Len(stack) - 1) /\ k \in 1..m /\ k + 1 \in 1..m
        OBVIOUS
      <3>2. stack[k].i < Chunk /\ stack[k].shift = stack[k + 1].shift + ChunkShift
        BY <3>1 DEF Path
      <3> QED
        BY <1>2, <1>4, <3>1, <3>2
    <2>3. stack'[m].i <= Chunk
      BY <1>2, <1>3, Level
    <2> QED
      BY <1>2, <2>1, <2>2, <2>3 DEF Path, TopNode
  <1>7. At(m)' = At(m) + Pow2[stack[m].shift]
    <2> DEFINE P == Pow2[stack[m].shift]
    <2>1. P \in Nat
      BY <1>3, Level
    <2>2. At(m)' = stack[m].index + (stack[m].i + 1) * P /\ At(m) = stack[m].index + stack[m].i * P
      BY <1>2, <1>3 DEF At
    <2> HIDE DEF P
    <2>3. (stack[m].i + 1) * P = stack[m].i * P + P /\ stack[m].i * P \in Nat
      BY <1>3, <2>1, Product
    <2> QED
      BY <1>3, <2>1, <2>2, <2>3 DEF P
  <1>8. ASSUME Placed, NEW k \in 1..(m - 1) PROVE stack'[k + 1].index = At(k)'
    <2>1. k \in 1..(Len(stack) - 1) /\ k + 1 \in 1..m
      OBVIOUS
    <2>2. stack[k + 1].index = At(k) /\ At(k)' = At(k)
      BY <1>2, <1>8, <2>1 DEF Placed, At
    <2> QED
      BY <1>4, <2>1, <2>2
  <1>9. ASSUME Placed, NEW k \in 1..m PROVE stack'[k].index + Width(k)' <= XaEnd'
    <2>1. k \in 1..Len(stack) /\ Width(k)' = Width(k)
      BY <1>4 DEF Width
    <2> QED
      BY <1>4, <1>5, <1>9, <2>1 DEF Placed
  <1> QED
    BY <1>2, <1>5, <1>6, <1>7, <1>8, <1>9

(* The end of a node, back in the slot it was reached from.                 *)
LEMMA XaReturnKeeps ==
    ASSUME WalkInv, XaReturn
    PROVE  WalkInv'
  <1>1. pc = "slots"
    BY DEF XaReturn
  <1>2. CASE Len(stack) = 1
    BY <1>1, <1>2, ReturnKeeps DEF XaReturn
  <1>3. CASE Len(stack) # 1
    <2>1. /\ stack' = NextSlot(Front(stack)) /\ Top.i = Chunk
          /\ UNCHANGED <<pc, call, node, parent, visited, seen, steps, out, rc>>
      BY <1>3 DEF XaReturn
    <2>2. /\ call.fn = "idr" /\ rc = "ok" /\ call.max \in Nat
          /\ call.off \in Nat /\ call.first \in Nat /\ IsNode(call.first)
          /\ out \in Seq([id : Nat, ptr : Nat]) /\ Len(out) <= Clamped(call.max)
          /\ node \in Nat /\ stack \in Seq(Frame) /\ stack # <<>>
          /\ Cardinality(visited) <= XaMaxNodes /\ DOMAIN seen \subseteq visited
          /\ TopNode \in DOMAIN seen /\ seen[TopNode].shift \in Nat
          /\ Path
          /\ Fits => Placed
      BY <1>1, XaGoesOn
    <2>3. PICK n \in Nat \ {0} : n = Len(stack)
      BY <2>2, FrontLast
    <2>4. Len(stack) \in Nat /\ n # 1 /\ n - 1 \in Nat /\ n - 1 # 0 /\ n - 1 <= Len(stack)
      BY <1>3, <2>3
    <2> DEFINE m == n - 1
    <2>5. /\ Front(stack) \in Seq(Frame) /\ Len(Front(stack)) = m
          /\ \A k \in 1..m : Front(stack)[k] = stack[k]
          /\ Top = stack[n] /\ stack[n] \in Frame
      <3>1. stack \in Seq(Frame) /\ stack # <<>>
        BY <2>2
      <3> QED
        BY <2>3, <3>1, FrontLast DEF Top
    <2>6. stack[m].i < Chunk /\ stack[m].shift = stack[n].shift + ChunkShift /\ m \in 1..(n - 1)
      <3>1. m \in 1..(Len(stack) - 1) /\ m + 1 = n
        BY <2>3, <2>4
      <3> QED
        BY <2>2, <2>3, <3>1 DEF Path
    <2>7. /\ stack' \in Seq(Frame) /\ stack' # <<>> /\ Len(stack') = m
          /\ Path' /\ XaEnd' = XaEnd /\ (Fits' <=> Fits)
          /\ At(m)' = At(m) + Pow2[stack[m].shift]
          /\ Placed => /\ \A k \in 1..(m - 1) : stack'[k + 1].index = At(k)'
                       /\ \A k \in 1..m : stack'[k].index + Width(k)' <= XaEnd'
      <3>1. stack \in Seq(Frame) /\ stack # <<>> /\ Path
        BY <2>2
      <3>2. UNCHANGED <<pc, call, seen>> /\ pc # "xa" /\ stack' = NextSlot(Front(stack))
        BY <1>1, <2>1
      <3>3. m \in Nat /\ m # 0 /\ m <= Len(stack)
        BY <2>4
      <3> HIDE DEF m
      <3> QED
        BY <2>5, <2>6, <3>1, <3>2, <3>3, NextSlotPlace
    <2>8. Placed => At(m)' = At(n)
      <3> SUFFICES ASSUME Placed PROVE At(m)' = At(n)
        OBVIOUS
      <3>1. stack[n].index = At(m) /\ stack[n].i = Chunk /\ stack[n].shift \in Nat
        <4>1. m \in 1..(Len(stack) - 1) /\ m + 1 = n
          BY <2>3, <2>4
        <4> QED
          BY <2>1, <2>5, <4>1 DEF Placed, Frame
      <3>2. At(n) = At(m) + Chunk * Pow2[stack[n].shift]
        BY <3>1 DEF At
      <3> QED
        BY <2>6, <2>7, <3>1, <3>2, Level
    <2>9. Fits' => Placed'
      <3> SUFFICES ASSUME Fits PROVE Placed'
        BY <2>7
      <3>1. Placed
        BY <2>2
      <3>2. \A j \in DOMAIN out' : out'[j].id < call'.off + At(Len(stack))'
        <4>1. At(Len(stack))' = At(m)'
          BY <2>7 DEF At
        <4> QED
          BY <2>1, <2>3, <2>8, <3>1, <4>1 DEF Placed
      <3> QED
        BY <2>1, <2>7, <3>1, <3>2 DEF Placed
    <2>10. WalkShape'
      BY <1>1, <2>1, <2>2 DEF WalkInv, WalkShape
    <2>11. LinksInv' /\ RbInv'
      BY <2>1, <2>2 DEF LinksInv, RbInv
    <2>12. XaInv'
      BY <1>1, <2>1, <2>2, <2>7, <2>9 DEF XaInv, TopNode, Clamped
    <2> QED
      BY <2>10, <2>11, <2>12 DEF WalkInv
  <1> QED
    BY <1>2, <1>3

(* A slot: a node to go down to, an entry, or nothing.                      *)
LEMMA NodesAreNot ==
    ASSUME NEW e \in Nat, IsNode(e)
    PROVE  ~IsPointer(e) /\ e - 2 \in Nat
  BY DEF IsNode, IsPointer

LEMMA FoundBefore ==
    ASSUME Placed, out \in Seq([id : Nat, ptr : Nat]), NEW n, n = Len(stack),
           NEW j \in DOMAIN out
    PROVE  out[j].id < call.off + At(n) /\ out[j].id \in Nat
  <1>1. out[j] \in [id : Nat, ptr : Nat]
    <2> DEFINE T == [id : Nat, ptr : Nat]
    <2>1. out \in Seq(T)
      OBVIOUS
    <2> HIDE DEF T
    <2>2. out[j] \in T
      BY <2>1
    <2> QED
      BY <2>2 DEF T
  <1>2. out[j].id < call.off + At(Len(stack))
    BY DEF Placed
  <1> QED
    BY <1>1, <1>2

LEMMA Farther ==
    ASSUME NEW a \in Nat, NEW b \in Nat, NEW c \in Nat, NEW d \in Nat, a < b + c
    PROVE  a < b + (c + d)
  OBVIOUS

LEMMA XaSlotKeeps ==
    ASSUME WalkInv, XaSlot
    PROVE  WalkInv'
  <1>1. pc = "slots" /\ Top.i < Chunk
    BY DEF XaSlot
  <1>2. /\ call.fn = "idr" /\ rc = "ok" /\ call.max \in Nat
        /\ call.off \in Nat /\ call.first \in Nat /\ IsNode(call.first)
        /\ out \in Seq([id : Nat, ptr : Nat]) /\ Len(out) <= Clamped(call.max)
        /\ node \in Nat /\ stack \in Seq(Frame) /\ stack # <<>>
        /\ Cardinality(visited) <= XaMaxNodes /\ DOMAIN seen \subseteq visited
        /\ TopNode \in DOMAIN seen /\ seen[TopNode].shift \in Nat
        /\ Path
        /\ Fits => Placed
    BY <1>1, XaGoesOn
  <1>3. PICK n \in Nat \ {0} : n = Len(stack)
    BY <1>2, FrontLast
  <1>4. Top = stack[n] /\ stack[n] \in Frame /\ stack[n].i < Chunk
    <2>1. stack \in Seq(Frame) /\ stack # <<>>
      BY <1>2
    <2> QED
      BY <1>1, <1>3, <2>1, FrontLast DEF Top
  <1>5. Slot \in Nat
    <2>1. stack[n].slots \in [1..Chunk -> Nat] /\ stack[n].i \in Nat
      BY <1>4 DEF Frame
    <2>2. stack[n].i + 1 \in 1..Chunk
      BY <1>4, <2>1, Level
    <2> QED
      BY <1>4, <2>1, <2>2 DEF Slot
  <1>6. CASE (IsNode(Slot) /\ Top.shift = 0) \/ (IsPointer(Slot) /\ Len(out) = Clamped(call.max))
    <2>1. Return("torn") \/ Return("cap")
      BY <1>6 DEF XaSlot
    <2> QED
      BY <1>1, <2>1, ReturnKeeps
  <1>7. CASE /\ ~(IsNode(Slot) /\ Top.shift = 0)
             /\ ~(IsPointer(Slot) /\ Len(out) = Clamped(call.max))
    <2>1. /\ pc' = IF IsNode(Slot) THEN "xa" ELSE pc
          /\ node' = IF IsNode(Slot) THEN Slot - 2 ELSE node
          /\ stack' = IF IsNode(Slot) THEN stack ELSE NextSlot(stack)
          /\ out' = IF IsPointer(Slot)
                    THEN Append(out, [id |-> Wrap(Id + call.off), ptr |-> Slot]) ELSE out
          /\ UNCHANGED <<call, parent, visited, seen, steps, rc>>
      BY <1>7 DEF XaSlot
    <2>2. node' \in Nat /\ (IsNode(Slot) => out' = out /\ ~IsPointer(Slot))
      BY <1>2, <1>5, <2>1, NodesAreNot
    <2>3. WalkShape'
      BY <1>1, <1>2, <2>1 DEF WalkInv, WalkShape
    <2>4. LinksInv' /\ RbInv'
      BY <1>2, <2>1 DEF LinksInv, RbInv
    <2>5. CASE IsNode(Slot)
      <3>1. pc' = "xa" /\ UNCHANGED <<call, stack, out, seen, visited, rc>>
        BY <2>1, <2>2, <2>5
      <3>2. Path' /\ (Fits' => Placed')
        <4>1. Path'
          BY <1>2, <1>3, <1>4, <3>1 DEF Path, TopNode
        <4>2. Fits' => Placed'
          BY <1>2, <3>1 DEF Placed, Fits, At, Width, XaEnd
        <4> QED
          BY <4>1, <4>2
      <3>3. XaInv'
        BY <1>2, <2>2, <3>1, <3>2 DEF XaInv, TopNode, Clamped
      <3> QED
        BY <2>3, <2>4, <3>3 DEF WalkInv
    <2>6. CASE ~IsNode(Slot)
      <3>1. stack' = NextSlot(stack) /\ UNCHANGED <<pc, call, seen, visited, rc, node>>
        BY <2>1, <2>6
      <3>2. /\ stack' \in Seq(Frame) /\ stack' # <<>> /\ Len(stack') = n
            /\ Path' /\ XaEnd' = XaEnd /\ (Fits' <=> Fits)
            /\ At(n)' = At(n) + Pow2[stack[n].shift]
            /\ Placed => /\ \A k \in 1..(n - 1) : stack'[k + 1].index = At(k)'
                         /\ \A k \in 1..n : stack'[k].index + Width(k)' <= XaEnd'
        <4>1. stack \in Seq(Frame) /\ stack # <<>> /\ Path
          BY <1>2
        <4>2. UNCHANGED <<pc, call, seen>> /\ pc # "xa"
          BY <1>1, <3>1
        <4>3. n \in Nat /\ n # 0 /\ n <= Len(stack) /\ \A k \in 1..n : stack[k] = stack[k]
          BY <1>3
        <4> QED
          BY <1>3, <1>4, <3>1, <4>1, <4>2, <4>3, NextSlotPlace
      <3>3. CASE ~IsPointer(Slot)
        <4>1. out' = out
          BY <2>1, <3>3
        <4>2. Fits' => Placed'
          <5> SUFFICES ASSUME Fits PROVE Placed'
            BY <3>2
          <5>1. Placed
            BY <1>2
          <5>0. At(n) \in Nat
            BY <1>2, <1>3, <1>4, <5>1, EndIsNat, WithinRoot
          <5>2. At(n) \in Nat /\ Pow2[stack[n].shift] \in Nat /\ At(Len(stack))' = At(n)'
            <6>0. n \in 1..Len(stack) /\ stack \in Seq(Frame) /\ stack # <<>>
              BY <1>2, <1>3
            <6>1. stack[n] \in Frame
              BY <6>0
            <6>2. stack[n].shift \in Nat
              BY <6>1 DEF Frame
            <6> QED
              BY <3>2, <5>0, <6>2, Level DEF At
          <5>3. ASSUME NEW j \in DOMAIN out' PROVE out'[j].id < call'.off + At(Len(stack))'
            <6>1. out[j].id < call.off + At(n) /\ out[j].id \in Nat /\ call.off \in Nat
              BY <1>2, <1>3, <4>1, <5>1, FoundBefore
            <6>2. At(n)' = At(n) + Pow2[stack[n].shift] /\ call'.off = call.off /\ out'[j] = out[j]
              BY <3>1, <3>2, <4>1
            <6>3. call'.off + At(Len(stack))' = call.off + (At(n) + Pow2[stack[n].shift])
              <7>1. At(Len(stack))' = At(n) + Pow2[stack[n].shift]
                BY <3>2 DEF At
              <7> QED
                BY <6>2, <7>1
            <6>4. out[j].id < call.off + (At(n) + Pow2[stack[n].shift])
              BY <5>2, <6>1, Farther
            <6> QED
              BY <6>2, <6>3, <6>4
          <5> QED
            BY <3>2, <4>1, <5>1, <5>3 DEF Placed
        <4>3. XaInv'
          BY <1>1, <1>2, <3>1, <3>2, <4>1, <4>2 DEF XaInv, TopNode, Clamped
        <4> QED
          BY <2>3, <2>4, <4>3 DEF WalkInv
      <3>4. CASE IsPointer(Slot)
        <4> DEFINE new == [id |-> Wrap(Id + call.off), ptr |-> Slot]
        <4>1. out' = Append(out, new) /\ Len(out) # Clamped(call.max)
          BY <1>7, <2>1, <3>4
        <4>2. new \in [id : Nat, ptr : Nat]
          <5>1. Id \in Nat
            <6>1. stack[n].index \in Nat /\ stack[n].i \in Nat /\ Pow2[stack[n].shift] \in Nat
              BY <1>4, Level DEF Frame
            <6>2. stack[n].index + stack[n].i * Pow2[stack[n].shift] \in Nat
              BY <6>1, Product
            <6> QED
              BY <1>4, <6>2, WrapsTo DEF Id
          <5>2. Id + call.off \in Nat
            BY <1>2, <5>1
          <5>3. Wrap(Id + call.off) \in Nat
            BY <5>2, WrapsTo
          <5> QED
            BY <1>5, <5>3
        <4> HIDE DEF new
        <4>3. PICK l \in Nat : l = Len(out)
          <5>1. Len(out) \in Nat
            BY <1>2
          <5> QED
            BY <5>1
        <4>4. /\ out' \in Seq([id : Nat, ptr : Nat]) /\ Len(out') = l + 1
              /\ out'[l + 1] = new /\ DOMAIN out' = 1..(l + 1)
              /\ \A j \in 1..l : out'[j] = out[j] /\ j \in DOMAIN out
          <5>1. out \in Seq([id : Nat, ptr : Nat]) /\ out' = Append(out, new)
            BY <1>2, <4>1
          <5>2. \A j \in 1..l : j \in DOMAIN out
            BY <4>3, <5>1
          <5> QED
            BY <4>2, <4>3, <5>1, <5>2, Appended
        <4>5. Len(out') <= Clamped(call.max)
          <5>1. Clamped(call.max) \in Nat
            BY <1>2, CapRoom
          <5>2. l <= Clamped(call.max) /\ l # Clamped(call.max)
            BY <1>2, <4>1, <4>3
          <5> QED
            BY <4>4, <5>1, <5>2
        <4>6. Fits' => Placed'
          <5> SUFFICES ASSUME Fits PROVE Placed'
            BY <3>2
          <5>1. Placed
            BY <1>2
          <5>2. /\ At(n) \in Nat /\ Pow2[stack[n].shift] \in Nat \ {0}
                /\ new.id = At(n) + call.off
            BY <1>2, <1>3, <1>4, <5>1, EndIsNat, WithinRoot, Level DEF Frame, new
          <5>3. At(Len(stack))' = At(n) + Pow2[stack[n].shift]
            BY <3>2 DEF At
          <5>4. ASSUME NEW j \in 1..l
                PROVE  /\ out'[j].id < call.off + At(n)
                       /\ out'[j].id \in Nat
            <6>1. j \in DOMAIN out /\ out'[j] = out[j]
              BY <4>4
            <6>2. out[j].id < call.off + At(n) /\ out[j].id \in Nat
              BY <1>2, <1>3, <5>1, <6>1, FoundBefore
            <6> QED
              BY <6>1, <6>2
          <5>5. ASSUME NEW j \in DOMAIN out' PROVE out'[j].id < call'.off + At(Len(stack))'
            <6>1. call' = call /\ call.off \in Nat
              BY <1>2, <3>1
            <6>2. CASE j \in 1..l
              <7>1. out'[j].id < call.off + At(n) /\ out'[j].id \in Nat
                BY <5>4, <6>2
              <7>2. out'[j].id < call.off + (At(n) + Pow2[stack[n].shift])
                BY <5>2, <6>1, <7>1, Farther
              <7> QED
                BY <5>3, <6>1, <7>2
            <6>3. CASE j = l + 1
              <7>1. out'[j].id = At(n) + call.off
                BY <4>4, <5>2, <6>3
              <7> QED
                BY <5>2, <5>3, <6>1, <7>1
            <6> QED
              BY <4>4, <6>2, <6>3
          <5>6. ASSUME NEW i \in DOMAIN out', NEW j \in DOMAIN out', i < j
                PROVE  out'[i].id < out'[j].id
            <6>1. i \in 1..l
              BY <4>4, <5>6
            <6>2. CASE j \in 1..l
              BY <4>4, <5>1, <5>6, <6>1, <6>2 DEF Placed
            <6>3. CASE j = l + 1
              <7>1. out'[j].id = At(n) + call.off /\ call.off \in Nat
                BY <1>2, <4>4, <5>2, <6>3
              <7>2. out'[i].id < call.off + At(n) /\ out'[i].id \in Nat
                BY <5>4, <6>1
              <7> QED
                BY <5>2, <7>1, <7>2
            <6> QED
              BY <4>4, <6>2, <6>3
          <5> QED
            BY <3>2, <5>5, <5>6, <5>1 DEF Placed
        <4>7. XaInv'
          BY <1>1, <1>2, <3>1, <3>2, <4>4, <4>5, <4>6 DEF XaInv, TopNode, Clamped
        <4> QED
          BY <2>3, <2>4, <4>7 DEF WalkInv
      <3> QED
        BY <3>3, <3>4
    <2> QED
      BY <2>5, <2>6
  <1> QED
    BY <1>6, <1>7

-----------------------------------------------------------------------------
(* The calls.                                                               *)
LEMMA BeginKeeps ==
    ASSUME WalkInv, NEW c, NEW at \in {"links", "rb", "xa", "done"}, NEW first, NEW found, NEW why,
           Begin(c, at, first), out' = found, rc' = why
    PROVE  /\ pc = "idle" /\ stack' = <<>> /\ visited' = {} /\ seen' = <<>> /\ parent' = 0
           /\ call' = c /\ pc' = at /\ node' = first /\ out' = found /\ rc' = why
  BY DEF Begin, WalkInv, WalkShape

(* A call that is refused, or one that answers no node of guest memory.     *)
LEMMA AnswerKeeps ==
    ASSUME WalkInv, NEW c, NEW found, NEW why \in {"ok", "cap", "unread", "refused"},
           Answer(c, found, why),
           c.fn \in {"list", "hlist", "rbtree", "idr", "many", "percpu"},
           c.fn \in {"list", "hlist", "rbtree", "idr"} => c.max \in Nat,
           why = "refused" => found = <<>>,
           c.fn \in {"list", "hlist", "rbtree", "idr"} => why = "refused"
    PROVE  WalkInv'
  <1>1. /\ stack' = <<>> /\ visited' = {} /\ call' = c /\ pc' = "done"
        /\ out' = found /\ rc' = why
    BY BeginKeeps DEF Answer
  <1>2. WalkShape'
    BY <1>1, FS_EmptySet DEF WalkShape
  <1>3. LinksInv' /\ RbInv' /\ XaInv'
    BY <1>1 DEF LinksInv, RbInv, XaInv
  <1> QED
    BY <1>2, <1>3 DEF WalkInv

LEMMA WalkLinksKeeps ==
    ASSUME WalkInv, NEW fn \in {"list", "hlist"}, NEW root \in Heads, NEW off, NEW max \in Wanted,
           NEW limited, off = NoMember \/ off \in Int, WalkLinks(fn, root, off, max, limited)
    PROVE  WalkInv'
  <1> DEFINE c(first) == [fn |-> fn, root |-> root, first |-> first, max |-> max, off |-> off,
                          limited |-> limited]
  <1>1. PICK first \in Reads(Words, root) :
            IF off = NoMember \/ ~KernelVa(root) \/ first = Unmapped
            THEN Answer([c(first) EXCEPT !.first = 0], <<>>, "refused")
            ELSE Begin(c(first), "links", first) /\ out' = <<>> /\ rc' = "ok"
    BY DEF WalkLinks
  <1>2. max \in Nat /\ root \in Nat
    BY WalkBounds, WalkArguments
  <1>3. CASE off = NoMember \/ ~KernelVa(root) \/ first = Unmapped
    <2>1. Answer([c(first) EXCEPT !.first = 0], <<>>, "refused")
      BY <1>1, <1>3
    <2>2. [c(first) EXCEPT !.first = 0].fn = fn /\ [c(first) EXCEPT !.first = 0].max = max
      OBVIOUS
    <2> HIDE DEF c
    <2> QED
      BY <1>2, <2>1, <2>2, AnswerKeeps
  <1>4. CASE ~(off = NoMember \/ ~KernelVa(root) \/ first = Unmapped)
    <2>1. Begin(c(first), "links", first) /\ out' = <<>> /\ rc' = "ok"
      BY <1>1, <1>4
    <2>2. first \in Nat /\ off \in Int
      BY <1>4, ReadsWords
    <2>3. /\ stack' = <<>> /\ visited' = {} /\ call' = c(first) /\ pc' = "links"
          /\ node' = first /\ out' = <<>> /\ rc' = "ok"
      BY <2>1, BeginKeeps
    <2>4. call'.fn = fn /\ call'.root = root /\ call'.first = first /\ call'.max = max
          /\ call'.off = off
      BY <2>3
    <2> HIDE DEF c
    <2>5. WalkShape'
      BY <1>2, <2>3, <2>4, FS_EmptySet DEF WalkShape
    <2>6. Clamped(max) \in Nat
      BY <1>2, WalkBounds DEF Clamped
    <2>7. LinksInv'
      BY <1>2, <2>2, <2>3, <2>4, <2>6, FS_EmptySet DEF LinksInv, Linked, Clamped
    <2>8. RbInv' /\ XaInv'
      BY <2>4 DEF RbInv, XaInv
    <2> QED
      BY <2>5, <2>7, <2>8 DEF WalkInv
  <1> QED
    BY <1>3, <1>4

LEMMA WalkRbtreeKeeps ==
    ASSUME WalkInv, NEW laid, NEW root \in Heads, NEW max \in Wanted, NEW limited,
           WalkRbtree(laid, root, max, limited)
    PROVE  WalkInv'
  <1> DEFINE c(top) == [fn |-> "rbtree", root |-> root, first |-> top, max |-> max, off |-> 0,
                        limited |-> limited]
  <1>1. PICK top \in Reads(Words, root) :
            IF ~laid \/ ~KernelVa(root) \/ top = Unmapped
            THEN Answer([c(top) EXCEPT !.first = 0], <<>>, "refused")
            ELSE IF top = 0
            THEN Answer(c(top), <<>>, "ok")
            ELSE Begin(c(top), "rb", top) /\ out' = <<>> /\ rc' = "ok"
    BY DEF WalkRbtree
  <1>2. max \in Nat
    BY WalkBounds
  <1>3. CASE ~laid \/ ~KernelVa(root) \/ top = Unmapped
    <2>1. Answer([c(top) EXCEPT !.first = 0], <<>>, "refused")
      BY <1>1, <1>3
    <2>2. [c(top) EXCEPT !.first = 0].fn = "rbtree" /\ [c(top) EXCEPT !.first = 0].max = max
      OBVIOUS
    <2> HIDE DEF c
    <2> QED
      BY <1>2, <2>1, <2>2, AnswerKeeps
  <1>4. CASE ~(~laid \/ ~KernelVa(root) \/ top = Unmapped)
    <2>1. \E at \in {"rb", "done"} : Begin(c(top), at, top) /\ out' = <<>> /\ rc' = "ok"
      BY <1>1, <1>4 DEF Answer
    <2>2. PICK at \in {"rb", "done"} : Begin(c(top), at, top) /\ out' = <<>> /\ rc' = "ok"
      BY <2>1
    <2>3. top \in Nat
      BY <1>4, ReadsWords
    <2>4. /\ stack' = <<>> /\ visited' = {} /\ call' = c(top) /\ pc' = at
          /\ node' = top /\ out' = <<>> /\ rc' = "ok"
      BY <2>2, BeginKeeps
    <2>5. call'.fn = "rbtree" /\ call'.max = max /\ call'.off = 0
      BY <2>4
    <2> HIDE DEF c
    <2>6. WalkShape'
      BY <1>2, <2>4, <2>5, FS_EmptySet DEF WalkShape
    <2>7. Clamped(max) \in Nat /\ RbMaxDepth \in Nat
      BY <1>2, WalkBounds DEF Clamped
    <2>8. RbInv'
      BY <2>3, <2>4, <2>5, <2>7 DEF RbInv, Clamped
    <2>9. LinksInv' /\ XaInv'
      BY <2>5 DEF LinksInv, XaInv
    <2> QED
      BY <2>6, <2>8, <2>9 DEF WalkInv
  <1> QED
    BY <1>3, <1>4

LEMMA WalkIdrKeeps ==
    ASSUME WalkInv, NEW laid, NEW root \in Heads, NEW base \in Bases, NEW max \in Wanted,
           NEW limited, WalkIdr(laid, root, base, max, limited)
    PROVE  WalkInv'
  <1> DEFINE c(head) == [fn |-> "idr", root |-> root, first |-> head, max |-> max, off |-> base,
                         limited |-> limited]
  <1>1. PICK head \in Reads(Words, root) :
            IF ~laid \/ ~KernelVa(root) \/ head = Unmapped \/ base = Unmapped
            THEN Answer([c(head) EXCEPT !.first = 0], <<>>, "refused")
            ELSE IF IsNode(head)
            THEN Begin(c(head), "xa", head - 2) /\ out' = <<>> /\ rc' = "ok"
            ELSE IF IsPointer(head) /\ Clamped(max) = 0
            THEN Answer(c(head), <<>>, "cap")
            ELSE Answer(c(head), IF IsPointer(head) THEN <<[id |-> base, ptr |-> head]>> ELSE <<>>,
                        "ok")
    BY DEF WalkIdr
  <1>2. max \in Nat
    BY WalkBounds
  <1>3. CASE ~laid \/ ~KernelVa(root) \/ head = Unmapped \/ base = Unmapped
    <2>1. Answer([c(head) EXCEPT !.first = 0], <<>>, "refused")
      BY <1>1, <1>3
    <2>2. [c(head) EXCEPT !.first = 0].fn = "idr" /\ [c(head) EXCEPT !.first = 0].max = max
      OBVIOUS
    <2> HIDE DEF c
    <2> QED
      BY <1>2, <2>1, <2>2, AnswerKeeps
  <1>4. CASE ~(~laid \/ ~KernelVa(root) \/ head = Unmapped \/ base = Unmapped)
    <2>1. head \in Nat /\ base \in Nat
      BY <1>4, ReadsWords, WalkArguments
    <2>2. Clamped(max) \in Nat
      BY <1>2, WalkBounds DEF Clamped
    <2>3. CASE IsNode(head)
      <3>1. Begin(c(head), "xa", head - 2) /\ out' = <<>> /\ rc' = "ok"
        BY <1>1, <1>4, <2>3
      <3>2. /\ stack' = <<>> /\ visited' = {} /\ seen' = <<>> /\ call' = c(head) /\ pc' = "xa"
            /\ node' = head - 2 /\ out' = <<>> /\ rc' = "ok"
        BY <3>1, BeginKeeps
      <3>3. call'.fn = "idr" /\ call'.max = max /\ call'.off = base /\ call'.first = head
        BY <3>2
      <3> HIDE DEF c
      <3>4. head - 2 \in Nat /\ XaMaxNodes \in Nat
        BY <2>1, <2>3, NodesAreNot, WalkBounds
      <3>5. WalkShape'
        BY <1>2, <3>2, <3>3, FS_EmptySet DEF WalkShape
      <3>6. XaInv'
        BY <2>1, <2>2, <2>3, <3>2, <3>3, <3>4, FS_EmptySet DEF XaInv, TopNode, Clamped
      <3>7. LinksInv' /\ RbInv'
        BY <3>3 DEF LinksInv, RbInv
      <3> QED
        BY <3>5, <3>6, <3>7 DEF WalkInv
    <2>4. CASE ~IsNode(head)
      <3>1. PICK found \in {<<>>, <<[id |-> base, ptr |-> head]>>}, why \in {"ok", "cap"} :
               /\ Answer(c(head), found, why)
               /\ found # <<>> => Clamped(max) # 0
        <4>1. CASE IsPointer(head) /\ Clamped(max) = 0
          BY <1>1, <1>4, <2>4, <4>1
        <4>2. CASE ~(IsPointer(head) /\ Clamped(max) = 0)
          BY <1>1, <1>4, <2>4, <4>2
        <4> QED
          BY <4>1, <4>2
      <3>2. /\ stack' = <<>> /\ visited' = {} /\ call' = c(head) /\ pc' = "done"
            /\ out' = found /\ rc' = why
        BY <3>1, BeginKeeps DEF Answer
      <3>3. call'.fn = "idr" /\ call'.max = max /\ call'.off = base /\ call'.first = head
        BY <3>2
      <3> HIDE DEF c
      <3>4. found \in Seq([id : Nat, ptr : Nat]) /\ Len(found) <= Clamped(max) /\ Len(found) <= 1
        <4> DEFINE T == [id : Nat, ptr : Nat]
                   e == [id |-> base, ptr |-> head]
        <4>1. e \in T
          BY <2>1
        <4> HIDE DEF T, e
        <4>2. <<e>> \in Seq(T) /\ Len(<<e>>) = 1 /\ <<>> \in Seq(T) /\ Len(<<>>) = 0
          BY <4>1
        <4>3. CASE found = <<>>
          BY <2>2, <4>2, <4>3 DEF T
        <4>4. CASE found = <<e>>
          <5>1. found # <<>>
            BY <4>2, <4>4
          <5>2. Clamped(max) # 0
            BY <3>1, <5>1
          <5> QED
            BY <2>2, <4>2, <4>4, <5>2 DEF T
        <4> QED
          BY <3>1, <4>3, <4>4 DEF e
      <3>5. WalkShape'
        BY <1>2, <3>2, <3>3, FS_EmptySet DEF WalkShape
      <3>6. XaInv'
        BY <2>1, <2>4, <3>2, <3>3, <3>4 DEF XaInv, Clamped
      <3>7. LinksInv' /\ RbInv'
        BY <3>3 DEF LinksInv, RbInv
      <3> QED
        BY <3>5, <3>6, <3>7 DEF WalkInv
    <2> QED
      BY <2>3, <2>4
  <1> QED
    BY <1>3, <1>4

LEMMA ReadManyKeeps ==
    ASSUME WalkInv, NEW vas, ReadMany(vas)
    PROVE  WalkInv'
  <1> DEFINE c == [NoCall EXCEPT !.fn = "many"]
  <1>1. PICK got \in [DOMAIN vas -> BOOLEAN] :
            Answer(c, got, IF \A i \in DOMAIN vas : got[i] THEN "ok" ELSE "unread")
    BY DEF ReadMany
  <1>2. PICK why \in {"ok", "unread"} : Answer(c, got, why)
    BY <1>1
  <1>3. c.fn = "many"
    BY DEF NoCall
  <1> HIDE DEF c
  <1> QED
    BY <1>2, <1>3, AnswerKeeps

LEMMA PercpuKeeps ==
    ASSUME WalkInv, NEW known, NEW symb, NEW cpu, PercpuAddr(known, symb, cpu)
    PROVE  WalkInv'
  <1> DEFINE c == [NoCall EXCEPT !.fn = "percpu", !.root = symb, !.max = cpu]
  <1>1. Answer(c, <<>>, "refused") \/ \E found : Answer(c, found, "ok")
    BY DEF PercpuAddr
  <1>2. c.fn = "percpu"
    BY DEF NoCall
  <1> HIDE DEF c
  <1>3. CASE Answer(c, <<>>, "refused")
    BY <1>2, <1>3, AnswerKeeps
  <1>4. ASSUME NEW found, Answer(c, found, "ok") PROVE WalkInv'
    BY <1>2, <1>4, AnswerKeeps
  <1> QED
    BY <1>1, <1>3, <1>4

(***************************************************************************)
(* A walk with any memory and any calls: the offsets a list is walked by are *)
(* numbers, or there is none.                                               *)
(***************************************************************************)
Numeric(offsets) == \A fn \in {"list", "hlist"} : offsets[fn] \subseteq Int \cup {NoMember}

AnyWalk ==
    \E offsets, rb, idr, percpu :
        Numeric(offsets) /\ WalksNext(offsets, rb, idr, percpu)

LEMMA InvStep ==
    ASSUME WalkInv, AnyWalk
    PROVE  WalkInv'
  <1>1. PICK offsets, rb, idr, percpu : Numeric(offsets) /\ WalksNext(offsets, rb, idr, percpu)
    BY DEF AnyWalk
  <1>2. CASE Taken
    BY <1>2, TakenKeeps
  <1>3. CASE WalkStep
    BY <1>3, RefusedKeeps, ProbesKeeps, BudgetKeeps, ReadLinkKeeps, LinksEndKeeps, ReadRbKeeps,
       PopRbKeeps, ReadXaKeeps, XaSlotKeeps, XaReturnKeeps DEF WalkStep
  <1>4. CASE Call(offsets, rb, idr, percpu)
    <2>1. ASSUME NEW fn \in {"list", "hlist"}, NEW root \in Heads, NEW max \in Wanted,
                 NEW limited \in BOOLEAN, NEW off \in offsets[fn],
                 WalkLinks(fn, root, off, max, limited)
          PROVE  WalkInv'
      <3>1. off = NoMember \/ off \in Int
        BY <1>1 DEF Numeric
      <3> QED
        BY <2>1, <3>1, WalkLinksKeeps
    <2>2. ASSUME NEW root \in Heads, NEW max \in Wanted, NEW limited \in BOOLEAN,
                 WalkRbtree(rb, root, max, limited)
          PROVE  WalkInv'
      BY <2>2, WalkRbtreeKeeps
    <2>3. ASSUME NEW root \in Heads, NEW base \in Bases, NEW max \in Wanted,
                 NEW limited \in BOOLEAN, WalkIdr(idr, root, base, max, limited)
          PROVE  WalkInv'
      BY <2>3, WalkIdrKeeps
    <2>4. ASSUME NEW a \in Heads, NEW b \in Heads, ReadMany(<<a, b>>) PROVE WalkInv'
      BY <2>4, ReadManyKeeps
    <2>5. ASSUME NEW s \in percpu, NEW cpu \in Cpus, PercpuAddr(s.known, s.addr, cpu)
          PROVE  WalkInv'
      BY <2>5, PercpuKeeps
    <2> QED
      BY <1>4, <2>1, <2>2, <2>3, <2>4, <2>5 DEF Call
  <1> QED
    BY <1>1, <1>2, <1>3, <1>4 DEF WalksNext

LEMMA InvStutters ==
    ASSUME WalkInv, UNCHANGED walkVars
    PROVE  WalkInv'
  <1>1. UNCHANGED <<pc, call, node, parent, stack, visited, seen, steps, out, rc>>
    BY DEF walkVars
  <1>2. WalkShape'
    BY <1>1 DEF WalkInv, WalkShape
  <1>3. LinksInv'
    BY <1>1 DEF WalkInv, LinksInv, Linked, Visits, Real, Clamped, End
  <1>4. RbInv'
    BY <1>1 DEF WalkInv, RbInv, Real, Clamped
  <1>5. XaInv'
    BY <1>1 DEF WalkInv, XaInv, Path, Placed, Fits, At, Width, TopNode, XaEnd, Clamped
  <1> QED
    BY <1>2, <1>3, <1>4, <1>5 DEF WalkInv

AnyWalks == WalksInit /\ [][AnyWalk]_walkVars

THEOREM Walks == AnyWalks => []WalkInv
  <1>1. WalkInv /\ [AnyWalk]_walkVars => WalkInv'
    BY InvStep, InvStutters
  <1> QED
    BY InvInit, <1>1, PTL DEF AnyWalks

(***************************************************************************)
(* What follows from it, of walks of any guest memory.                      *)
(***************************************************************************)
LEMMA RisingIsInjective ==
    ASSUME NEW T, NEW s \in Seq(T), NEW f, \A i \in DOMAIN s : f[i] \in Nat,
           \A i, j \in DOMAIN s : i < j => f[i] < f[j],
           \A i, j \in DOMAIN s : s[i] = s[j] => f[i] = f[j]
    PROVE  IsInjective(s)
  <1> SUFFICES ASSUME NEW i \in DOMAIN s, NEW j \in DOMAIN s, s[i] = s[j], i # j PROVE FALSE
    BY DEF IsInjective
  <1>1. i \in Nat /\ j \in Nat /\ f[i] = f[j] /\ f[i] \in Nat
    OBVIOUS
  <1>2. i < j \/ j < i
    BY <1>1
  <1> QED
    BY <1>1, <1>2

(* The ids an idr walk gives rise, as long as they fit their width.         *)
Rising == call.fn = "idr" /\ IdsFit => \A i, j \in DOMAIN out : i < j => out[i].id < out[j].id

LEMMA IdrFound ==
    ASSUME WalkInv, call.fn = "idr", rc # "refused"
    PROVE  /\ out \in Seq([id : Nat, ptr : Nat]) /\ Len(out) <= Clamped(call.max)
           /\ Rising
           /\ IdsFit => IsInjective(out)
  <1>1. /\ out \in Seq([id : Nat, ptr : Nat]) /\ Len(out) <= Clamped(call.max)
        /\ ~IsNode(call.first) => Len(out) <= 1
        /\ IsNode(call.first) /\ stack = <<>> => out = <<>>
        /\ IsNode(call.first) /\ stack # <<>> => TopNode \in DOMAIN seen /\ (Fits => Placed)
    BY DEF WalkInv, XaInv
  <1>2. Rising
    <2> SUFFICES ASSUME IdsFit, NEW i \in DOMAIN out, NEW j \in DOMAIN out, i < j
                 PROVE  out[i].id < out[j].id
      BY DEF Rising
    <2>1. Len(out) \in Nat /\ i \in 1..Len(out) /\ j \in 1..Len(out)
      BY <1>1
    <2>2. Len(out) > 1 /\ out # <<>>
      BY <1>1, <2>1
    <2>3. TopNode \in DOMAIN seen /\ IsNode(call.first) /\ (Fits => Placed)
      BY <1>1, <2>1, <2>2
    <2> QED
      BY <2>3 DEF IdsFit, Fits, TopNode, Placed
  <1>3. ASSUME IdsFit PROVE IsInjective(out)
    <2> DEFINE f == [i \in DOMAIN out |-> out[i].id]
               T == [id : Nat, ptr : Nat]
    <2>1. out \in Seq(T)
      BY <1>1
    <2>2. \A i \in DOMAIN out : f[i] \in Nat
      <3>1. \A i \in DOMAIN out : out[i] \in T
        <4> HIDE DEF T
        <4> QED
          BY <2>1
      <3> QED
        BY <3>1
    <2>3. \A i, j \in DOMAIN out : i < j => f[i] < f[j]
      BY <1>2, <1>3 DEF Rising
    <2>4. \A i, j \in DOMAIN out : out[i] = out[j] => f[i] = f[j]
      OBVIOUS
    <2> HIDE DEF f, T
    <2> QED
      BY <2>1, <2>2, <2>3, <2>4, RisingIsInjective
  <1> QED
    BY <1>1, <1>2, <1>3

LEMMA WalkInvReal == WalkInv => FoundIsReal
  <1> SUFFICES ASSUME WalkInv, call.fn \in {"list", "hlist", "rbtree", "idr"}
               PROVE  /\ Len(out) <= call.max /\ Len(out) <= MaxNodes
                      /\ (call.fn = "idr" => IdsFit) => IsInjective(out)
                      /\ call.fn # "idr" => \A i \in DOMAIN out :
                             Visits[i] \in DOMAIN seen /\ KernelVa(Visits[i])
    BY DEF FoundIsReal
  <1>1. /\ call.max \in Nat /\ (rc = "refused" => out = <<>>)
        /\ Clamped(call.max) \in Nat /\ MaxNodes \in Nat
        /\ Clamped(call.max) <= call.max /\ Clamped(call.max) <= MaxNodes
    BY CapRoom, WalkBounds DEF WalkInv, WalkShape
  <1>2. CASE rc = "refused"
    BY <1>1, <1>2 DEF IsInjective
  <1>3. CASE rc # "refused" /\ call.fn \in {"list", "hlist"}
    <2>1. /\ out \in Seq(Int) /\ Len(out) <= Clamped(call.max)
          /\ \A i \in DOMAIN out : Real(Visits[i])
          /\ \A i, j \in DOMAIN out : out[i] = out[j] => i = j
      BY <1>3 DEF WalkInv, LinksInv
    <2>2. Len(out) \in Nat
      BY <2>1
    <2>3. Len(out) <= call.max /\ Len(out) <= MaxNodes
      BY <1>1, <2>1, <2>2
    <2> QED
      BY <1>3, <2>1, <2>3 DEF Real, IsInjective
  <1>4. CASE rc # "refused" /\ call.fn = "rbtree"
    <2>1. /\ out \in Seq(Nat) /\ Len(out) <= Clamped(call.max) /\ call.off = 0
          /\ \A i \in DOMAIN out : Real(out[i])
          /\ \A i, j \in DOMAIN out : out[i] = out[j] => i = j
      BY <1>4 DEF WalkInv, RbInv
    <2>2. Len(out) \in Nat
      BY <2>1
    <2>3. Len(out) <= call.max /\ Len(out) <= MaxNodes
      BY <1>1, <2>1, <2>2
    <2>4. \A i \in DOMAIN out : Visits[i] = out[i]
      BY <2>1 DEF Visits
    <2> QED
      BY <1>4, <2>1, <2>3, <2>4 DEF Real, IsInjective
  <1>5. CASE rc # "refused" /\ call.fn = "idr"
    <2>1. /\ out \in Seq([id : Nat, ptr : Nat]) /\ Len(out) <= Clamped(call.max)
          /\ IdsFit => IsInjective(out)
      BY <1>5, IdrFound
    <2>2. Len(out) \in Nat
      BY <2>1
    <2>3. Len(out) <= call.max /\ Len(out) <= MaxNodes
      BY <1>1, <2>1, <2>2
    <2> QED
      BY <1>5, <2>1, <2>3
  <1> QED
    BY <1>2, <1>3, <1>4, <1>5

(* Whatever guest memory holds and however a walk ends, what it found it    *)
(* found once, in a node that it read at a kernel address, and it fits the  *)
(* caller's buffer.                                                         *)
THEOREM Reality == AnyWalks => []FoundIsReal
  BY Walks, WalkInvReal, PTL

(* A walk of a list that succeeds answers the whole list of the memory it   *)
(* read, in its order (kwalk.c:204-271).                                    *)
THEOREM ListsComplete == AnyWalks => [](call.fn \in {"list", "hlist"} => Complete)
  <1>1. ASSUME WalkInv PROVE call.fn \in {"list", "hlist"} => Complete
    <2> SUFFICES ASSUME call.fn \in {"list", "hlist"}, pc = "done", rc = "ok" PROVE IsChain
      BY DEF Complete
    <2>1. Linked /\ node = End
      BY <1>1 DEF WalkInv, LinksInv
    <2> QED
      BY <2>1 DEF Linked, IsChain
  <1> QED
    BY <1>1, Walks, PTL

(* The entries of an idr are given in the order of their ids, and no id     *)
(* twice, as long as the ids fit their width (kwalk.h:117).                 *)
THEOREM IdsRise == AnyWalks => []Rising
  <1>1. ASSUME WalkInv PROVE Rising
    <2>1. CASE rc = "refused" \/ call.fn # "idr"
      BY <1>1, <2>1 DEF WalkInv, WalkShape, Rising
    <2>2. CASE rc # "refused" /\ call.fn = "idr"
      BY <1>1, <2>2, IdrFound
    <2> QED
      BY <2>1, <2>2
  <1> QED
    BY <1>1, Walks, PTL

(* The search of a visited table that has no free slot goes on for ever.    *)
(* Only a walk of a tree can come to it.                                    *)
ProbesTrees == pc = "probing" => call.fn = "rbtree"

THEOREM OnlyTrees == AnyWalks => []ProbesTrees
  <1>1. WalkInv => ProbesTrees
    BY DEF WalkInv, WalkShape, ProbesTrees
  <1> QED
    BY <1>1, Walks, PTL

-----------------------------------------------------------------------------
(* Concatenation, and its laws: a name of its own, that the provers apply   *)
(* the laws of and do not look into.                                        *)
Cat(p, q) == p \o q

LEMMA CatLaws ==
    ASSUME NEW T
    PROVE  /\ \A x, y \in Seq(T) : Cat(x, y) \in Seq(T)
           /\ \A x, y, z \in Seq(T) : Cat(Cat(x, y), z) = Cat(x, Cat(y, z))
           /\ \A x \in Seq(T) : Cat(x, <<>>) = x
           /\ \A x \in Seq(T), e \in T : <<e>> \in Seq(T) /\ Append(x, e) = Cat(x, <<e>>)
  <1>1. \A x, y \in Seq(T) : Cat(x, y) \in Seq(T)
    BY ConcatProperties DEF Cat
  <1>2. ASSUME NEW x \in Seq(T), NEW y \in Seq(T), NEW z \in Seq(T)
        PROVE  Cat(Cat(x, y), z) = Cat(x, Cat(y, z))
    BY ConcatAssociative DEF Cat
  <1>3. \A x \in Seq(T) : Cat(x, <<>>) = x
    BY ConcatEmptySeq DEF Cat
  <1>4. \A x \in Seq(T), e \in T : <<e>> \in Seq(T) /\ Append(x, e) = Cat(x, <<e>>)
    BY AppendIsConcat DEF Cat
  <1> QED
    BY <1>1, <1>2, <1>3, <1>4

LEMMA AppendIsCat ==
    ASSUME NEW x \in Seq(Nat), NEW e \in Nat
    PROVE  Append(x, e) = Cat(x, <<e>>)
  BY DEF Cat

LEMMA PartsDown ==
    ASSUME NEW p \in Seq(Nat), NEW q \in Seq(Nat), NEW r \in Seq(Nat), NEW s \in Seq(Nat),
           NEW e \in Nat
    PROVE  Cat(Cat(p, Cat(Cat(q, <<e>>), r)), s) = Cat(Cat(p, q), Cat(Cat(<<e>>, r), s))
  <1> DEFINE E == <<e>>
  <1>1. E \in Seq(Nat)
    BY CatLaws
  <1> HIDE DEF E
  <1>2. \A x, y \in Seq(Nat) : Cat(x, y) \in Seq(Nat)
    BY CatLaws
  <1>3. \A x, y, z \in Seq(Nat) : Cat(Cat(x, y), z) = Cat(x, Cat(y, z))
    BY CatLaws
  <1>4. /\ Cat(q, E) \in Seq(Nat) /\ Cat(E, r) \in Seq(Nat) /\ Cat(p, q) \in Seq(Nat)
        /\ Cat(r, s) \in Seq(Nat)
    BY <1>1, <1>2
  <1>5. Cat(Cat(q, E), r) \in Seq(Nat) /\ Cat(E, Cat(r, s)) \in Seq(Nat)
    BY <1>1, <1>2, <1>4
  <1>6. Cat(Cat(p, Cat(Cat(q, E), r)), s) = Cat(p, Cat(Cat(Cat(q, E), r), s))
    BY <1>3, <1>5
  <1>7. Cat(Cat(Cat(q, E), r), s) = Cat(q, Cat(E, Cat(r, s)))
    BY <1>1, <1>3, <1>4
  <1>8. Cat(Cat(p, q), Cat(E, Cat(r, s))) = Cat(p, Cat(q, Cat(E, Cat(r, s))))
    BY <1>3, <1>5
  <1>9. Cat(Cat(E, r), s) = Cat(E, Cat(r, s))
    BY <1>1, <1>3
  <1> QED
    BY <1>6, <1>7, <1>8, <1>9 DEF E

LEMMA PartsPop ==
    ASSUME NEW p \in Seq(Nat), NEW r \in Seq(Nat), NEW s \in Seq(Nat), NEW e \in Nat
    PROVE  Cat(Cat(p, <<>>), Cat(Cat(<<e>>, r), s)) = Cat(Cat(Append(p, e), r), s)
  <1> DEFINE E == <<e>>
  <1>0. E \in Seq(Nat)
    BY CatLaws
  <1>1. E \in Seq(Nat) /\ Append(p, e) = Cat(p, E)
    <2>1. Append(p, e) = Cat(p, <<e>>)
      BY AppendIsCat
    <2> QED
      BY <1>0, <2>1
  <1>2. Cat(p, <<>>) = p
    BY CatLaws
  <1> HIDE DEF E
  <1>3. \A x, y \in Seq(Nat) : Cat(x, y) \in Seq(Nat)
    BY CatLaws
  <1>4. \A x, y, z \in Seq(Nat) : Cat(Cat(x, y), z) = Cat(x, Cat(y, z))
    BY CatLaws
  <1>5. Cat(p, E) \in Seq(Nat) /\ Cat(r, s) \in Seq(Nat)
    BY <1>1, <1>3
  <1>6. Cat(Cat(Cat(p, E), r), s) = Cat(p, Cat(E, Cat(r, s)))
    BY <1>1, <1>4, <1>5
  <1>7. Cat(Cat(E, r), s) = Cat(E, Cat(r, s))
    BY <1>1, <1>4
  <1>8. Cat(p, Cat(Cat(E, r), s)) = Cat(Cat(Append(p, e), r), s)
    BY <1>1, <1>6, <1>7
  <1> QED
    BY <1>2, <1>8 DEF E

(* The nodes under one, from the left, down to a depth.                     *)
BelowOne(tree, f, depth, a) ==
    IF a = 0 \/ depth = 0 THEN <<>>
    ELSE Cat(Cat(f[depth - 1][tree[a].left], <<a>>), f[depth - 1][tree[a].right])

BelowStep(tree, f, depth) == [a \in DOMAIN tree \cup {0} |-> BelowOne(tree, f, depth, a)]

BelowTo(tree, d, f) == f = [depth \in 0..d |-> BelowStep(tree, f, depth)]

LEMMA BelowExists ==
    ASSUME NEW tree, NEW d \in Nat
    PROVE  \E f : BelowTo(tree, d, f)
  <1> DEFINE S == {n \in Nat : \E f : BelowTo(tree, n, f)}
  <1>1. 0 \in S
    <2> DEFINE g == [n \in 0..0 |-> [a \in DOMAIN tree \cup {0} |-> <<>>]]
    <2>1. BelowTo(tree, 0, g)
      BY DEF BelowTo, BelowStep, BelowOne
    <2> QED
      BY <2>1
  <1>2. ASSUME NEW n \in S PROVE n + 1 \in S
    <2>1. PICK f : BelowTo(tree, n, f)
      OBVIOUS
    <2> DEFINE g == [k \in 0..(n + 1) |-> IF k = n + 1 THEN BelowStep(tree, f, n + 1) ELSE f[k]]
    <2>3. ASSUME NEW k \in 0..(n + 1) PROVE g[k] = BelowStep(tree, g, k)
      <3>1. k # 0 => g[k - 1] = f[k - 1]
        OBVIOUS
      <3>2. g[k] = BelowStep(tree, f, k)
        BY <2>1 DEF BelowTo
      <3>3. \A a \in DOMAIN tree \cup {0} : BelowOne(tree, f, k, a) = BelowOne(tree, g, k, a)
        BY <3>1 DEF BelowOne
      <3> HIDE DEF g
      <3>4. BelowStep(tree, f, k) = BelowStep(tree, g, k)
        BY <3>3 DEF BelowStep
      <3> QED
        BY <3>2, <3>4
    <2>4. g = [k \in 0..(n + 1) |-> g[k]]
      OBVIOUS
    <2> HIDE DEF g
    <2>5. BelowTo(tree, n + 1, g)
      BY <2>3, <2>4 DEF BelowTo
    <2> QED
      BY <2>5
  <1> HIDE DEF S
  <1>3. S = Nat
    BY <1>1, <1>2, NatInduct DEF S
  <1> QED
    BY <1>3 DEF S

LEMMA InOrderIs ==
    ASSUME NEW d \in Nat, d = Cardinality(visited)
    PROVE  \E f : BelowTo(seen, d, f) /\ InOrder = f[d][call.first]
  <1> DEFINE B == CHOOSE f : f = [depth \in 0..d |-> BelowStep(seen, f, depth)]
  <1>1. PICK g : BelowTo(seen, d, g)
    BY BelowExists
  <1>4. B = [depth \in 0..d |-> BelowStep(seen, B, depth)]
    BY <1>1 DEF BelowTo
  <1>5. InOrder = B[d][call.first]
    BY DEF InOrder, BelowStep, BelowOne, Cat
  <1> HIDE DEF B
  <1> QED
    BY <1>4, <1>5 DEF BelowTo

(* What is under each node, by its own equation; and what is left to come   *)
(* once the walk has done the side it is in.                                *)
Solves(under) ==
    /\ under \in [Nat -> Seq(Nat)]
    /\ under[0] = <<>>
    /\ \A a \in DOMAIN seen : 
          under[a] = Cat(Cat(under[seen[a].left], <<a>>), under[seen[a].right])

Awaits(under, rest) ==
    /\ rest \in [0..Len(stack) -> Seq(Nat)]
    /\ rest[0] = <<>>
    /\ \A k \in 1..Len(stack) :
          rest[k] = Cat(Cat(<<stack[k].node>>, under[stack[k].right]), rest[k - 1])

(* The whole tree is what was found, what is under this node and the rest.  *)
Ordered ==
    \A under, rest : Solves(under) /\ Awaits(under, rest) =>
        under[call.first] = Cat(Cat(out, under[node]), rest[Len(stack)])

(* Every node is one below the node it was reached from, so that the tree   *)
(* is no deeper than it has nodes.                                          *)
Below(dep, a, c) == c = 0 \/ (c \in DOMAIN seen /\ dep[c] = dep[a] + 1)

Deep(dep) ==
    /\ dep \in [DOMAIN seen -> Nat]
    /\ \A a \in DOMAIN seen :
          /\ dep[a] < Cardinality(visited)
          /\ \/ a = parent /\ seen[a].left = node /\ stack # <<>> /\ stack[Len(stack)].node = a
             \/ Below(dep, a, seen[a].left)
          /\ \/ \E k \in 1..Len(stack) : stack[k].node = a /\ stack[k].right = seen[a].right
             \/ a = parent /\ seen[a].right = node
             \/ Below(dep, a, seen[a].right)
    /\ call.first \in DOMAIN seen => dep[call.first] = 0

TreeInv ==
    call.fn = "rbtree" /\ rc = "ok" =>
        /\ DOMAIN seen = visited
        /\ \A a \in DOMAIN seen : /\ a \in Nat \ {0}
                                  /\ seen[a] \in [parent : Nat, left : Nat, right : Nat]
        /\ call.first \in Nat
        /\ visited = {} => node = call.first /\ stack = <<>> /\ out = <<>>
        /\ visited # {} => parent \in visited /\ call.first \in visited
        /\ pc = "done" => node = 0 /\ stack = <<>>
        /\ Ordered
        /\ \E dep : Deep(dep)

(* What is known of a walk of a tree that goes on.                          *)
LEMMA TreeGoesOn ==
    ASSUME WalkInv, TreeInv, pc \in {"rb", "probing"}
    PROVE  /\ call.fn = "rbtree" /\ rc = "ok" /\ node \in Nat
           /\ stack \in Seq([node : Nat, right : Nat]) /\ out \in Seq(Nat)
           /\ \A i \in DOMAIN stack : stack[i].node \in visited
           /\ DOMAIN seen = visited
           /\ \A a \in DOMAIN seen : /\ a \in Nat \ {0}
                                     /\ seen[a] \in [parent : Nat, left : Nat, right : Nat]
           /\ call.first \in Nat
           /\ visited = {} => node = call.first /\ stack = <<>> /\ out = <<>>
           /\ visited # {} => parent \in visited /\ call.first \in visited
           /\ Ordered
           /\ \E dep : Deep(dep)
  <1>1. call.fn = "rbtree" /\ rc = "ok"
    BY DEF WalkInv, WalkShape
  <1>2. /\ node \in Nat /\ stack \in Seq([node : Nat, right : Nat]) /\ out \in Seq(Nat)
        /\ \A i \in DOMAIN stack : stack[i].node \in visited
    BY <1>1 DEF WalkInv, RbInv, Real
  <1> QED
    BY <1>1, <1>2 DEF TreeInv

LEMMA ReadRbOrders ==
    ASSUME WalkInv, TreeInv, pc = "rb", NEW raw \in [parent : Nat, left : Nat, right : Nat],
           stack' = Append(stack, [node |-> node, right |-> raw.right]),
           node' = raw.left, Remember(raw), UNCHANGED <<call, out>>, node \notin visited
    PROVE  Ordered'
  <1>1. PICK L \in Nat : L = Len(stack)
    <2>1. Len(stack) \in Nat
      BY TreeGoesOn
    <2> QED
      BY <2>1
  <1>2. /\ node \in Nat /\ out \in Seq(Nat) /\ stack \in Seq([node : Nat, right : Nat])
        /\ DOMAIN seen = visited /\ raw.left \in Nat /\ raw.right \in Nat
        /\ \A a \in DOMAIN seen : a # node
    BY TreeGoesOn
  <1>3. /\ DOMAIN seen' = DOMAIN seen \cup {node} /\ seen'[node] = raw
        /\ \A a \in DOMAIN seen : seen'[a] = seen[a]
    BY <1>2, Remembered
  <1>4. /\ Len(stack') = L + 1 /\ stack'[L + 1] = [node |-> node, right |-> raw.right]
        /\ \A k \in 1..L : stack'[k] = stack[k]
    BY <1>1, <1>2, Appended
  <1> SUFFICES ASSUME NEW under, NEW rest, Solves(under)', Awaits(under, rest)'
               PROVE  under[call'.first] = Cat(Cat(out', under[node']), rest[Len(stack')])
    BY Zenon DEF Ordered
  <1>5. /\ Solves(under) /\ under \in [Nat -> Seq(Nat)]
        /\ under[node] = Cat(Cat(under[raw.left], <<node>>), under[raw.right])
    BY <1>3 DEF Solves
  <1>6. /\ rest \in [0..(L + 1) -> Seq(Nat)] /\ rest[0] = <<>>
        /\ \A k \in 1..(L + 1) :
              rest[k] = Cat(Cat(<<stack'[k].node>>, under[stack'[k].right]), rest[k - 1])
    BY <1>4 DEF Awaits
  <1> DEFINE before == [k \in 0..L |-> rest[k]]
  <1>7. Awaits(under, before)
    <2>1. before \in [0..L -> Seq(Nat)] /\ before[0] = <<>>
      BY <1>6
    <2>2. ASSUME NEW k \in 1..L
          PROVE  before[k] = Cat(Cat(<<stack[k].node>>, under[stack[k].right]), before[k - 1])
      <3>1. k \in 1..(L + 1) /\ k \in 0..L /\ k - 1 \in 0..L
        OBVIOUS
      <3>2. before[k] = rest[k] /\ before[k - 1] = rest[k - 1] /\ stack'[k] = stack[k]
        BY <1>4, <3>1
      <3> QED
        BY <1>6, <3>1, <3>2
    <2> QED
      BY <1>1, <2>1, <2>2 DEF Awaits
  <1>8. under[call.first] = Cat(Cat(out, under[node]), before[L])
    <2>1. Ordered
      BY TreeGoesOn
    <2>2. under[call.first] = Cat(Cat(out, under[node]), before[Len(stack)])
      BY <1>5, <1>7, <2>1, Zenon DEF Ordered
    <2> QED
      BY <1>1, <2>2
  <1>9. before[L] = rest[L] /\ rest[L] \in Seq(Nat)
        /\ rest[L + 1] = Cat(Cat(<<node>>, under[raw.right]), rest[L])
    <2>1. L + 1 \in 1..(L + 1) /\ L \in 0..L /\ L \in 0..(L + 1) /\ (L + 1) - 1 = L
      OBVIOUS
    <2>2. stack'[L + 1].node = node /\ stack'[L + 1].right = raw.right
      BY <1>4
    <2> QED
      BY <1>6, <2>1, <2>2
  <1> HIDE DEF before
  <1> DEFINE q == under[raw.left]
             r == under[raw.right]
             s == rest[L]
  <1>10. q \in Seq(Nat) /\ r \in Seq(Nat) /\ s \in Seq(Nat)
    BY <1>2, <1>5, <1>9
  <1>11. under[call.first] = Cat(Cat(out, Cat(Cat(q, <<node>>), r)), s)
    BY <1>5, <1>8, <1>9
  <1>12. rest[L + 1] = Cat(Cat(<<node>>, r), s)
    BY <1>9
  <1> HIDE DEF q, r, s
  <1>13. out \in Seq(Nat) /\ node \in Nat
    BY <1>2
  <1>14. under[call.first] = Cat(Cat(out, q), rest[L + 1])
    BY <1>10, <1>11, <1>12, <1>13, PartsDown
  <1>15. call' = call /\ out' = out /\ node' = raw.left /\ Len(stack') = L + 1
    BY <1>4
  <1> QED
    BY <1>14, <1>15 DEF q

LEMMA ReadRbDepth ==
    ASSUME WalkInv, TreeInv, pc = "rb", NEW raw \in [parent : Nat, left : Nat, right : Nat],
           stack' = Append(stack, [node |-> node, right |-> raw.right]),
           node' = raw.left, parent' = node, Remember(raw), UNCHANGED call,
           node \notin visited, visited' = visited \cup {node}, node # 0,
           Cardinality(visited) \in Nat, Cardinality(visited') = Cardinality(visited) + 1
    PROVE  \E dep : Deep(dep)'
  <1>1. PICK L \in Nat : L = Len(stack)
    <2>1. Len(stack) \in Nat
      BY TreeGoesOn
    <2> QED
      BY <2>1
  <1>2. PICK dep : Deep(dep)
    BY TreeGoesOn
  <1>3. /\ DOMAIN seen = visited /\ \A a \in DOMAIN seen : a # node
        /\ visited = {} => node = call.first
        /\ visited # {} => parent \in visited /\ call.first \in visited
    BY TreeGoesOn
  <1>4. /\ DOMAIN seen' = DOMAIN seen \cup {node} /\ seen'[node] = raw
        /\ \A a \in DOMAIN seen : seen'[a] = seen[a]
    BY <1>3, Remembered
  <1>5. /\ Len(stack') = L + 1 /\ stack'[L + 1] = [node |-> node, right |-> raw.right]
        /\ \A k \in 1..L : stack'[k] = stack[k]
    <2>1. stack \in Seq([node : Nat, right : Nat]) /\ node \in Nat /\ raw.right \in Nat
      BY TreeGoesOn
    <2> QED
      BY <1>1, <2>1, Appended
  <1>d. PICK d : d = IF visited = {} THEN 0 ELSE dep[parent] + 1
    OBVIOUS
  <1>n. PICK new : new = [a \in DOMAIN seen' |-> IF a = node THEN d ELSE dep[a]]
    OBVIOUS
  <1>6. /\ dep \in [DOMAIN seen -> Nat]
        /\ \A a \in DOMAIN seen : dep[a] \in Nat /\ dep[a] < Cardinality(visited)
        /\ call.first \in DOMAIN seen => dep[call.first] = 0
    BY <1>2 DEF Deep
  <1>7. d \in Nat /\ d < Cardinality(visited')
    <2>1. CASE visited = {}
      BY <1>d, <2>1
    <2>2. CASE visited # {}
      <3>1. dep[parent] \in Nat /\ dep[parent] < Cardinality(visited)
        BY <1>3, <1>6, <2>2
      <3> QED
        BY <1>d, <2>2, <3>1
    <2> QED
      BY <2>1, <2>2
  <1>8. /\ new \in [DOMAIN seen' -> Nat] /\ new[node] = d
        /\ \A a \in DOMAIN seen : new[a] = dep[a]
    BY <1>n, <1>3, <1>4, <1>6, <1>7
  <1>9. ASSUME NEW a \in DOMAIN seen', NEW c, c = node => parent = a /\ a # node,
               a # node => Below(dep, a, c) \/ c = node, a = node => c = 0
        PROVE  c = 0 \/ (c \in DOMAIN seen' /\ new[c] = new[a] + 1)
    <2>1. CASE c = 0
      BY <2>1
    <2>2. CASE c = node
      <3>1. a \in DOMAIN seen /\ visited # {} /\ d = dep[a] + 1
        BY <1>d, <1>3, <1>4, <1>9, <2>2
      <3> QED
        BY <1>4, <1>8, <2>2, <3>1
    <2>3. CASE c # 0 /\ c # node
      <3>1. a \in DOMAIN seen /\ c \in DOMAIN seen /\ dep[c] = dep[a] + 1
        BY <1>4, <1>9, <2>3 DEF Below
      <3> QED
        BY <1>4, <1>8, <3>1
    <2> QED
      BY <2>1, <2>2, <2>3
  <1>10. ASSUME NEW a \in DOMAIN seen' PROVE new[a] < Cardinality(visited')
    BY <1>4, <1>6, <1>7, <1>8
  <1>11. ASSUME NEW a \in DOMAIN seen'
         PROVE  \/ /\ a = parent' /\ seen'[a].left = node' /\ stack' # <<>>
                   /\ stack'[Len(stack')].node = a
                \/ seen'[a].left = 0
                \/ seen'[a].left \in DOMAIN seen' /\ new[seen'[a].left] = new[a] + 1
    <2>1. CASE a = node
      <3>1. stack' # <<>> /\ stack'[Len(stack')].node = node
        BY <1>5
      <3> QED
        BY <1>4, <2>1, <3>1
    <2>2. CASE a # node
      <3>1. a \in DOMAIN seen /\ seen'[a] = seen[a]
        BY <1>4, <2>2
      <3>2. (a = parent /\ seen[a].left = node) \/ Below(dep, a, seen[a].left)
        BY <1>2, <3>1 DEF Deep
      <3>3. Below(dep, a, seen[a].left) => seen[a].left # node
        BY <1>3 DEF Below
      <3> QED
        BY <1>9, <2>2, <3>1, <3>2, <3>3
    <2> QED
      BY <2>1, <2>2
  <1>12. ASSUME NEW a \in DOMAIN seen'
         PROVE  \/ \E k \in 1..Len(stack') : stack'[k].node = a /\ stack'[k].right = seen'[a].right
                \/ a = parent' /\ seen'[a].right = node'
                \/ seen'[a].right = 0
                \/ seen'[a].right \in DOMAIN seen' /\ new[seen'[a].right] = new[a] + 1
    <2>1. CASE a = node
      <3>1. /\ L + 1 \in 1..Len(stack') /\ stack'[L + 1].node = node
            /\ stack'[L + 1].right = raw.right
        BY <1>5
      <3> QED
        BY <1>4, <2>1, <3>1
    <2>2. CASE a # node
      <3>1. a \in DOMAIN seen /\ seen'[a] = seen[a]
        BY <1>4, <2>2
      <3>2. CASE \E k \in 1..L : stack[k].node = a /\ stack[k].right = seen[a].right
        <4>1. PICK k \in 1..L : stack[k].node = a /\ stack[k].right = seen[a].right
          BY <3>2
        <4>2. k \in 1..Len(stack') /\ stack'[k] = stack[k]
          BY <1>5
        <4> QED
          BY <3>1, <4>1, <4>2
      <3>3. CASE (a = parent /\ seen[a].right = node) \/ Below(dep, a, seen[a].right)
        <4>1. Below(dep, a, seen[a].right) => seen[a].right # node
          BY <1>3 DEF Below
        <4> QED
          BY <1>9, <2>2, <3>1, <3>3, <4>1
      <3> QED
        BY <1>1, <1>2, <3>1, <3>2, <3>3 DEF Deep
    <2> QED
      BY <2>1, <2>2
  <1>13. call'.first \in DOMAIN seen' => new[call'.first] = 0
    <2>1. CASE visited = {}
      BY <1>d, <1>3, <1>8, <2>1
    <2>2. CASE visited # {}
      BY <1>3, <1>6, <1>8, <2>2
    <2> QED
      BY <2>1, <2>2
  <1>14. Deep(new)'
    BY <1>8, <1>10, <1>11, <1>12, <1>13 DEF Deep, Below
  <1> QED
    BY <1>14

(* A node is found: what awaited it was the node itself and its right side. *)
LEMMA PopRbOrders ==
    ASSUME WalkInv, TreeInv, pc = "rb", node = 0, stack # <<>>,
           out' = Append(out, Top.node), node' = Top.right, stack' = Front(stack),
           UNCHANGED <<call, seen>>
    PROVE  Ordered'
  <1>1. PICK L \in Nat \ {0} : L = Len(stack)
    <2>1. Len(stack) \in Nat \ {0}
      BY TreeGoesOn
    <2> QED
      BY <2>1
  <1>2. /\ out \in Seq(Nat) /\ stack \in Seq([node : Nat, right : Nat])
    BY TreeGoesOn
  <1>3. PICK e \in Nat, b \in Nat : e = Top.node /\ b = Top.right
    <2>1. Top \in [node : Nat, right : Nat]
      BY <1>2, FrontLast DEF Top
    <2> QED
      BY <2>1
  <1>4. /\ Len(stack') = L - 1 /\ stack[L].node = e /\ stack[L].right = b
        /\ \A k \in 1..(L - 1) : stack'[k] = stack[k]
    BY <1>1, <1>2, <1>3, FrontLast DEF Top
  <1> SUFFICES ASSUME NEW under, NEW rest, Solves(under)', Awaits(under, rest)'
               PROVE  under[call'.first] = Cat(Cat(out', under[node']), rest[Len(stack')])
    BY Zenon DEF Ordered
  <1>5. Solves(under) /\ under \in [Nat -> Seq(Nat)] /\ under[0] = <<>>
    BY DEF Solves
  <1>6. /\ rest \in [0..(L - 1) -> Seq(Nat)] /\ rest[0] = <<>>
        /\ \A k \in 1..(L - 1) :
              rest[k] = Cat(Cat(<<stack'[k].node>>, under[stack'[k].right]), rest[k - 1])
    BY <1>4 DEF Awaits
  <1> DEFINE r == under[b]
             s == rest[L - 1]
             w == Cat(Cat(<<e>>, r), s)
             before == [k \in 0..L |-> IF k = L THEN w ELSE rest[k]]
  <1>7. r \in Seq(Nat) /\ s \in Seq(Nat)
    <2>1. L - 1 \in 0..(L - 1)
      OBVIOUS
    <2> QED
      BY <1>5, <1>6, <2>1
  <1> HIDE DEF r, s
  <1>8. w \in Seq(Nat)
    <2>1. <<e>> \in Seq(Nat) /\ \A x, y \in Seq(Nat) : Cat(x, y) \in Seq(Nat)
      BY CatLaws
    <2>2. Cat(<<e>>, r) \in Seq(Nat)
      BY <1>7, <2>1
    <2> QED
      BY <1>7, <2>1, <2>2
  <1> HIDE DEF w
  <1>9. Awaits(under, before)
    <2>1. before \in [0..L -> Seq(Nat)] /\ before[0] = <<>>
      BY <1>6, <1>8
    <2>2. ASSUME NEW k \in 1..L
          PROVE  before[k] = Cat(Cat(<<stack[k].node>>, under[stack[k].right]), before[k - 1])
      <3>1. CASE k = L
        <4>1. before[k] = w /\ before[k - 1] = s
          BY <3>1 DEF s
        <4> QED
          BY <1>4, <3>1, <4>1 DEF w, r
      <3>2. CASE k # L
        <4>1. k \in 1..(L - 1) /\ k - 1 \in 0..(L - 1)
          BY <3>2
        <4>2. before[k] = rest[k] /\ before[k - 1] = rest[k - 1] /\ stack'[k] = stack[k]
          BY <1>4, <3>2, <4>1
        <4> QED
          BY <1>6, <4>1, <4>2
      <3> QED
        BY <3>1, <3>2
    <2> QED
      BY <1>1, <2>1, <2>2 DEF Awaits
  <1>10. under[call.first] = Cat(Cat(out, <<>>), w)
    <2>1. before[L] = w
      OBVIOUS
    <2> QED
      BY <1>1, <1>5, <1>9, <2>1, TreeGoesOn DEF Ordered
  <1>11. Cat(Cat(out, <<>>), Cat(Cat(<<e>>, r), s)) = Cat(Cat(Append(out, e), r), s)
    BY <1>2, <1>7, PartsPop
  <1>12. call' = call /\ out' = Append(out, e) /\ node' = b /\ Len(stack') = L - 1
    BY <1>3, <1>4
  <1> QED
    BY <1>10, <1>11, <1>12 DEF w, r, s

LEMMA PopRbDepth ==
    ASSUME WalkInv, TreeInv, pc = "rb", node = 0, stack # <<>>,
           parent' = Top.node, node' = Top.right, stack' = Front(stack),
           UNCHANGED <<call, seen, visited>>
    PROVE  \E dep : Deep(dep)'
  <1>1. PICK L \in Nat \ {0} : L = Len(stack)
    <2>1. Len(stack) \in Nat \ {0}
      BY TreeGoesOn
    <2> QED
      BY <2>1
  <1>2. PICK dep : Deep(dep)
    BY TreeGoesOn
  <1>3. /\ Len(stack') = L - 1 /\ stack[L].node = parent' /\ stack[L].right = node'
        /\ \A k \in 1..(L - 1) : stack'[k] = stack[k]
    <2>1. stack \in Seq([node : Nat, right : Nat])
      BY TreeGoesOn
    <2> QED
      BY <1>1, <2>1, FrontLast DEF Top
  <1>4. ASSUME NEW a \in DOMAIN seen PROVE Below(dep, a, seen[a].left)
    BY <1>2 DEF Deep, Below
  <1>5. ASSUME NEW a \in DOMAIN seen
        PROVE  \/ \E k \in 1..Len(stack') : stack'[k].node = a /\ stack'[k].right = seen[a].right
               \/ a = parent' /\ seen[a].right = node'
               \/ Below(dep, a, seen[a].right)
    <2>1. CASE \E k \in 1..L : stack[k].node = a /\ stack[k].right = seen[a].right
      <3>1. PICK k \in 1..L : stack[k].node = a /\ stack[k].right = seen[a].right
        BY <2>1
      <3>2. CASE k = L
        BY <1>3, <3>1, <3>2
      <3>3. CASE k # L
        <4>1. k \in 1..Len(stack') /\ stack'[k] = stack[k]
          BY <1>3, <3>3
        <4> QED
          BY <3>1, <4>1
      <3> QED
        BY <3>2, <3>3
    <2>2. CASE (a = parent /\ seen[a].right = 0) \/ Below(dep, a, seen[a].right)
      BY <2>2 DEF Below
    <2> QED
      BY <1>1, <1>2, <2>1, <2>2 DEF Deep
  <1>6. Deep(dep)'
    BY <1>2, <1>4, <1>5 DEF Deep, Below
  <1> QED
    BY <1>6

-----------------------------------------------------------------------------
LEMMA TreeStays ==
    ASSUME TreeInv, UNCHANGED <<call, node, parent, stack, visited, seen, out, rc>>,
           pc' = "done" => pc = "done" \/ (node = 0 /\ stack = <<>>)
    PROVE  TreeInv'
  <1>1. CASE call.fn = "rbtree" /\ rc = "ok"
    <2>1. Ordered'
      <3> SUFFICES ASSUME NEW under, NEW rest, Solves(under)', Awaits(under, rest)'
                   PROVE  under[call'.first] = Cat(Cat(out', under[node']), rest[Len(stack')])
        BY Zenon DEF Ordered
      <3>1. Solves(under)
        BY DEF Solves
      <3>2. Awaits(under, rest)
        BY DEF Awaits
      <3>3. under[call.first] = Cat(Cat(out, under[node]), rest[Len(stack)])
        BY <1>1, <3>1, <3>2 DEF TreeInv, Ordered
      <3> QED
        BY <3>3
    <2>2. \E dep : Deep(dep)'
      <3>1. PICK dep : Deep(dep)
        BY <1>1 DEF TreeInv
      <3>2. \A a, c : Below(dep, a, c)' <=> Below(dep, a, c)
        BY DEF Below
      <3>3. Deep(dep)'
        BY <3>1, <3>2 DEF Deep
      <3> QED
        BY <3>3
    <2> QED
      BY <1>1, <2>1, <2>2 DEF TreeInv
  <1>2. CASE ~(call.fn = "rbtree" /\ rc = "ok")
    BY <1>2 DEF TreeInv
  <1> QED
    BY <1>1, <1>2

LEMMA ReadRbTree ==
    ASSUME WalkInv, TreeInv, ReadRb
    PROVE  TreeInv'
  <1>1. PICK raw \in Reads(Trees, node) :
            IF raw = Unmapped THEN Unusable("unread")
            ELSE IF raw.parent # parent THEN Unusable("torn")
            ELSE /\ stack' = Append(stack, [node |-> node, right |-> raw.right])
                 /\ parent' = node
                 /\ node' = raw.left
                 /\ Remember(raw)
                 /\ UNCHANGED <<pc, call, out, rc>>
    BY DEF ReadRb
  <1>2. CASE raw = Unmapped \/ raw.parent # parent
    BY <1>1, <1>2 DEF Unusable, TreeInv
  <1>3. CASE ~(raw = Unmapped \/ raw.parent # parent)
    <2>1. /\ stack' = Append(stack, [node |-> node, right |-> raw.right])
          /\ parent' = node /\ node' = raw.left /\ Remember(raw)
          /\ UNCHANGED <<pc, call, out, rc>> /\ pc = "rb" /\ node # 0
      BY <1>1, <1>3 DEF ReadRb, Visit, AtNode
    <2>2. raw \in [parent : Nat, left : Nat, right : Nat]
      BY <1>3, ReadsTrees
    <2>3. /\ visited' = visited \cup {node} /\ node \notin visited
          /\ Cardinality(visited) \in Nat
          /\ Cardinality(visited') = Cardinality(visited) + 1
      BY VisitedMore DEF WalkInv, ReadRb
    <2>4. Ordered'
      BY <2>1, <2>2, <2>3, ReadRbOrders
    <2>5. \E dep : Deep(dep)'
      BY <2>1, <2>2, <2>3, ReadRbDepth
    <2>6. /\ DOMAIN seen' = DOMAIN seen \cup {node} /\ seen'[node] = raw
          /\ \A a \in DOMAIN seen : a # node => seen'[a] = seen[a]
      BY <2>1, Remembered
    <2>7. /\ node \in Nat /\ DOMAIN seen = visited /\ call.first \in Nat
          /\ \A a \in DOMAIN seen : /\ a \in Nat \ {0}
                                    /\ seen[a] \in [parent : Nat, left : Nat, right : Nat]
          /\ visited = {} => node = call.first
          /\ visited # {} => call.first \in visited
      BY <2>1, TreeGoesOn
    <2>8. \A a \in DOMAIN seen' : /\ a \in Nat \ {0}
                                  /\ seen'[a] \in [parent : Nat, left : Nat, right : Nat]
      BY <2>1, <2>2, <2>6, <2>7
    <2> QED
      BY <2>1, <2>3, <2>4, <2>5, <2>6, <2>7, <2>8 DEF TreeInv
  <1> QED
    BY <1>2, <1>3

LEMMA PopRbTree ==
    ASSUME WalkInv, TreeInv, PopRb
    PROVE  TreeInv'
  <1>1. pc = "rb" /\ node = 0
    BY DEF PopRb
  <1>2. CASE stack = <<>>
    <2>1. Return("ok")
      BY <1>2 DEF PopRb
    <2> QED
      BY <1>1, <1>2, <2>1, TreeStays DEF Return, WalkInv, WalkShape
  <1>3. CASE stack # <<>> /\ Len(out) = Clamped(call.max)
    BY <1>3 DEF PopRb, Return, TreeInv
  <1>4. CASE stack # <<>> /\ Len(out) # Clamped(call.max)
    <2>1. /\ out' = Append(out, Top.node) /\ parent' = Top.node /\ node' = Top.right
          /\ stack' = Front(stack) /\ UNCHANGED <<pc, call, visited, seen, steps, rc>>
      BY <1>4 DEF PopRb
    <2>2. Ordered'
      BY <1>1, <1>4, <2>1, PopRbOrders
    <2>3. \E dep : Deep(dep)'
      BY <1>1, <1>4, <2>1, PopRbDepth
    <2>4. /\ DOMAIN seen = visited /\ call.first \in Nat
          /\ \A a \in DOMAIN seen : /\ a \in Nat \ {0}
                                    /\ seen[a] \in [parent : Nat, left : Nat, right : Nat]
          /\ visited = {} => stack = <<>>
          /\ visited # {} => call.first \in visited
      BY <1>1, TreeGoesOn
    <2>5. Top.node \in visited
      <3>1. /\ stack \in Seq([node : Nat, right : Nat])
            /\ \A i \in DOMAIN stack : stack[i].node \in visited
        BY <1>1, TreeGoesOn
      <3>2. Len(stack) \in DOMAIN stack /\ Top = stack[Len(stack)]
        <4>1. stack # <<>> /\ stack \in Seq([node : Nat, right : Nat])
          BY <1>4, <3>1
        <4>2. Len(stack) \in DOMAIN stack
          BY <4>1
        <4>3. Last(stack) = stack[Len(stack)]
          BY <4>1, FrontLast
        <4> QED
          BY <4>2, <4>3 DEF Top
      <3> QED
        BY <3>1, <3>2
    <2> QED
      BY <1>1, <1>4, <2>1, <2>2, <2>3, <2>4, <2>5 DEF TreeInv
  <1> QED
    BY <1>2, <1>3, <1>4

(* A walk that starts has found nothing and seen nothing.                   *)
LEMMA WalkRbtreeTree ==
    ASSUME WalkInv, NEW laid, NEW root, NEW max, NEW limited,
           WalkRbtree(laid, root, max, limited)
    PROVE  TreeInv'
  <1> DEFINE c(top) == [fn |-> "rbtree", root |-> root, first |-> top, max |-> max, off |-> 0,
                        limited |-> limited]
  <1>1. PICK top \in Reads(Words, root) :
            IF ~laid \/ ~KernelVa(root) \/ top = Unmapped
            THEN Answer([c(top) EXCEPT !.first = 0], <<>>, "refused")
            ELSE IF top = 0
            THEN Answer(c(top), <<>>, "ok")
            ELSE Begin(c(top), "rb", top) /\ out' = <<>> /\ rc' = "ok"
    BY DEF WalkRbtree
  <1>2. CASE ~laid \/ ~KernelVa(root) \/ top = Unmapped
    BY <1>1, <1>2 DEF Answer, TreeInv
  <1>3. CASE ~(~laid \/ ~KernelVa(root) \/ top = Unmapped)
    <2>1. PICK at \in {"rb", "done"} :
             Begin(c(top), at, top) /\ out' = <<>> /\ rc' = "ok" /\ (at = "done" => top = 0)
      BY <1>1, <1>3 DEF Answer
    <2>2. top \in Nat
      BY <1>3, ReadsWords
    <2>3. /\ stack' = <<>> /\ visited' = {} /\ seen' = <<>> /\ call' = c(top) /\ pc' = at
          /\ node' = top /\ out' = <<>>
      BY <2>1, BeginKeeps
    <2>4. call'.first = top
      BY <2>3
    <2> HIDE DEF c
    <2>5. Ordered'
      <3> SUFFICES ASSUME NEW under, NEW rest, Solves(under)', Awaits(under, rest)'
                   PROVE  under[call'.first] = Cat(Cat(out', under[node']), rest[Len(stack')])
        BY Zenon DEF Ordered
      <3>1. Len(stack') = 0 /\ rest[0] = <<>> /\ under[top] \in Seq(Nat)
        BY <2>2, <2>3 DEF Solves, Awaits
      <3>2. Cat(Cat(<<>>, under[top]), <<>>) = under[top]
        BY <3>1 DEF Cat
      <3> QED
        BY <2>3, <2>4, <3>1, <3>2
    <2>6. Deep(<<>>)'
      BY <2>3 DEF Deep
    <2>7. \E dep : Deep(dep)'
      BY <2>6
    <2> QED
      BY <2>1, <2>2, <2>3, <2>4, <2>5, <2>7 DEF TreeInv
  <1> QED
    BY <1>2, <1>3

LEMMA TreeStep ==
    ASSUME WalkInv, TreeInv, AnyWalk
    PROVE  TreeInv'
  <1>1. PICK offsets, rb, idr, percpu : WalksNext(offsets, rb, idr, percpu)
    BY DEF AnyWalk
  <1>2. CASE Taken
    BY <1>2 DEF Taken, NoCall, TreeInv
  <1>3. CASE WalkStep
    <2>1. CASE Refused \/ BudgetGone
      BY <2>1 DEF Refused, BudgetGone, Return, TreeInv
    <2>2. CASE ProbesForever
      BY <2>2, TreeStays DEF ProbesForever
    <2>3. CASE ReadLink \/ LinksEnd \/ ReadXa \/ XaSlot \/ XaReturn
      <3>1. call' = call
        BY <2>3 DEF ReadLink, LinksEnd, ReadXa, XaSlot, XaReturn, Return, Unusable
      <3>2. call.fn # "rbtree"
        BY <2>3 DEF ReadLink, LinksEnd, ReadXa, XaSlot, XaReturn, WalkInv, WalkShape
      <3> QED
        BY <3>1, <3>2 DEF TreeInv
    <2> QED
      BY <1>3, <2>1, <2>2, <2>3, ReadRbTree, PopRbTree DEF WalkStep
  <1>4. CASE Call(offsets, rb, idr, percpu)
    <2>1. CASE call'.fn # "rbtree"
      BY <2>1 DEF TreeInv
    <2>2. ASSUME NEW fn \in {"list", "hlist"}, NEW root, NEW max, NEW limited, NEW off,
                 WalkLinks(fn, root, off, max, limited)
          PROVE  call'.fn # "rbtree"
      BY <2>2 DEF WalkLinks, Answer, Begin
    <2>3. ASSUME NEW root, NEW base, NEW max, NEW limited, WalkIdr(idr, root, base, max, limited)
          PROVE  call'.fn # "rbtree"
      BY <2>3 DEF WalkIdr, Answer, Begin
    <2>4. ASSUME NEW a, NEW b, ReadMany(<<a, b>>) PROVE call'.fn # "rbtree"
      BY <2>4 DEF ReadMany, Answer, Begin, NoCall
    <2>5. ASSUME NEW known, NEW symb, NEW cpu, PercpuAddr(known, symb, cpu)
          PROVE  call'.fn # "rbtree"
      BY <2>5 DEF PercpuAddr, Answer, Begin, NoCall
    <2>6. ASSUME NEW root, NEW max, NEW limited, WalkRbtree(rb, root, max, limited)
          PROVE  TreeInv'
      BY <2>6, WalkRbtreeTree
    <2> QED
      BY <1>4, <2>1, <2>2, <2>3, <2>4, <2>5, <2>6 DEF Call
  <1> QED
    BY <1>1, <1>2, <1>3, <1>4 DEF WalksNext

(* Of any walk of a tree, what was found, what is open and what is unread   *)
(* make up the tree in its order.                                           *)
THEOREM TreeWalks == AnyWalks => []TreeInv
  <1>1. WalksInit => TreeInv
    BY DEF WalksInit, NoCall, TreeInv
  <1>2. ASSUME TreeInv, UNCHANGED walkVars PROVE TreeInv'
    BY <1>2, TreeStays DEF walkVars
  <1>3. WalkInv /\ TreeInv /\ [AnyWalk]_walkVars => TreeInv'
    BY <1>2, TreeStep
  <1> QED
    BY <1>1, <1>3, Walks, PTL DEF AnyWalks

(* The levels of a tree that is closed under its links.                     *)
LEMMA LevelsAreSequences ==
    ASSUME NEW tree, NEW d \in Nat, NEW f, BelowTo(tree, d, f),
           \A a \in DOMAIN tree : /\ a \in Nat
                                  /\ tree[a].left \in DOMAIN tree \cup {0}
                                  /\ tree[a].right \in DOMAIN tree \cup {0}
    PROVE  /\ \A k \in 0..d, a \in DOMAIN tree \cup {0} : f[k][a] = BelowOne(tree, f, k, a)
           /\ \A k \in 0..d, a \in DOMAIN tree \cup {0} : f[k][a] \in Seq(Nat)
  <1>1. ASSUME NEW k \in 0..d, NEW a \in DOMAIN tree \cup {0}
        PROVE  f[k][a] = BelowOne(tree, f, k, a)
    <2>1. f[k] = BelowStep(tree, f, k)
      BY DEF BelowTo
    <2> QED
      BY <2>1 DEF BelowStep
  <1> DEFINE S == {k \in Nat : k <= d => \A a \in DOMAIN tree \cup {0} : f[k][a] \in Seq(Nat)}
  <1>2. 0 \in S
    <2>1. ASSUME NEW a \in DOMAIN tree \cup {0} PROVE f[0][a] \in Seq(Nat)
      <3>0. 0 \in 0..d
        OBVIOUS
      <3>1. f[0][a] = BelowOne(tree, f, 0, a)
        BY <1>1, <3>0, Zenon
      <3>2. BelowOne(tree, f, 0, a) = <<>>
        BY DEF BelowOne
      <3>3. <<>> \in Seq(Nat)
        OBVIOUS
      <3> QED
        BY <3>1, <3>2, <3>3, Zenon
    <2> QED
      BY <2>1
  <1>3. ASSUME NEW k \in S PROVE k + 1 \in S
    <2> SUFFICES ASSUME k + 1 <= d, NEW a \in DOMAIN tree \cup {0} PROVE f[k + 1][a] \in Seq(Nat)
      OBVIOUS
    <2>1. f[k + 1][a] = BelowOne(tree, f, k + 1, a)
      BY <1>1
    <2>2. CASE a = 0
      <3>1. f[k + 1][a] = <<>>
        BY <2>1, <2>2 DEF BelowOne
      <3> QED
        BY <3>1
    <2>3. CASE a # 0
      <3>0. (k + 1) - 1 = k /\ k + 1 # 0
        OBVIOUS
      <3>1. f[k + 1][a] = Cat(Cat(f[k][tree[a].left], <<a>>), f[k][tree[a].right])
        BY <2>1, <2>3, <3>0, Zenon DEF BelowOne
      <3>2. f[k][tree[a].left] \in Seq(Nat) /\ f[k][tree[a].right] \in Seq(Nat) /\ a \in Nat
        BY <2>3
      <3>3. <<a>> \in Seq(Nat) /\ \A x, y \in Seq(Nat) : Cat(x, y) \in Seq(Nat)
        BY <3>2, CatLaws
      <3>4. Cat(f[k][tree[a].left], <<a>>) \in Seq(Nat)
        BY <3>2, <3>3
      <3> QED
        BY <3>1, <3>2, <3>3, <3>4
    <2> QED
      BY <2>2, <2>3
  <1> HIDE DEF S
  <1>4. S = Nat
    BY <1>2, <1>3, NatInduct DEF S
  <1> QED
    BY <1>1, <1>4 DEF S

(* A walk that is through has the tree in its order: at its end nothing     *)
(* waits, and no node is deeper than the tree has nodes.                    *)
LEMMA TreeDone ==
    ASSUME WalkInv, TreeInv, call.fn = "rbtree", pc = "done", rc = "ok"
    PROVE  out = InOrder
  <1>1. /\ DOMAIN seen = visited /\ node = 0 /\ stack = <<>> /\ call.first \in Nat
        /\ \A a \in DOMAIN seen : /\ a \in Nat \ {0}
                                  /\ seen[a] \in [parent : Nat, left : Nat, right : Nat]
        /\ visited = {} => node = call.first /\ out = <<>>
        /\ visited # {} => call.first \in visited
        /\ Ordered
    BY DEF TreeInv
  <1>2. PICK d \in Nat : d = Cardinality(visited)
    <2>1. Cardinality(visited) \in Nat
      BY FS_CardinalityType DEF WalkInv, WalkShape
    <2> QED
      BY <2>1
  <1>3. PICK f : BelowTo(seen, d, f) /\ InOrder = f[d][call.first]
    BY <1>2, InOrderIs
  <1>4. PICK dep : Deep(dep)
    BY DEF TreeInv
  <1>5. ASSUME NEW a \in DOMAIN seen
        PROVE  /\ dep[a] \in Nat /\ dep[a] < d
               /\ Below(dep, a, seen[a].left) /\ Below(dep, a, seen[a].right)
    BY <1>1, <1>2, <1>4 DEF Deep, Below
  <1>6. /\ \A k \in 0..d, a \in DOMAIN seen \cup {0} : f[k][a] = BelowOne(seen, f, k, a)
        /\ \A k \in 0..d, a \in DOMAIN seen \cup {0} : f[k][a] \in Seq(Nat)
    <2>1. \A a \in DOMAIN seen : /\ a \in Nat
                                 /\ seen[a].left \in DOMAIN seen \cup {0}
                                 /\ seen[a].right \in DOMAIN seen \cup {0}
      BY <1>1, <1>5 DEF Below
    <2> QED
      BY <1>3, <2>1, LevelsAreSequences
  <1>7. CASE visited = {}
    <2>1. call.first = 0 /\ d \in 0..d /\ 0 \in DOMAIN seen \cup {0}
      BY <1>1, <1>7
    <2>2. f[d][0] = <<>>
      BY <1>6, <2>1 DEF BelowOne
    <2> QED
      BY <1>1, <1>3, <1>7, <2>1, <2>2
  <1>8. CASE visited # {}
    <2> DEFINE under == [a \in Nat |-> IF a \in DOMAIN seen THEN f[d - dep[a]][a] ELSE <<>>]
               rest == [k \in 0..0 |-> <<>>]
    <2>1. ASSUME NEW a \in DOMAIN seen PROVE d - dep[a] \in 1..d
      BY <1>5
    <2>2. under \in [Nat -> Seq(Nat)] /\ under[0] = <<>>
      <3>1. ASSUME NEW a \in Nat PROVE under[a] \in Seq(Nat)
        BY <1>6, <2>1
      <3>2. 0 \notin DOMAIN seen
        BY <1>1
      <3> QED
        BY <3>1, <3>2
    <2>3. ASSUME NEW a \in DOMAIN seen, NEW c, Below(dep, a, c)
          PROVE  c \in Nat /\ under[c] = f[(d - dep[a]) - 1][c]
      <3>1. (d - dep[a]) - 1 \in 0..d
        BY <2>1
      <3>2. CASE c = 0
        <4>1. f[(d - dep[a]) - 1][0] = <<>>
          BY <1>6, <3>1 DEF BelowOne
        <4> QED
          BY <2>2, <3>2, <4>1
      <3>3. CASE c # 0
        <4>1. c \in DOMAIN seen /\ dep[c] = dep[a] + 1
          BY <2>3, <3>3 DEF Below
        <4>2. d - dep[c] = (d - dep[a]) - 1
          BY <1>5, <4>1
        <4>3. c \in Nat
          BY <1>1, <4>1
        <4> QED
          BY <4>1, <4>2, <4>3
      <3> QED
        BY <3>2, <3>3
    <2>4. ASSUME NEW a \in DOMAIN seen
          PROVE  under[a] = Cat(Cat(under[seen[a].left], <<a>>), under[seen[a].right])
      <3>1. under[a] = f[d - dep[a]][a]
        BY <1>1
      <3>2. d - dep[a] \in 1..d /\ d - dep[a] \in 0..d /\ a # 0
        BY <1>1, <2>1
      <3>3. f[d - dep[a]][a] = Cat(Cat(f[(d - dep[a]) - 1][seen[a].left], <<a>>),
                                   f[(d - dep[a]) - 1][seen[a].right])
        BY <1>6, <3>2 DEF BelowOne
      <3>4. /\ under[seen[a].left] = f[(d - dep[a]) - 1][seen[a].left]
            /\ under[seen[a].right] = f[(d - dep[a]) - 1][seen[a].right]
        BY <1>5, <2>3
      <3> QED
        BY <3>1, <3>3, <3>4
    <2>5. under[call.first] = f[d][call.first]
      <3>1. call.first \in DOMAIN seen /\ dep[call.first] = 0 /\ call.first \in Nat
        BY <1>1, <1>4, <1>8 DEF Deep
      <3> QED
        BY <3>1
    <2> HIDE DEF under
    <2>6. Solves(under)
      BY <2>2, <2>4 DEF Solves
    <2>7. Awaits(under, rest)
      <3>1. Len(stack) = 0
        BY <1>1
      <3>2. rest \in [0..0 -> Seq(Nat)] /\ rest[0] = <<>>
        OBVIOUS
      <3> QED
        BY <3>1, <3>2 DEF Awaits
    <2>8. under[call.first] = Cat(Cat(out, under[node]), rest[Len(stack)])
      BY <1>1, <2>6, <2>7 DEF Ordered
    <2>9. under[node] = <<>> /\ rest[Len(stack)] = <<>> /\ out \in Seq(Nat)
      BY <1>1, <2>2 DEF WalkInv, RbInv
    <2>10. Cat(Cat(out, <<>>), <<>>) = out
      BY <2>9 DEF Cat
    <2> QED
      BY <1>3, <2>5, <2>8, <2>9, <2>10
  <1> QED
    BY <1>7, <1>8

(* A walk of a tree that succeeds answers every node of the tree it read,   *)
(* in the tree's order (kwalk.c:307-376), whatever the memory of the guest  *)
(* holds: a node that is reached twice, or that does not name the parent it *)
(* was reached from, ends the walk with an error.                           *)
THEOREM TreesComplete == AnyWalks => [](call.fn = "rbtree" => Complete)
  <1>1. ASSUME WalkInv, TreeInv PROVE call.fn = "rbtree" => Complete
    BY <1>1, TreeDone DEF Complete
  <1> QED
    BY <1>1, Walks, TreeWalks, PTL

-----------------------------------------------------------------------------
(* Division, which the provers know only by its law.                        *)
LEMMA Divides ==
    ASSUME NEW x \in Nat, NEW P \in Nat \ {0}
    PROVE  /\ x \div P \in Nat /\ x % P \in Nat /\ x % P < P
           /\ x = P * (x \div P) + (x % P)
  OBVIOUS

LEMMA DividesOnce ==
    ASSUME NEW q \in Nat, NEW v \in Nat, NEW P \in Nat \ {0}, v < P
    PROVE  (P * q + v) \div P = q /\ (P * q + v) % P = v
  OBVIOUS

LEMMA SameRest ==
    ASSUME NEW a \in Nat, NEW b \in Nat, NEW P \in Nat \ {0}
    PROVE  ((a % P) + b) % P = (a + b) % P
  <1> DEFINE q == a \div P
             r == a % P
             u == (r + b) \div P
             v == (r + b) % P
  <1>1. q \in Nat /\ r \in Nat /\ a = P * q + r
    BY Divides
  <1>2. r + b \in Nat
    BY <1>1
  <1>3. u \in Nat /\ v \in Nat /\ v < P /\ r + b = P * u + v
    BY <1>2, Divides
  <1> HIDE DEF q, r, u, v
  <1>4. a + b = P * (q + u) + v /\ q + u \in Nat
    <2>1. P * (q + u) = P * q + P * u /\ P * q \in Nat /\ P * u \in Nat
      BY <1>1, <1>3
    <2> QED
      BY <1>1, <1>3, <2>1
  <1>5. (a + b) % P = v
    <2>1. (P * (q + u) + v) % P = v
      BY <1>3, <1>4, DividesOnce
    <2> QED
      BY <1>4, <2>1
  <1> QED
    BY <1>5 DEF v, r

LEMMA WrapAdds ==
    ASSUME NEW a \in Nat, NEW b \in Nat
    PROVE  Wrap(a) \in Nat /\ Wrap(Wrap(a) + b) = Wrap(a + b)
  <1> DEFINE W == Pow2[ShiftLimit]
  <1>1. W \in Nat \ {0}
    BY Level
  <1> HIDE DEF W
  <1>2. ((a % W) + b) % W = (a + b) % W
    BY <1>1, SameRest
  <1>3. a % W \in Nat
    BY <1>1, Divides
  <1> QED
    BY <1>2, <1>3, Zenon DEF Wrap, W

(* The slot an index is in, in a node of C slots of width P, and the rest   *)
(* of it within that slot.                                                  *)
Twice(x, C, P) == /\ (x % (C * P)) % P = x % P
                  /\ (x % (C * P)) \div P = (x \div P) % C

LEMMA DividesTwice ==
    ASSUME NEW x \in Nat, NEW C \in Nat \ {0}, NEW P \in Nat \ {0}
    PROVE  Twice(x, C, P) /\ C * P \in Nat \ {0}
  <1> DEFINE W == C * P
             q == x \div W
             r == x % W
             u == r \div P
             v == r % P
  <1>0. W \in Nat \ {0}
    OBVIOUS
  <1>1. q \in Nat /\ r \in Nat /\ r < W /\ x = W * q + r
    BY <1>0, Divides
  <1>2. u \in Nat /\ v \in Nat /\ v < P /\ r = P * u + v
    BY <1>1, Divides
  <1> HIDE DEF q, r, u, v
  <1>3. u < C
    <2>1. SUFFICES ASSUME C <= u PROVE FALSE
      BY <1>2
    <2>2. C * P <= u * P
      BY <1>2, <2>1, Product
    <2> QED
      BY <1>1, <1>2, <2>2
  <1>4. x = P * (C * q + u) + v /\ C * q + u \in Nat
    <2>1. (C * P) * q = P * (C * q) /\ P * (C * q + u) = P * (C * q) + P * u
          /\ C * q \in Nat
      BY <1>1, <1>2
    <2> QED
      BY <1>1, <1>2, <2>1
  <1>5. x \div P = C * q + u /\ x % P = v
    BY <1>2, <1>4, DividesOnce
  <1>6. (C * q + u) % C = u
    BY <1>1, <1>2, <1>3, DividesOnce
  <1> QED
    BY <1>0, <1>5, <1>6 DEF u, v, r, Twice

Alike(x, y, C, P) == x % P = y % P /\ (x \div P) % C = (y \div P) % C

LEMMA SameSlot ==
    ASSUME NEW x \in Nat, NEW y \in Nat, NEW C \in Nat \ {0}, NEW P \in Nat \ {0},
           NEW W, W = C * P, x % W = y % W
    PROVE  Alike(x, y, C, P)
  <1>1. Twice(x, C, P)
    BY DividesTwice
  <1>2. Twice(y, C, P)
    BY DividesTwice
  <1> QED
    BY <1>1, <1>2, Zenon DEF Twice, Alike

-----------------------------------------------------------------------------
(* What an xarray holds, as the equation of it: held gives of each node the *)
(* entries under it, by their index within that node, and holds them slot   *)
(* by slot.                                                                 *)
SlotHolds(held, raw, j, x, p) ==
    LET s == raw.slots[j + 1]
    IN  \/ IsPointer(s) /\ p = s /\ x = j * Pow2[raw.shift]
        \/ IsNode(s) /\ \E y \in Nat : <<y, p>> \in held[s - 2] /\ x = j * Pow2[raw.shift] + y

Holds(held) ==
    \A a \in DOMAIN seen : \A x, p \in Nat :
        <<x, p>> \in held[a] <=> \E j \in 0..(Chunk - 1) : SlotHolds(held, seen[a], j, x, p)

(* What a walk shows of a slot of an open node, and that what it has found  *)
(* is that of the slots it is past.                                         *)
Shows(held, f, j, e) ==
    \E x, p \in Nat : SlotHolds(held, f, j, x, p) /\ e = [id |-> Wrap(f.index + x + call.off), ptr |-> p]

Past(held, e) == \E k \in 1..Len(stack) : \E j \in 0..(stack[k].i - 1) : Shows(held, stack[k], j, e)

Scanned(held) == \A e : e \in ToSet(out) <=> Past(held, e)

(* An open node is one that was read, and is in the slot the one above it   *)
(* is at.                                                                   *)
Leads(f, a) == IsNode(f.slots[f.i + 1]) /\ a = f.slots[f.i + 1] - 2

NodesRead ==
    \A a \in DOMAIN seen : /\ a \in Nat
                           /\ seen[a].shift \in Nat /\ seen[a].shift < ShiftLimit
                           /\ seen[a].slots \in [1..Chunk -> Nat]

Opened ==
    /\ \A k \in 1..Len(stack) : /\ stack[k].node \in DOMAIN seen
                                /\ stack[k].shift = seen[stack[k].node].shift
                                /\ stack[k].slots = seen[stack[k].node].slots
    /\ \A k \in 1..(Len(stack) - 1) : /\ Leads(stack[k], stack[k + 1].node)
                                      /\ stack[k + 1].index = Wrap(At(k))
    /\ stack # <<>> => stack[1].node = TopNode
    /\ stack # <<>> /\ pc = "xa" => Leads(stack[Len(stack)], node)

(* A node in a slot was read, and is one level below, unless the walk has   *)
(* yet to come to that slot or is in it.                                    *)
Under(a, c) == c \in DOMAIN seen /\ seen[a].shift = seen[c].shift + ChunkShift
Ahead(a, j) == \E k \in 1..Len(stack) : stack[k].node = a /\ stack[k].i <= j

Closed ==
    \A a \in DOMAIN seen, j \in 0..(Chunk - 1) :
        IsNode(seen[a].slots[j + 1]) => Under(a, seen[a].slots[j + 1] - 2) \/ Ahead(a, j)

(* A lone entry is in the head, without a node.                             *)
Lone == {[id |-> call.off, ptr |-> p] : p \in {e \in {call.first} : IsPointer(e)}}

EntriesInv ==
    call.fn = "idr" /\ rc = "ok" =>
        /\ ~IsNode(call.first) => pc = "done" /\ ToSet(out) = Lone
        /\ IsNode(call.first) => /\ NodesRead /\ Opened /\ Closed
                                 /\ \A held : Holds(held) => Scanned(held)
                                 /\ pc = "done" => Len(stack) = 1 /\ stack[1].i = Chunk

LEMMA EntriesGoOn ==
    ASSUME WalkInv, EntriesInv, pc \in {"xa", "slots"}
    PROVE  /\ NodesRead /\ Opened /\ Closed
           /\ \A held : Holds(held) => Scanned(held)
  BY XaGoesOn DEF EntriesInv

-----------------------------------------------------------------------------
(* A node that is read is opened at its first slot.                         *)
LEMMA ReadXaEntries ==
    ASSUME WalkInv, EntriesInv, ReadXa
    PROVE  EntriesInv'
  <1>1. PICK raw \in Reads(XaNodes, node) :
            IF raw = Unmapped THEN Unusable("unread")
            ELSE IF Misplaced(raw) THEN Unusable("torn")
            ELSE /\ stack' = Append(stack, [node |-> node, shift |-> raw.shift, i |-> 0,
                        index |-> IF stack = <<>> THEN 0 ELSE Id, slots |-> raw.slots])
                 /\ pc' = "slots"
                 /\ Remember(raw)
                 /\ UNCHANGED <<call, node, parent, out, rc>>
    BY DEF ReadXa
  <1>2. CASE raw = Unmapped \/ Misplaced(raw)
    BY <1>1, <1>2 DEF Unusable, EntriesInv
  <1>3. CASE ~(raw = Unmapped \/ Misplaced(raw))
    <2> DEFINE frame == [node |-> node, shift |-> raw.shift, i |-> 0,
                         index |-> IF stack = <<>> THEN 0 ELSE Id, slots |-> raw.slots]
    <2>1. /\ stack' = Append(stack, frame) /\ pc' = "slots" /\ Remember(raw)
          /\ UNCHANGED <<call, node, parent, out, rc>>
      BY <1>1, <1>3
    <2>2. pc = "xa" /\ raw.shift \in Nat /\ raw.shift < ShiftLimit /\ raw.slots \in [1..Chunk -> Nat]
      <3>1. raw \in [shift : Nat, offset : Nat, parent : Nat, slots : [1..Chunk -> Nat]]
        BY <1>3, ReadsXaNodes
      <3>2. ~(raw.shift >= ShiftLimit) /\ ShiftLimit \in Nat
        BY <1>3, WalkBounds DEF Misplaced
      <3>3. pc = "xa"
        BY DEF ReadXa
      <3> QED
        BY <3>1, <3>2, <3>3
    <2>3. /\ IsNode(call.first) /\ node \in Nat /\ stack \in Seq(Frame)
          /\ DOMAIN seen \subseteq visited
          /\ stack = <<>> => out = <<>> /\ node = TopNode
      BY <2>2, XaGoesOn
    <2>4. NodesRead /\ Opened /\ Closed /\ \A held : Holds(held) => Scanned(held)
      BY <2>2, EntriesGoOn
    <2>5. node \notin DOMAIN seen
      BY <2>3, VisitedMore DEF WalkInv, ReadXa
    <2>6. /\ DOMAIN seen' = DOMAIN seen \cup {node} /\ seen'[node] = raw
          /\ \A a \in DOMAIN seen : seen'[a] = seen[a]
      BY <2>1, <2>5, Remembered
    <2>7. PICK n \in Nat : n = Len(stack)
      BY <2>3
    <2>8. Len(stack') = n + 1 /\ stack' # <<>> /\ stack'[n + 1] = frame
          /\ \A k \in 1..n : stack'[k] = stack[k]
      <3> HIDE DEF frame, Frame
      <3> QED
        BY <2>1, <2>3, <2>7, AppendProperties
    <2>9. /\ frame.node = node /\ frame.shift = raw.shift /\ frame.slots = raw.slots /\ frame.i = 0
          /\ stack # <<>> => frame.index = Id
      OBVIOUS
    <2> HIDE DEF frame
    <2>10. NodesRead'
      BY <2>2, <2>3, <2>4, <2>6 DEF NodesRead
    <2>11. Opened'
      <3>1. ASSUME NEW k \in 1..Len(stack')
            PROVE  /\ stack'[k].node \in DOMAIN seen'
                   /\ stack'[k].shift = seen'[stack'[k].node].shift
                   /\ stack'[k].slots = seen'[stack'[k].node].slots
        <4>1. CASE k = n + 1
          BY <2>6, <2>8, <2>9, <4>1
        <4>2. CASE k \in 1..n
          BY <2>4, <2>6, <2>7, <2>8, <4>2 DEF Opened
        <4> QED
          BY <2>8, <4>1, <4>2
      <3>2. ASSUME NEW k \in 1..(Len(stack') - 1)
            PROVE  Leads(stack'[k], stack'[k + 1].node) /\ stack'[k + 1].index = Wrap(At(k))'
        <4>1. k \in 1..n /\ stack'[k] = stack[k] /\ At(k)' = At(k)
          BY <2>8 DEF At
        <4>2. CASE k = n
          <5>1. stack # <<>> /\ Top = stack[n]
            <6>1. stack \in Seq(Frame) /\ stack # <<>>
              BY <2>3, <2>7, <4>1, <4>2
            <6> QED
              BY <2>7, <6>1, FrontLast DEF Top
          <5>2. Leads(stack[n], node)
            BY <2>2, <2>4, <2>7, <5>1 DEF Opened
          <5>3. Id = Wrap(At(n))
            BY <5>1 DEF Id, At
          <5> QED
            BY <2>8, <2>9, <4>1, <4>2, <5>1, <5>2, <5>3 DEF Wrap
        <4>3. CASE k # n
          <5>1. k \in 1..(n - 1) /\ k + 1 \in 1..n
            BY <2>7, <4>1, <4>3
          <5>2. Leads(stack[k], stack[k + 1].node) /\ stack[k + 1].index = Wrap(At(k))
            BY <2>4, <2>7, <5>1 DEF Opened
          <5> QED
            BY <2>8, <4>1, <5>1, <5>2 DEF Wrap
        <4> QED
          BY <4>2, <4>3
      <3>3. stack'[1].node = TopNode'
        <4>1. TopNode' = TopNode
          BY <2>1 DEF TopNode
        <4>2. CASE stack = <<>>
          BY <2>3, <2>7, <2>8, <2>9, <4>1, <4>2
        <4>3. CASE stack # <<>>
          <5>1. 1 \in 1..n
            BY <2>3, <2>7, <4>3
          <5> QED
            BY <2>4, <2>8, <4>1, <4>3, <5>1 DEF Opened
        <4> QED
          BY <4>2, <4>3
      <3> QED
        BY <2>1, <3>1, <3>2, <3>3 DEF Opened, Leads
    <2>12. Closed'
      <3> SUFFICES ASSUME NEW a \in DOMAIN seen', NEW j \in 0..(Chunk - 1),
                          IsNode(seen'[a].slots[j + 1])
                   PROVE  Under(a, seen[a].slots[j + 1] - 2)' \/ Ahead(a, j)'
        BY DEF Closed
      <3>1. CASE a = node
        <4>1. n + 1 \in 1..Len(stack') /\ stack'[n + 1].node = a /\ stack'[n + 1].i <= j
          BY <2>8, <2>9, <3>1, Level
        <4> QED
          BY <4>1 DEF Ahead
      <3>2. CASE a \in DOMAIN seen
        <4>1. Under(a, seen[a].slots[j + 1] - 2) \/ Ahead(a, j)
          BY <2>4, <2>6, <3>2 DEF Closed
        <4>2. CASE Under(a, seen[a].slots[j + 1] - 2)
          BY <2>6, <3>2, <4>2 DEF Under
        <4>3. CASE Ahead(a, j)
          <5>1. PICK k \in 1..Len(stack) : stack[k].node = a /\ stack[k].i <= j
            BY <4>3 DEF Ahead
          <5>2. k \in 1..Len(stack') /\ stack'[k] = stack[k]
            BY <2>7, <2>8
          <5> QED
            BY <5>1, <5>2 DEF Ahead
        <4> QED
          BY <4>1, <4>2, <4>3
      <3> QED
        BY <2>6, <3>1, <3>2
    <2>13. ASSUME NEW held, Holds(held)' PROVE Scanned(held)'
      <3>1. Holds(held)
        BY <2>6, <2>13 DEF Holds
      <3>2. ASSUME NEW e PROVE Past(held, e)' <=> Past(held, e)
        <4>1. ASSUME Past(held, e)' PROVE Past(held, e)
          <5>0. PICK k \in 1..Len(stack') : \E j \in 0..(stack'[k].i - 1) : Shows(held, stack[k], j, e)'
            BY <4>1 DEF Past
          <5>1. PICK j \in 0..(stack'[k].i - 1) : Shows(held, stack[k], j, e)'
            BY <5>0
          <5>2. k # n + 1
            BY <2>8, <2>9, <5>1
          <5>3. k \in 1..n /\ stack'[k] = stack[k]
            BY <2>8, <5>2
          <5>4. Shows(held, stack[k], j, e)
            BY <2>1, <5>1, <5>3 DEF Shows, SlotHolds, Wrap
          <5> QED
            BY <2>7, <5>3, <5>4 DEF Past
        <4>2. ASSUME Past(held, e) PROVE Past(held, e)'
          <5>0. PICK k \in 1..Len(stack) : \E j \in 0..(stack[k].i - 1) : Shows(held, stack[k], j, e)
            BY <4>2 DEF Past
          <5>1. PICK j \in 0..(stack[k].i - 1) : Shows(held, stack[k], j, e)
            BY <5>0
          <5>2. k \in 1..Len(stack') /\ stack'[k] = stack[k]
            BY <2>7, <2>8
          <5>3. Shows(held, stack[k], j, e)'
            BY <2>1, <5>1, <5>2 DEF Shows, SlotHolds, Wrap
          <5> QED
            BY <5>2, <5>3 DEF Past
        <4> QED
          BY <4>1, <4>2
      <3>3. \A e : e \in ToSet(out) <=> Past(held, e)
        BY <2>4, <3>1 DEF Scanned
      <3> QED
        BY <2>1, <3>2, <3>3 DEF Scanned
    <2> QED
      BY <2>1, <2>3, <2>10, <2>11, <2>12, <2>13 DEF EntriesInv
  <1> QED
    BY <1>2, <1>3

(* The walk goes on to the next slot of a frame, and leaves the open nodes  *)
(* below that one: the slot holds no node, or one that was read.            *)
LEMMA NextSlotEntries ==
    ASSUME stack \in Seq(Frame), NEW n, n = Len(stack), NEW m \in Nat \ {0}, m <= n,
           NodesRead, Opened, Closed,
           NEW kept \in Seq(Frame), Len(kept) = m, \A k \in 1..m : kept[k] = stack[k],
           stack' = NextSlot(kept), UNCHANGED <<pc, call, seen>>, pc # "xa",
           \A k \in (m + 1)..n : stack[k].i = Chunk,
           IsNode(stack[m].slots[stack[m].i + 1]) =>
                Under(stack[m].node, stack[m].slots[stack[m].i + 1] - 2)
    PROVE  /\ NodesRead' /\ Opened' /\ Closed'
           /\ Len(stack') = m /\ stack'[m] = [stack[m] EXCEPT !.i = @ + 1]
           /\ \A k \in 1..(m - 1) : stack'[k] = stack[k]
  <1> DEFINE f == [stack[m] EXCEPT !.i = @ + 1]
  <1>1. stack[m] \in Frame /\ m \in 1..m /\ n \in Nat /\ kept # <<>> /\ 1 \in 1..m
    OBVIOUS
  <1>2. Len(stack') = m /\ stack'[m] = f /\ \A k \in 1..(m - 1) : stack'[k] = stack[k]
    <2>1. \A k \in 1..(m - 1) : k \in 1..m
      OBVIOUS
    <2> QED
      BY <1>1, <2>1, NextFrames
  <1>3. /\ f.i = stack[m].i + 1 /\ f.shift = stack[m].shift /\ f.index = stack[m].index
        /\ f.node = stack[m].node /\ f.slots = stack[m].slots
        /\ stack[m].i \in Nat
    BY <1>1 DEF Frame
  <1> HIDE DEF f
  <1>4. ASSUME NEW k \in 1..m
        PROVE  /\ stack'[k].node = stack[k].node /\ stack'[k].shift = stack[k].shift
               /\ stack'[k].slots = stack[k].slots /\ stack'[k].index = stack[k].index
               /\ k \in 1..n
    <2>1. k = m \/ k \in 1..(m - 1)
      OBVIOUS
    <2> QED
      BY <1>1, <1>2, <1>3, <2>1
  <1>5. NodesRead'
    BY DEF NodesRead
  <1>6. Opened'
    <2>1. ASSUME NEW k \in 1..Len(stack')
          PROVE  /\ stack'[k].node \in DOMAIN seen'
                 /\ stack'[k].shift = seen'[stack'[k].node].shift
                 /\ stack'[k].slots = seen'[stack'[k].node].slots
      BY <1>2, <1>4 DEF Opened
    <2>2. ASSUME NEW k \in 1..(Len(stack') - 1)
          PROVE  Leads(stack'[k], stack'[k + 1].node) /\ stack'[k + 1].index = Wrap(At(k))'
      <3>1. k \in 1..(m - 1) /\ k + 1 \in 1..m /\ k \in 1..(n - 1)
        BY <1>1, <1>2
      <3>2. Leads(stack[k], stack[k + 1].node) /\ stack[k + 1].index = Wrap(At(k))
        BY <3>1 DEF Opened
      <3>3. stack'[k] = stack[k] /\ stack'[k + 1].node = stack[k + 1].node
            /\ stack'[k + 1].index = stack[k + 1].index
        BY <1>2, <1>4, <3>1
      <3> QED
        BY <3>2, <3>3 DEF At, Wrap
    <2>3. stack'[1].node = TopNode'
      BY <1>1, <1>4 DEF Opened, TopNode
    <2> QED
      BY <2>1, <2>2, <2>3 DEF Opened, Leads
  <1>7. Closed'
    <2> SUFFICES ASSUME NEW a \in DOMAIN seen, NEW j \in 0..(Chunk - 1),
                        IsNode(seen[a].slots[j + 1]), ~Under(a, seen[a].slots[j + 1] - 2)
                 PROVE  Ahead(a, j)'
      BY DEF Closed, Under
    <2>1. PICK k \in 1..n : stack[k].node = a /\ stack[k].i <= j
      BY DEF Closed, Ahead
    <2>2. k <= m
      <3>1. Chunk \in Nat /\ ~(Chunk <= j)
        BY Level
      <3>2. k \notin (m + 1)..n
        BY <2>1, <3>1
      <3> QED
        BY <1>1, <3>2
    <2>3. CASE k = m
      <3>1. stack[m].slots = seen[a].slots
        BY <1>1, <2>1, <2>3 DEF Opened
      <3>2. j # stack[m].i
        BY <2>1, <2>3, <3>1
      <3>3. stack'[m].node = a /\ stack'[m].i <= j /\ m \in 1..Len(stack')
        BY <1>1, <1>2, <1>3, <2>1, <2>3, <3>2
      <3> QED
        BY <3>3 DEF Ahead
    <2>4. CASE k # m
      <3>1. k \in 1..(m - 1) /\ k \in 1..Len(stack') /\ stack'[k] = stack[k]
        BY <1>1, <1>2, <2>2, <2>4
      <3> QED
        BY <2>1, <3>1 DEF Ahead
    <2> QED
      BY <2>3, <2>4
  <1> QED
    BY <1>2, <1>5, <1>6, <1>7 DEF f

LEMMA OneMore ==
    ASSUME NEW i \in Nat, NEW j
    PROVE  j \in 0..((i + 1) - 1) <=> j = i \/ j \in 0..(i - 1)
  OBVIOUS

(* What the walk is past, once it has moved on to the next slot of a frame. *)
LEMMA NextSlotPast ==
    ASSUME NEW m \in Nat \ {0}, m <= Len(stack), Len(stack) \in Nat, stack[m] \in Frame,
           Len(stack') = m, stack'[m] = [stack[m] EXCEPT !.i = @ + 1],
           \A k \in 1..(m - 1) : stack'[k] = stack[k], call' = call,
           NEW held, NEW e
    PROVE  Past(held, e)' <=>
              \/ \E k \in 1..m : \E j \in 0..(stack[k].i - 1) : Shows(held, stack[k], j, e)
              \/ Shows(held, stack[m], stack[m].i, e)
  <1>1. stack[m].i \in Nat /\ m \in 1..m
    BY DEF Frame
  <1>2. /\ stack'[m].i = stack[m].i + 1 /\ stack'[m].slots = stack[m].slots
        /\ stack'[m].shift = stack[m].shift /\ stack'[m].index = stack[m].index
    BY DEF Frame
  <1>3. ASSUME NEW k \in 1..m, NEW j
        PROVE  Shows(held, stack[k], j, e)' <=> Shows(held, stack[k], j, e)
    <2>1. k = m \/ k \in 1..(m - 1)
      OBVIOUS
    <2>2. /\ stack'[k].slots = stack[k].slots
          /\ stack'[k].shift = stack[k].shift /\ stack'[k].index = stack[k].index
      BY <1>2, <2>1
    <2> QED
      BY <2>2 DEF Shows, SlotHolds, Wrap
  <1>4. ASSUME Past(held, e)'
        PROVE  \/ \E k \in 1..m : \E j \in 0..(stack[k].i - 1) : Shows(held, stack[k], j, e)
               \/ Shows(held, stack[m], stack[m].i, e)
    <2>1. PICK k \in 1..m : \E j \in 0..(stack'[k].i - 1) : Shows(held, stack[k], j, e)'
      BY <1>4 DEF Past
    <2>2. PICK j \in 0..(stack'[k].i - 1) : Shows(held, stack[k], j, e)'
      BY <2>1
    <2>3. Shows(held, stack[k], j, e)
      BY <1>3, <2>2
    <2>4. CASE k = m
      <3>1. j = stack[m].i \/ j \in 0..(stack[m].i - 1)
        <4>1. stack'[k].i = stack[m].i + 1
          BY <1>2, <2>4
        <4>2. j \in 0..((stack[m].i + 1) - 1)
          BY <2>2, <4>1, Zenon
        <4> QED
          BY <1>1, <4>2, OneMore, Zenon
      <3> QED
        BY <1>1, <2>3, <2>4, <3>1
    <2>5. CASE k # m
      <3>1. stack'[k] = stack[k]
        BY <2>5
      <3> QED
        BY <2>2, <2>3, <3>1
    <2> QED
      BY <2>4, <2>5
  <1>5. ASSUME NEW k \in 1..m, NEW j \in 0..(stack'[k].i - 1), Shows(held, stack[k], j, e)
        PROVE  Past(held, e)'
    <2>1. Shows(held, stack[k], j, e)'
      BY <1>3, <1>5
    <2> QED
      BY <1>5, <2>1 DEF Past
  <1>6. ASSUME NEW k \in 1..m, NEW j \in 0..(stack[k].i - 1), Shows(held, stack[k], j, e)
        PROVE  Past(held, e)'
    <2>1. j \in 0..(stack'[k].i - 1)
      <3>1. k = m \/ k \in 1..(m - 1)
        OBVIOUS
      <3>2. CASE k = m
        <4>1. j \in 0..((stack[m].i + 1) - 1)
          BY <1>1, <1>6, <3>2, OneMore, Zenon
        <4> QED
          BY <1>2, <3>2, <4>1, Zenon
      <3>3. CASE k \in 1..(m - 1)
        BY <1>6, <3>3, Zenon
      <3> QED
        BY <3>1, <3>2, <3>3
    <2> QED
      BY <1>5, <1>6, <2>1
  <1>7. ASSUME Shows(held, stack[m], stack[m].i, e) PROVE Past(held, e)'
    <2>1. stack[m].i \in 0..(stack'[m].i - 1)
      BY <1>1, <1>2
    <2> QED
      BY <1>1, <1>5, <1>7, <2>1
  <1>8. ASSUME \E k \in 1..m : \E j \in 0..(stack[k].i - 1) : Shows(held, stack[k], j, e)
        PROVE  Past(held, e)'
    <2>1. PICK k \in 1..m : \E j \in 0..(stack[k].i - 1) : Shows(held, stack[k], j, e)
      BY <1>8
    <2>2. PICK j \in 0..(stack[k].i - 1) : Shows(held, stack[k], j, e)
      BY <2>1
    <2> QED
      BY <1>6, <2>2
  <1> QED
    BY <1>4, <1>7, <1>8

(* What holds of an entry of out, once one was found.                       *)
LEMMA AppendedSet ==
    ASSUME NEW T, NEW s \in Seq(T), NEW x \in T
    PROVE  \A e : e \in ToSet(Append(s, x)) <=> e \in ToSet(s) \/ e = x
  <1>1. /\ DOMAIN s = 1..Len(s) /\ Len(s) \in Nat
        /\ DOMAIN Append(s, x) = 1..(Len(s) + 1)
        /\ Append(s, x)[Len(s) + 1] = x
        /\ \A k \in 1..Len(s) : Append(s, x)[k] = s[k]
    BY AppendProperties
  <1>2. \A k \in 1..(Len(s) + 1) : k \in 1..Len(s) \/ k = Len(s) + 1
    BY <1>1
  <1>3. \A k \in 1..Len(s) : k \in 1..(Len(s) + 1)
    BY <1>1
  <1>4. Len(s) + 1 \in 1..(Len(s) + 1)
    BY <1>1
  <1> QED
    BY <1>1, <1>2, <1>3, <1>4, Zenon DEF ToSet

(* A slot with an entry shows that entry, one with neither entry nor node   *)
(* shows none.                                                              *)
AtSlot(f, s, id) ==
    /\ f \in Frame /\ f.i < Chunk
    /\ s \in Nat /\ s = f.slots[f.i + 1] /\ ~IsNode(s)
    /\ id = Wrap(f.index + f.i * Pow2[f.shift])

ShowsOnly(held, f, s, id) ==
    \A e : Shows(held, f, f.i, e) <=> IsPointer(s) /\ e = [id |-> Wrap(id + call.off), ptr |-> s]

LEMMA SlotShows ==
    ASSUME NEW f, NEW s, NEW id, AtSlot(f, s, id), call.off \in Nat, NEW held
    PROVE  id \in Nat /\ ShowsOnly(held, f, s, id)
  <1> DEFINE at == f.i * Pow2[f.shift]
  <1>0. /\ f \in Frame /\ s = f.slots[f.i + 1] /\ s \in Nat /\ ~IsNode(s)
        /\ id = Wrap(f.index + at) /\ call.off \in Nat
    BY DEF AtSlot
  <1>1. f.index \in Nat /\ at \in Nat
    <2>1. f.index \in Nat /\ f.i \in Nat /\ Pow2[f.shift] \in Nat
      BY <1>0, Level DEF Frame
    <2> QED
      BY <2>1, Product
  <1> HIDE DEF at
  <1>2. f.index + at \in Nat
    BY <1>1
  <1>3. Wrap(Wrap(f.index + at) + call.off) = Wrap(f.index + at + call.off) /\ Wrap(f.index + at) \in Nat
    BY <1>2, WrapAdds
  <1>4. \A x, p : SlotHolds(held, f, f.i, x, p) <=> IsPointer(s) /\ p = s /\ x = at
    BY <1>0 DEF SlotHolds, at
  <1>5. \A e : Shows(held, f, f.i, e) <=>
            IsPointer(s) /\ e = [id |-> Wrap(f.index + at + call.off), ptr |-> s]
    <2>1. ASSUME NEW e, Shows(held, f, f.i, e)
          PROVE  IsPointer(s) /\ e = [id |-> Wrap(f.index + at + call.off), ptr |-> s]
      <3>1. PICK x \in Nat, p \in Nat : /\ SlotHolds(held, f, f.i, x, p)
                                        /\ e = [id |-> Wrap(f.index + x + call.off), ptr |-> p]
        BY <2>1 DEF Shows
      <3>2. IsPointer(s) /\ p = s /\ x = at
        BY <1>4, <3>1
      <3> QED
        BY <3>1, <3>2
    <2>2. ASSUME NEW e, IsPointer(s), e = [id |-> Wrap(f.index + at + call.off), ptr |-> s]
          PROVE  Shows(held, f, f.i, e)
      <3>1. SlotHolds(held, f, f.i, at, s)
        BY <1>4, <2>2
      <3> QED
        BY <1>0, <1>1, <2>2, <3>1, Zenon DEF Shows
    <2> QED
      BY <2>1, <2>2
  <1>6. id = Wrap(f.index + at)
    BY <1>0
  <1> QED
    BY <1>3, <1>5, <1>6, Zenon DEF ShowsOnly

LEMMA FramesStay ==
    ASSUME stack' = stack, call' = call, seen' = seen
    PROVE  /\ NodesRead' <=> NodesRead
           /\ Closed' <=> Closed
           /\ \A held : Holds(held)' <=> Holds(held)
           /\ \A held, e : Past(held, e)' <=> Past(held, e)
  <1>1. NodesRead' <=> NodesRead
    BY DEF NodesRead
  <1>2. Closed' <=> Closed
    <2>1. \A a, j : Ahead(a, j)' <=> Ahead(a, j)
      BY DEF Ahead
    <2>2. \A a, c : Under(a, c)' <=> Under(a, c)
      BY DEF Under
    <2> QED
      BY <2>1, <2>2 DEF Closed
  <1>3. \A held : Holds(held)' <=> Holds(held)
    BY DEF Holds
  <1>4. ASSUME NEW held, NEW e PROVE Past(held, e)' <=> Past(held, e)
    <2>1. \A f, j : Shows(held, f, j, e)' <=> Shows(held, f, j, e)
      BY DEF Shows, Wrap
    <2> QED
      BY <2>1 DEF Past
  <1> QED
    BY <1>1, <1>2, <1>3, <1>4

LEMMA XaSlotEntries ==
    ASSUME WalkInv, EntriesInv, XaSlot
    PROVE  EntriesInv'
  <1>1. pc = "slots" /\ Top.i < Chunk
    BY DEF XaSlot
  <1>2. /\ call.fn = "idr" /\ IsNode(call.first) /\ call.off \in Nat
        /\ stack \in Seq(Frame) /\ stack # <<>> /\ out \in Seq([id : Nat, ptr : Nat])
    BY <1>1, XaGoesOn
  <1>3. NodesRead /\ Opened /\ Closed /\ \A held : Holds(held) => Scanned(held)
    BY <1>1, EntriesGoOn
  <1>4. PICK n \in Nat \ {0} : n = Len(stack)
    BY <1>2, FrontLast
  <1>5. Top = stack[n] /\ stack[n] \in Frame /\ stack[n].i < Chunk
    <2>1. stack \in Seq(Frame) /\ stack # <<>>
      BY <1>2
    <2> QED
      BY <1>1, <1>4, <2>1, FrontLast DEF Top
  <1>6. Slot \in Nat /\ Slot = stack[n].slots[stack[n].i + 1]
    <2>1. stack[n].slots \in [1..Chunk -> Nat] /\ stack[n].i \in Nat
      BY <1>5 DEF Frame
    <2>2. stack[n].i + 1 \in 1..Chunk
      BY <1>5, <2>1, Level
    <2> QED
      BY <1>5, <2>1, <2>2 DEF Slot
  <1>7. CASE (IsNode(Slot) /\ Top.shift = 0) \/ (IsPointer(Slot) /\ Len(out) = Clamped(call.max))
    BY <1>7 DEF XaSlot, Return, EntriesInv
  <1>8. CASE ~((IsNode(Slot) /\ Top.shift = 0) \/ (IsPointer(Slot) /\ Len(out) = Clamped(call.max)))
    <2>1. /\ pc' = IF IsNode(Slot) THEN "xa" ELSE pc
          /\ node' = IF IsNode(Slot) THEN Slot - 2 ELSE node
          /\ stack' = IF IsNode(Slot) THEN stack ELSE NextSlot(stack)
          /\ out' = IF IsPointer(Slot)
                    THEN Append(out, [id |-> Wrap(Id + call.off), ptr |-> Slot]) ELSE out
          /\ UNCHANGED <<call, parent, visited, seen, steps, rc>>
      BY <1>8 DEF XaSlot
    <2>2. \A held : Holds(held)' <=> Holds(held)
      BY <2>1 DEF Holds
    <2>3. CASE IsNode(Slot)
      <3>1. stack' = stack /\ out' = out /\ pc' = "xa" /\ node' = Slot - 2 /\ ~IsPointer(Slot)
        BY <1>6, <2>1, <2>3, NodesAreNot
      <3>2. Opened'
        <4>1. Leads(stack[n], node')
          BY <1>6, <2>3, <3>1 DEF Leads
        <4> QED
          BY <1>3, <1>4, <2>1, <3>1, <4>1 DEF Opened, Leads, At, Wrap, TopNode
      <3>3. NodesRead' /\ Closed'
        BY <1>3, <2>1, <3>1, FramesStay
      <3>4. \A held, e : Past(held, e)' <=> Past(held, e)
        BY <2>1, <3>1, FramesStay
      <3>5. \A held : Holds(held)' => Scanned(held)'
        BY <1>3, <2>2, <3>1, <3>4 DEF Scanned
      <3> QED
        BY <1>2, <2>1, <3>1, <3>2, <3>3, <3>5 DEF EntriesInv
    <2>4. CASE ~IsNode(Slot)
      <3>1. stack' = NextSlot(stack) /\ UNCHANGED <<pc, call, seen>>
        BY <2>1, <2>4
      <3>2. /\ NodesRead' /\ Opened' /\ Closed'
            /\ Len(stack') = n /\ stack'[n] = [stack[n] EXCEPT !.i = @ + 1]
            /\ \A k \in 1..(n - 1) : stack'[k] = stack[k]
        <4>1. \A k \in (n + 1)..n : stack[k].i = Chunk
          BY <1>4
        <4>2. stack \in Seq(Frame)
          BY <1>2
        <4> HIDE DEF Frame
        <4> QED
          BY <1>1, <1>3, <1>4, <1>6, <2>4, <3>1, <4>1, <4>2, NextSlotEntries
      <3>3. ASSUME NEW held, Holds(held)' PROVE Scanned(held)'
        <4>1. \A e : e \in ToSet(out) <=> Past(held, e)
          BY <1>3, <2>2, <3>3 DEF Scanned
        <4>2. ASSUME NEW e
              PROVE  Past(held, e)' <=> Past(held, e) \/ Shows(held, stack[n], stack[n].i, e)
          <5>1. /\ n <= Len(stack) /\ Len(stack) \in Nat /\ stack[n] \in Frame /\ call' = call
                /\ Len(stack') = n /\ stack'[n] = [stack[n] EXCEPT !.i = @ + 1]
                /\ \A k \in 1..(n - 1) : stack'[k] = stack[k]
            BY <1>4, <1>5, <3>1, <3>2
          <5> HIDE DEF Frame
          <5>2. Past(held, e)' <=>
                  \/ \E k \in 1..n : \E j \in 0..(stack[k].i - 1) : Shows(held, stack[k], j, e)
                  \/ Shows(held, stack[n], stack[n].i, e)
            BY <5>1, NextSlotPast, Zenon
          <5> QED
            BY <1>4, <5>2, Zenon DEF Past
        <4>3. /\ Id \in Nat
              /\ \A e : Shows(held, stack[n], stack[n].i, e) <=>
                    /\ IsPointer(Slot)
                    /\ e = [id |-> Wrap(Id + call.off), ptr |-> Slot]
          <5>1. Id = Wrap(stack[n].index + stack[n].i * Pow2[stack[n].shift])
            BY <1>5 DEF Id
          <5> DEFINE f == stack[n]
          <5>2. AtSlot(f, Slot, Id) /\ call.off \in Nat
            BY <1>2, <1>5, <1>6, <2>4, <5>1 DEF AtSlot
          <5> HIDE DEF f
          <5>3. Id \in Nat /\ ShowsOnly(held, f, Slot, Id)
            BY <5>2, SlotShows
          <5> QED
            BY <5>3, Zenon DEF f, ShowsOnly
        <4>4. \A e : e \in ToSet(out') <=>
                    e \in ToSet(out) \/ (/\ IsPointer(Slot)
                                         /\ e = [id |-> Wrap(Id + call.off), ptr |-> Slot])
          <5>1. CASE IsPointer(Slot)
            <6>1. [id |-> Wrap(Id + call.off), ptr |-> Slot] \in [id : Nat, ptr : Nat]
              <7>1. Id + call.off \in Nat
                BY <1>2, <4>3
              <7>2. Wrap(Id + call.off) \in Nat
                BY <7>1, WrapsTo
              <7> QED
                BY <1>6, <7>2
            <6>2. out' = Append(out, [id |-> Wrap(Id + call.off), ptr |-> Slot])
              BY <2>1, <5>1
            <6>3. \A e : e \in ToSet(Append(out, [id |-> Wrap(Id + call.off), ptr |-> Slot])) <=>
                       e \in ToSet(out) \/ e = [id |-> Wrap(Id + call.off), ptr |-> Slot]
              <7> DEFINE T == [id : Nat, ptr : Nat]
                         x == [id |-> Wrap(Id + call.off), ptr |-> Slot]
              <7>1. out \in Seq(T) /\ x \in T
                BY <1>2, <6>1
              <7> HIDE DEF T, x
              <7>2. \A e : e \in ToSet(Append(out, x)) <=> e \in ToSet(out) \/ e = x
                BY <7>1, AppendedSet
              <7> QED
                BY <7>2 DEF x
            <6> QED
              BY <5>1, <6>2, <6>3, Zenon
          <5>2. CASE ~IsPointer(Slot)
            BY <2>1, <5>2
          <5> QED
            BY <5>1, <5>2
        <4> QED
          BY <4>1, <4>2, <4>3, <4>4, Zenon DEF Scanned
      <3> QED
        BY <1>1, <1>2, <2>1, <2>4, <3>2, <3>3 DEF EntriesInv
    <2> QED
      BY <2>3, <2>4
  <1> QED
    BY <1>7, <1>8

(* A node that is done has shown what its slot in the node above holds.     *)
LEMMA DoneShows ==
    ASSUME NEW f \in Frame, f.i < Chunk, NEW g \in Frame, call.off \in Nat, NEW held, Holds(held),
           NodesRead, Leads(f, g.node), g.node \in DOMAIN seen,
           g.shift = seen[g.node].shift, g.slots = seen[g.node].slots,
           g.index = Wrap(f.index + f.i * Pow2[f.shift]), NEW e
    PROVE  Shows(held, f, f.i, e) <=> \E j \in 0..(Chunk - 1) : Shows(held, g, j, e)
  <1> DEFINE at == f.i * Pow2[f.shift]
             off == call.off
             index == f.index
             s == f.slots[f.i + 1]
  <1>1. index \in Nat /\ at \in Nat /\ off \in Nat
    <2>1. f.index \in Nat /\ f.i \in Nat /\ Pow2[f.shift] \in Nat
      BY Level DEF Frame
    <2> QED
      BY <2>1, Product
  <1>2. IsNode(s) /\ ~IsPointer(s) /\ g.node = s - 2
    <2>1. f.slots \in [1..Chunk -> Nat] /\ f.i \in Nat /\ Chunk \in Nat
      BY Level DEF Frame
    <2>2. s \in Nat
      BY <2>1
    <2> QED
      BY <2>2, NodesAreNot DEF Leads
  <1>3. \A x, p : SlotHolds(held, f, f.i, x, p) <=> \E y \in Nat : <<y, p>> \in held[g.node] /\ x = at + y
    BY <1>2 DEF SlotHolds
  <1>4. \A j, x, p : SlotHolds(held, g, j, x, p) <=> SlotHolds(held, seen[g.node], j, x, p)
    BY DEF SlotHolds
  <1>5. \A y, p \in Nat : <<y, p>> \in held[g.node] <=> \E j \in 0..(Chunk - 1) : SlotHolds(held, g, j, y, p)
    BY <1>4, Zenon DEF Holds
  <1>6. g.index = Wrap(index + at)
    OBVIOUS
  <1> HIDE DEF at, off, index
  <1>7. ASSUME NEW y \in Nat PROVE Wrap(index + (at + y) + off) = Wrap(g.index + y + off)
    <2>1. index + at \in Nat /\ y + off \in Nat
      BY <1>1
    <2>2. g.index \in Nat /\ Wrap(g.index + (y + off)) = Wrap((index + at) + (y + off))
      BY <1>6, <2>1, WrapAdds
    <2>3. g.index + (y + off) = g.index + y + off
      BY <1>1, <2>2
    <2>4. (index + at) + (y + off) = index + (at + y) + off
      BY <1>1
    <2> QED
      BY <2>2, <2>3, <2>4
  <1>8. ASSUME Shows(held, f, f.i, e) PROVE \E j \in 0..(Chunk - 1) : Shows(held, g, j, e)
    <2>1. PICK x \in Nat, p \in Nat : /\ SlotHolds(held, f, f.i, x, p)
                                      /\ e = [id |-> Wrap(index + x + off), ptr |-> p]
      BY <1>8 DEF Shows, index, off
    <2>2. PICK y \in Nat : <<y, p>> \in held[g.node] /\ x = at + y
      BY <1>3, <2>1
    <2>3. PICK j \in 0..(Chunk - 1) : SlotHolds(held, g, j, y, p)
      BY <1>5, <2>1, <2>2
    <2>4. e = [id |-> Wrap(g.index + y + off), ptr |-> p]
      BY <1>7, <2>1, <2>2
    <2>5. Shows(held, g, j, e)
      BY <2>1, <2>2, <2>3, <2>4, Zenon DEF Shows, off
    <2> QED
      BY <2>5
  <1>9. ASSUME NEW j \in 0..(Chunk - 1), Shows(held, g, j, e) PROVE Shows(held, f, f.i, e)
    <2>1. PICK y \in Nat, p \in Nat : /\ SlotHolds(held, g, j, y, p)
                                      /\ e = [id |-> Wrap(g.index + y + off), ptr |-> p]
      BY <1>9 DEF Shows, off
    <2>2. <<y, p>> \in held[g.node]
      BY <1>5, <2>1
    <2>3. at + y \in Nat
      BY <1>1
    <2>4. SlotHolds(held, f, f.i, at + y, p)
      BY <1>3, <2>2
    <2>5. e = [id |-> Wrap(index + (at + y) + off), ptr |-> p]
      BY <1>7, <2>1
    <2> QED
      BY <2>3, <2>4, <2>5, Zenon DEF Shows, index, off
  <1> QED
    BY <1>8, <1>9

LEMMA XaReturnEntries ==
    ASSUME WalkInv, EntriesInv, XaReturn
    PROVE  EntriesInv'
  <1>1. pc = "slots" /\ Top.i = Chunk
    BY DEF XaReturn
  <1>2. /\ call.fn = "idr" /\ IsNode(call.first) /\ call.off \in Nat
        /\ stack \in Seq(Frame) /\ stack # <<>> /\ Path
    BY <1>1, XaGoesOn
  <1>3. NodesRead /\ Opened /\ Closed /\ \A held : Holds(held) => Scanned(held)
    BY <1>1, EntriesGoOn
  <1>4. PICK n \in Nat \ {0} : n = Len(stack)
    BY <1>2, FrontLast
  <1>5. Top = stack[n] /\ stack[n] \in Frame /\ stack[n].i = Chunk
    <2>1. stack \in Seq(Frame) /\ stack # <<>>
      BY <1>2
    <2> QED
      BY <1>1, <1>4, <2>1, FrontLast DEF Top
  <1>6. CASE n = 1
    <2>1. /\ pc' = "done" /\ rc' = "ok"
          /\ UNCHANGED <<call, node, parent, stack, visited, seen, steps, out>>
      BY <1>4, <1>6 DEF XaReturn, Return
    <2>2. NodesRead' /\ Closed' /\ \A held : Holds(held)' => Scanned(held)'
      BY <1>3, <2>1, FramesStay DEF Scanned
    <2>3. Opened'
      BY <1>3, <2>1 DEF Opened, Leads, At, Wrap, TopNode
    <2> QED
      BY <1>2, <1>4, <1>5, <1>6, <2>1, <2>2, <2>3 DEF EntriesInv
  <1>7. CASE n # 1
    <2> DEFINE m == n - 1
    <2>1. /\ stack' = NextSlot(Front(stack))
          /\ UNCHANGED <<pc, call, node, parent, visited, seen, steps, out, rc>>
      BY <1>4, <1>7 DEF XaReturn
    <2>2. /\ m \in Nat \ {0} /\ m <= n /\ n = m + 1 /\ n \in Nat
          /\ m \in 1..(n - 1) /\ n \in 1..n /\ m \in 1..n
      BY <1>4, <1>7
    <2>3. /\ Front(stack) \in Seq(Frame) /\ Len(Front(stack)) = m
          /\ \A k \in 1..m : Front(stack)[k] = stack[k]
      <3>1. stack \in Seq(Frame) /\ stack # <<>>
        BY <1>2
      <3> QED
        BY <1>4, <3>1, FrontLast
    <2> HIDE DEF m
    <2>4. stack[m] \in Frame
      <3>1. stack \in Seq(Frame)
        BY <1>2
      <3> HIDE DEF Frame
      <3> QED
        BY <1>4, <2>2, <3>1, ElementOfSeq
    <2>5. stack[m].i < Chunk /\ stack[m].shift = stack[n].shift + ChunkShift
      BY <1>2, <1>4, <2>2 DEF Path
    <2>6. /\ Leads(stack[m], stack[n].node) /\ stack[n].index = Wrap(At(m))
          /\ stack[n].node \in DOMAIN seen /\ stack[n].shift = seen[stack[n].node].shift
          /\ stack[n].slots = seen[stack[n].node].slots
          /\ stack[m].shift = seen[stack[m].node].shift
      BY <1>3, <1>4, <2>2 DEF Opened
    <2>7. /\ NodesRead' /\ Opened' /\ Closed'
          /\ Len(stack') = m /\ stack'[m] = [stack[m] EXCEPT !.i = @ + 1]
          /\ \A k \in 1..(m - 1) : stack'[k] = stack[k]
      <3>1. \A k \in (m + 1)..n : stack[k].i = Chunk
        <4>1. \A k \in (m + 1)..n : k = n
          BY <2>2
        <4> QED
          BY <1>5, <4>1
      <3>2. Under(stack[m].node, stack[m].slots[stack[m].i + 1] - 2)
        BY <2>5, <2>6 DEF Leads, Under
      <3>3. stack \in Seq(Frame) /\ pc # "xa" /\ UNCHANGED <<pc, call, seen>>
        BY <1>1, <1>2, <2>1
      <3> HIDE DEF Frame
      <3> QED
        BY <1>3, <1>4, <2>1, <2>2, <2>3, <3>1, <3>2, <3>3, NextSlotEntries
    <2>8. ASSUME NEW held, Holds(held)' PROVE Scanned(held)'
      <3>1. Holds(held)
        BY <2>1, <2>8 DEF Holds
      <3>2. \A e : e \in ToSet(out) <=> Past(held, e)
        BY <1>3, <3>1 DEF Scanned
      <3>3. ASSUME NEW e PROVE Past(held, e)' <=> Past(held, e)
        <4>1. Past(held, e)' <=>
                 \/ \E k \in 1..m : \E j \in 0..(stack[k].i - 1) : Shows(held, stack[k], j, e)
                 \/ Shows(held, stack[m], stack[m].i, e)
          <5>1. m <= Len(stack) /\ Len(stack) \in Nat /\ call' = call
            BY <1>4, <2>1, <2>2
          <5> HIDE DEF Frame
          <5> QED
            BY <2>2, <2>4, <2>7, <5>1, NextSlotPast, Zenon
        <4>2. Shows(held, stack[m], stack[m].i, e) <=>
                 \E j \in 0..(stack[n].i - 1) : Shows(held, stack[n], j, e)
          <5>1. stack[n].index = Wrap(stack[m].index + stack[m].i * Pow2[stack[m].shift])
            BY <2>6 DEF At
          <5> HIDE DEF Frame
          <5> QED
            BY <1>2, <1>3, <1>5, <2>4, <2>5, <2>6, <3>1, <5>1, DoneShows
        <4>3. \A k : k \in 1..n <=> k \in 1..m \/ k = n
          BY <2>2
        <4> QED
          BY <1>4, <4>1, <4>2, <4>3, Zenon DEF Past
      <3> QED
        BY <2>1, <3>2, <3>3, Zenon DEF Scanned
    <2> QED
      BY <1>1, <1>2, <2>1, <2>7, <2>8 DEF EntriesInv
  <1> QED
    BY <1>6, <1>7

(* A walk that starts has read nothing; a lone entry needs no walk.         *)
LEMMA WalkIdrEntries ==
    ASSUME WalkInv, NEW laid, NEW root \in Heads, NEW base \in Bases, NEW max \in Wanted,
           NEW limited, WalkIdr(laid, root, base, max, limited)
    PROVE  EntriesInv'
  <1> DEFINE c(head) == [fn |-> "idr", root |-> root, first |-> head, max |-> max, off |-> base,
                         limited |-> limited]
  <1>1. PICK head \in Reads(Words, root) :
            IF ~laid \/ ~KernelVa(root) \/ head = Unmapped \/ base = Unmapped
            THEN Answer([c(head) EXCEPT !.first = 0], <<>>, "refused")
            ELSE IF IsNode(head)
            THEN Begin(c(head), "xa", head - 2) /\ out' = <<>> /\ rc' = "ok"
            ELSE IF IsPointer(head) /\ Clamped(max) = 0
            THEN Answer(c(head), <<>>, "cap")
            ELSE Answer(c(head), IF IsPointer(head) THEN <<[id |-> base, ptr |-> head]>> ELSE <<>>,
                        "ok")
    BY DEF WalkIdr
  <1>2. CASE ~laid \/ ~KernelVa(root) \/ head = Unmapped \/ base = Unmapped
    BY <1>1, <1>2 DEF Answer, EntriesInv
  <1>3. CASE ~(~laid \/ ~KernelVa(root) \/ head = Unmapped \/ base = Unmapped)
    <2>1. CASE IsNode(head)
      <3>1. Begin(c(head), "xa", head - 2) /\ out' = <<>> /\ rc' = "ok"
        BY <1>1, <1>3, <2>1
      <3>2. /\ stack' = <<>> /\ seen' = <<>> /\ call' = c(head) /\ pc' = "xa" /\ out' = <<>>
        BY <3>1, BeginKeeps
      <3>3. call'.first = head
        BY <3>2
      <3> HIDE DEF c
      <3>4. NodesRead' /\ Opened' /\ Closed'
        BY <3>2 DEF NodesRead, Opened, Closed
      <3>5. ASSUME NEW held PROVE Scanned(held)'
        <4>1. \A e : ~Past(held, e)'
          BY <3>2 DEF Past
        <4>2. \A e : e \notin ToSet(out')
          BY <3>2 DEF ToSet
        <4> QED
          BY <4>1, <4>2 DEF Scanned
      <3> QED
        BY <2>1, <3>2, <3>3, <3>4, <3>5 DEF EntriesInv
    <2>2. CASE ~IsNode(head) /\ IsPointer(head) /\ Clamped(max) = 0
      BY <1>1, <1>3, <2>2 DEF Answer, EntriesInv
    <2>3. CASE ~IsNode(head) /\ ~(IsPointer(head) /\ Clamped(max) = 0)
      <3>1. /\ call' = c(head) /\ pc' = "done"
            /\ out' = IF IsPointer(head) THEN <<[id |-> base, ptr |-> head]>> ELSE <<>>
        BY <1>1, <1>3, <2>3 DEF Answer, Begin
      <3>2. call'.first = head /\ call'.off = base
        BY <3>1
      <3> HIDE DEF c
      <3>3. ToSet(out') = IF IsPointer(head) THEN {[id |-> base, ptr |-> head]} ELSE {}
        BY <3>1 DEF ToSet
      <3>4. ToSet(out') = Lone'
        BY <3>2, <3>3 DEF Lone
      <3> QED
        BY <2>3, <3>1, <3>2, <3>4 DEF EntriesInv
    <2> QED
      BY <2>1, <2>2, <2>3
  <1> QED
    BY <1>2, <1>3

LEMMA EntriesStay ==
    ASSUME EntriesInv, UNCHANGED walkVars
    PROVE  EntriesInv'
  <1>1. UNCHANGED <<pc, call, node, stack, seen, out, rc>>
    BY DEF walkVars
  <1>2. NodesRead' <=> NodesRead
    BY <1>1, FramesStay
  <1>3. Closed' <=> Closed
    BY <1>1, FramesStay
  <1>4. Opened' <=> Opened
    BY <1>1 DEF Opened, Leads, At, Wrap, TopNode
  <1>5. (\A held : Holds(held) => Scanned(held)) => (\A held : Holds(held)' => Scanned(held)')
    BY <1>1, FramesStay DEF Scanned
  <1>6. Lone' = Lone
    BY <1>1 DEF Lone
  <1> QED
    BY <1>1, <1>2, <1>3, <1>4, <1>5, <1>6 DEF EntriesInv

LEMMA EntriesStep ==
    ASSUME WalkInv, EntriesInv, AnyWalk
    PROVE  EntriesInv'
  <1>1. PICK offsets, rb, idr, percpu : WalksNext(offsets, rb, idr, percpu)
    BY DEF AnyWalk
  <1>2. CASE Taken
    BY <1>2 DEF Taken, NoCall, EntriesInv
  <1>3. CASE WalkStep
    <2>1. CASE Refused \/ BudgetGone
      BY <2>1 DEF Refused, BudgetGone, Return, EntriesInv
    <2>2. CASE ProbesForever \/ ReadLink \/ LinksEnd \/ ReadRb \/ PopRb
      <3>1. call' = call
        BY <2>2 DEF ProbesForever, ReadLink, LinksEnd, ReadRb, PopRb, Return, Unusable
      <3>2. call.fn # "idr"
        <4>1. CASE ProbesForever
          <5>1. pc \in {"rb", "probing"}
            BY <4>1, OnlyTreesProbe DEF ProbesForever
          <5> QED
            BY <5>1 DEF WalkInv, WalkShape
        <4>2. CASE ReadLink \/ LinksEnd \/ ReadRb \/ PopRb
          BY <4>2 DEF ReadLink, LinksEnd, ReadRb, PopRb, WalkInv, WalkShape
        <4> QED
          BY <2>2, <4>1, <4>2
      <3> QED
        BY <3>1, <3>2 DEF EntriesInv
    <2> QED
      BY <1>3, <2>1, <2>2, ReadXaEntries, XaSlotEntries, XaReturnEntries DEF WalkStep
  <1>4. CASE Call(offsets, rb, idr, percpu)
    <2>1. CASE call'.fn # "idr"
      BY <2>1 DEF EntriesInv
    <2>2. ASSUME NEW fn \in {"list", "hlist"}, NEW root, NEW max, NEW limited, NEW off,
                 WalkLinks(fn, root, off, max, limited)
          PROVE  call'.fn # "idr"
      BY <2>2 DEF WalkLinks, Answer, Begin
    <2>3. ASSUME NEW root, NEW max, NEW limited, WalkRbtree(rb, root, max, limited)
          PROVE  call'.fn # "idr"
      BY <2>3 DEF WalkRbtree, Answer, Begin
    <2>4. ASSUME NEW a, NEW b, ReadMany(<<a, b>>) PROVE call'.fn # "idr"
      BY <2>4 DEF ReadMany, Answer, Begin, NoCall
    <2>5. ASSUME NEW known, NEW symb, NEW cpu, PercpuAddr(known, symb, cpu)
          PROVE  call'.fn # "idr"
      BY <2>5 DEF PercpuAddr, Answer, Begin, NoCall
    <2>6. ASSUME NEW root \in Heads, NEW base \in Bases, NEW max \in Wanted,
                 NEW limited \in BOOLEAN, WalkIdr(idr, root, base, max, limited)
          PROVE  EntriesInv'
      BY <2>6, WalkIdrEntries
    <2> QED
      BY <1>4, <2>1, <2>2, <2>3, <2>4, <2>5, <2>6 DEF Call
  <1> QED
    BY <1>1, <1>2, <1>3, <1>4 DEF WalksNext

(* Of any walk of an idr, what was found is what the xarray of the memory   *)
(* that was read holds in the slots the walk is past.                       *)
THEOREM EntryWalks == AnyWalks => []EntriesInv
  <1>1. WalksInit => EntriesInv
    BY DEF WalksInit, NoCall, EntriesInv
  <1>2. WalkInv /\ EntriesInv /\ [AnyWalk]_walkVars => EntriesInv'
    BY EntriesStay, EntriesStep
  <1> QED
    BY <1>1, <1>2, Walks, PTL DEF AnyWalks

-----------------------------------------------------------------------------
(* XaLoad by its equation: f[d][a] is what an index is found to have below  *)
(* the node a, in d levels.                                                 *)
SlotOf(a, x) == seen[a].slots[((x \div Pow2[seen[a].shift]) % Chunk) + 1]

LoadOne(f, x, d, a) ==
    IF IsNode(SlotOf(a, x)) /\ d > 0 THEN f[d - 1][SlotOf(a, x) - 2]
    ELSE [ptr |-> SlotOf(a, x), first |-> (x % Pow2[seen[a].shift]) = 0]

LoadStep(f, x, d) == [a \in DOMAIN seen |-> LoadOne(f, x, d, a)]

LoadTo(x, n, f) == f = [d \in 0..n |-> LoadStep(f, x, d)]

LEMMA LoadExists ==
    ASSUME NEW x, NEW n \in Nat
    PROVE  \E f : LoadTo(x, n, f)
  <1> DEFINE S == {k \in Nat : \E f : LoadTo(x, k, f)}
  <1>1. 0 \in S
    <2> DEFINE g == [d \in 0..0 |-> LoadStep(<<>>, x, 0)]
    <2>1. \A f : LoadStep(f, x, 0) = LoadStep(<<>>, x, 0)
      BY DEF LoadStep, LoadOne
    <2>2. g = [d \in 0..0 |-> LoadStep(g, x, d)]
      <3>1. \A d \in 0..0 : LoadStep(g, x, d) = LoadStep(<<>>, x, 0)
        BY <2>1
      <3> QED
        BY <3>1
    <2> HIDE DEF g
    <2>3. LoadTo(x, 0, g)
      BY <2>2 DEF LoadTo
    <2> QED
      BY <2>3
  <1>2. ASSUME NEW k \in S PROVE k + 1 \in S
    <2>1. PICK f : LoadTo(x, k, f)
      OBVIOUS
    <2> DEFINE g == [d \in 0..(k + 1) |-> IF d = k + 1 THEN LoadStep(f, x, k + 1) ELSE f[d]]
    <2>2. ASSUME NEW d \in 0..(k + 1) PROVE g[d] = LoadStep(g, x, d)
      <3>1. d > 0 => g[d - 1] = f[d - 1]
        OBVIOUS
      <3>2. g[d] = LoadStep(f, x, d)
        BY <2>1 DEF LoadTo
      <3>3. \A a \in DOMAIN seen : LoadOne(f, x, d, a) = LoadOne(g, x, d, a)
        BY <3>1 DEF LoadOne
      <3> HIDE DEF g
      <3>4. LoadStep(f, x, d) = LoadStep(g, x, d)
        BY <3>3 DEF LoadStep
      <3> QED
        BY <3>2, <3>4
    <2>3. g = [d \in 0..(k + 1) |-> g[d]]
      OBVIOUS
    <2> HIDE DEF g
    <2>4. LoadTo(x, k + 1, g)
      BY <2>2, <2>3 DEF LoadTo
    <2> QED
      BY <2>4
  <1> HIDE DEF S
  <1>3. S = Nat
    BY <1>1, <1>2, NatInduct DEF S
  <1> QED
    BY <1>3 DEF S

(* The one the model chooses is a solution.                                 *)
Loads(x) == CHOOSE f : LoadTo(x, ShiftLimit, f)

LEMMA XaLoadIs ==
    ASSUME NEW x
    PROVE  LoadTo(x, ShiftLimit, Loads(x)) /\ XaLoad(x) = Loads(x)[ShiftLimit][TopNode]
  <1>1. LoadTo(x, ShiftLimit, Loads(x))
    BY LoadExists, WalkBounds DEF Loads
  <1>2. XaLoad(x) = Loads(x)[ShiftLimit][TopNode]
    BY DEF XaLoad, Loads, LoadTo, LoadStep, LoadOne, SlotOf, TopNode
  <1> QED
    BY <1>1, <1>2

(* Every node of the xarray was read, each one level below the one above.   *)
Whole ==
    /\ NodesRead
    /\ \A a \in DOMAIN seen, j \in 0..(Chunk - 1) :
          IsNode(seen[a].slots[j + 1]) => Under(a, seen[a].slots[j + 1] - 2)

(* A lookup depends on the index only as far as the node reaches, and not   *)
(* on the levels left, if there are enough; what it finds is a slot's word. *)
Reach(a) == Chunk * Pow2[seen[a].shift]

Agrees(a) ==
    \A x, y \in Nat, d, e \in seen[a].shift..ShiftLimit :
        x % Reach(a) = y % Reach(a) =>
            Loads(x)[d][a] = Loads(y)[e][a] /\ Loads(x)[d][a].ptr \in Nat

LEMMA SlotsOf ==
    ASSUME Whole, NEW a \in DOMAIN seen, NEW x \in Nat
    PROVE  /\ seen[a].shift \in Nat /\ seen[a].shift < ShiftLimit
           /\ Pow2[seen[a].shift] \in Nat \ {0} /\ Reach(a) \in Nat \ {0}
           /\ (x \div Pow2[seen[a].shift]) % Chunk \in 0..(Chunk - 1)
           /\ SlotOf(a, x) \in Nat
           /\ IsNode(SlotOf(a, x)) =>
                 /\ SlotOf(a, x) - 2 \in DOMAIN seen
                 /\ seen[SlotOf(a, x) - 2].shift \in Nat
                 /\ seen[a].shift = seen[SlotOf(a, x) - 2].shift + ChunkShift
                 /\ seen[SlotOf(a, x) - 2].shift < seen[a].shift
                 /\ Reach(SlotOf(a, x) - 2) = Pow2[seen[a].shift]
  <1> DEFINE P == Pow2[seen[a].shift]
             j == (x \div P) % Chunk
  <1>1. /\ seen[a].shift \in Nat /\ seen[a].shift < ShiftLimit
        /\ seen[a].slots \in [1..Chunk -> Nat]
    BY DEF Whole, NodesRead
  <1>2. P \in Nat \ {0} /\ Chunk \in Nat \ {0}
    BY <1>1, Level
  <1>3. Reach(a) \in Nat \ {0}
    BY <1>2, DividesTwice DEF Reach
  <1>4. j \in 0..(Chunk - 1)
    <2>1. x \div P \in Nat
      BY <1>2, Divides
    <2> QED
      BY <1>2, <2>1, Divides
  <1>5. SlotOf(a, x) = seen[a].slots[j + 1]
    BY DEF SlotOf
  <1> HIDE DEF j
  <1>6. SlotOf(a, x) \in Nat
    BY <1>1, <1>2, <1>4, <1>5
  <1>7. ASSUME IsNode(SlotOf(a, x))
        PROVE  /\ SlotOf(a, x) - 2 \in DOMAIN seen
               /\ seen[SlotOf(a, x) - 2].shift \in Nat
               /\ seen[a].shift = seen[SlotOf(a, x) - 2].shift + ChunkShift
               /\ seen[SlotOf(a, x) - 2].shift < seen[a].shift
               /\ Reach(SlotOf(a, x) - 2) = Pow2[seen[a].shift]
    <2>1. Under(a, SlotOf(a, x) - 2)
      BY <1>4, <1>5, <1>7 DEF Whole
    <2>2. /\ SlotOf(a, x) - 2 \in DOMAIN seen
          /\ seen[SlotOf(a, x) - 2].shift \in Nat
          /\ seen[a].shift = seen[SlotOf(a, x) - 2].shift + ChunkShift
      BY <2>1 DEF Under, Whole, NodesRead
    <2>3. seen[SlotOf(a, x) - 2].shift < seen[a].shift
      BY <2>2, WalkBounds
    <2> QED
      BY <2>2, <2>3, Level DEF Reach
  <1> QED
    BY <1>1, <1>2, <1>3, <1>4, <1>6, <1>7 DEF j

LEMMA LoadIs ==
    ASSUME NEW a \in DOMAIN seen, NEW x, NEW d \in 0..ShiftLimit
    PROVE  Loads(x)[d][a] = LoadOne(Loads(x), x, d, a)
  <1>1. LoadTo(x, ShiftLimit, Loads(x))
    BY XaLoadIs
  <1>2. Loads(x)[d] = LoadStep(Loads(x), x, d)
    BY <1>1, WalkBounds DEF LoadTo
  <1> QED
    BY <1>2 DEF LoadStep

(* One node, once the nodes below it agree.                                 *)
LEMMA LoadAgrees ==
    ASSUME Whole, NEW a \in DOMAIN seen,
           \A c \in DOMAIN seen : seen[c].shift < seen[a].shift => Agrees(c)
    PROVE  Agrees(a)
  <1> SUFFICES ASSUME NEW x \in Nat, NEW y \in Nat,
                      NEW d \in seen[a].shift..ShiftLimit, NEW e \in seen[a].shift..ShiftLimit,
                      x % Reach(a) = y % Reach(a)
               PROVE  Loads(x)[d][a] = Loads(y)[e][a] /\ Loads(x)[d][a].ptr \in Nat
    BY DEF Agrees
  <1> DEFINE P == Pow2[seen[a].shift]
             s == SlotOf(a, x)
  <1>1. /\ seen[a].shift \in Nat /\ P \in Nat \ {0} /\ Chunk \in Nat \ {0} /\ s \in Nat
        /\ ShiftLimit \in Nat /\ d \in Nat /\ e \in Nat /\ d <= ShiftLimit /\ e <= ShiftLimit
    BY SlotsOf, Level, WalkBounds
  <1>2. x % P = y % P /\ SlotOf(a, y) = s
    <2>1. Reach(a) = Chunk * P
      BY DEF Reach
    <2> HIDE DEF P
    <2>2. Alike(x, y, Chunk, P)
      BY <1>1, <2>1, SameSlot
    <2> QED
      BY <2>2, Zenon DEF SlotOf, P, Alike
  <1>3. d \in 0..ShiftLimit /\ e \in 0..ShiftLimit
    BY <1>1
  <1>4. /\ Loads(x)[d][a] = LoadOne(Loads(x), x, d, a)
        /\ Loads(y)[e][a] = LoadOne(Loads(y), y, e, a)
    BY <1>3, LoadIs
  <1>5. CASE ~IsNode(s)
    <2>1. /\ LoadOne(Loads(x), x, d, a) = [ptr |-> s, first |-> (x % P) = 0]
          /\ LoadOne(Loads(y), y, e, a) = [ptr |-> s, first |-> (y % P) = 0]
      BY <1>2, <1>5 DEF LoadOne
    <2> HIDE DEF P, s
    <2> QED
      BY <1>1, <1>2, <1>4, <2>1
  <1>6. CASE IsNode(s)
    <2> DEFINE c == s - 2
    <2>1. /\ c \in DOMAIN seen /\ seen[c].shift \in Nat /\ Reach(c) = P
          /\ seen[a].shift = seen[c].shift + ChunkShift /\ seen[c].shift < seen[a].shift
      BY <1>6, SlotsOf
    <2>2. d > 0 /\ e > 0 /\ d - 1 \in seen[c].shift..ShiftLimit /\ e - 1 \in seen[c].shift..ShiftLimit
      BY <1>1, <2>1
    <2>3. /\ LoadOne(Loads(x), x, d, a) = Loads(x)[d - 1][c]
          /\ LoadOne(Loads(y), y, e, a) = Loads(y)[e - 1][c]
      BY <1>2, <1>6, <2>2 DEF LoadOne
    <2>4. Agrees(c)
      BY <2>1
    <2> HIDE DEF P, s, c
    <2>5. Loads(x)[d - 1][c] = Loads(y)[e - 1][c] /\ Loads(x)[d - 1][c].ptr \in Nat
      BY <1>2, <2>1, <2>2, <2>4 DEF Agrees
    <2> QED
      BY <1>4, <2>3, <2>5
  <1> QED
    BY <1>5, <1>6

LEMMA AllAgree ==
    ASSUME Whole
    PROVE  \A a \in DOMAIN seen : Agrees(a)
  <1> DEFINE S == {seen[a].shift : a \in {c \in DOMAIN seen : ~Agrees(c)}}
  <1>1. S \in SUBSET Nat
    BY DEF Whole, NodesRead
  <1> SUFFICES ASSUME S # {} PROVE FALSE
    OBVIOUS
  <1>2. PICK n \in S : \A m \in S : n <= m
    <2> HIDE DEF S
    <2> QED
      BY <1>1, LeastNat
  <1>3. PICK a \in DOMAIN seen : ~Agrees(a) /\ seen[a].shift = n
    BY <1>2
  <1>4. ASSUME NEW c \in DOMAIN seen, seen[c].shift < seen[a].shift PROVE Agrees(c)
    <2>1. seen[c].shift \notin S
      <3>1. seen[c].shift \in Nat /\ n \in Nat /\ ~(n <= seen[c].shift)
        BY <1>1, <1>3, <1>4 DEF Whole, NodesRead
      <3> HIDE DEF S
      <3> QED
        BY <1>2, <3>1
    <2> QED
      BY <2>1
  <1> QED
    BY <1>3, <1>4, LoadAgrees

-----------------------------------------------------------------------------
(* What a lookup within a node finds, and the entries that gives the node.  *)
Lookup(a, x) == Loads(x)[seen[a].shift][a]

Entered(a, x) == Lookup(a, x).first /\ IsPointer(Lookup(a, x).ptr)

Held == [a \in DOMAIN seen |->
            {<<x, Lookup(a, x).ptr>> : x \in {y \in 0..(Reach(a) - 1) : Entered(a, y)}}]

LEMMA LookupIs ==
    ASSUME Whole, NEW a \in DOMAIN seen, NEW x \in Nat
    PROVE  /\ Lookup(a, x).ptr \in Nat
           /\ ~IsNode(SlotOf(a, x)) =>
                 Lookup(a, x) = [ptr |-> SlotOf(a, x), first |-> (x % Pow2[seen[a].shift]) = 0]
           /\ IsNode(SlotOf(a, x)) =>
                 Lookup(a, x) = Lookup(SlotOf(a, x) - 2, x % Pow2[seen[a].shift])
  <1> DEFINE d == seen[a].shift
             s == SlotOf(a, x)
             P == Pow2[d]
  <1>1. /\ d \in Nat /\ d < ShiftLimit /\ ShiftLimit \in Nat /\ P \in Nat \ {0}
        /\ d \in 0..ShiftLimit /\ d \in seen[a].shift..ShiftLimit
    <2>1. d \in Nat /\ d < ShiftLimit /\ P \in Nat \ {0} /\ ShiftLimit \in Nat
      BY SlotsOf, WalkBounds
    <2> QED
      BY <2>1
  <1>2. Lookup(a, x) = LoadOne(Loads(x), x, d, a)
    BY <1>1, LoadIs DEF Lookup
  <1>3. Lookup(a, x).ptr \in Nat
    BY <1>1, AllAgree DEF Agrees, Lookup
  <1>4. ASSUME ~IsNode(s) PROVE Lookup(a, x) = [ptr |-> s, first |-> (x % P) = 0]
    BY <1>2, <1>4 DEF LoadOne
  <1>5. ASSUME IsNode(s) PROVE Lookup(a, x) = Lookup(s - 2, x % P)
    <2> DEFINE c == s - 2
               y == x % P
    <2>1. /\ c \in DOMAIN seen /\ seen[c].shift \in Nat /\ Reach(c) = P
          /\ seen[c].shift < d /\ Agrees(c)
      BY <1>5, SlotsOf, AllAgree
    <2>2. d > 0 /\ d - 1 \in seen[c].shift..ShiftLimit
          /\ seen[c].shift \in seen[c].shift..ShiftLimit
      BY <1>1, <2>1
    <2>3. Lookup(a, x) = Loads(x)[d - 1][c]
      BY <1>2, <1>5, <2>2 DEF LoadOne
    <2> HIDE DEF d, P, c
    <2>4. y \in Nat /\ y % P = x % P
      <3>1. ((x % P) + 0) % P = (x + 0) % P
        BY <1>1, SameRest
      <3>2. x % P \in Nat
        BY <1>1, Divides
      <3> QED
        BY <3>1, <3>2
    <2> HIDE DEF y
    <2>5. Loads(x)[d - 1][c] = Loads(y)[seen[c].shift][c]
      BY <2>1, <2>2, <2>4 DEF Agrees
    <2> QED
      BY <2>3, <2>5 DEF Lookup, c, y
  <1> QED
    BY <1>3, <1>4, <1>5

(* An index within a node is a slot of it and the rest within the slot.     *)
Splits(x, C, P, j, y) ==
    /\ x = j * P + y /\ (x \div P) % C = j /\ x % P = y

LEMMA IndexSplits ==
    ASSUME NEW C \in Nat \ {0}, NEW P \in Nat \ {0}, NEW x \in Nat, x < C * P
    PROVE  \E j \in 0..(C - 1), y \in 0..(P - 1) : Splits(x, C, P, j, y)
  <1> DEFINE j == x \div P
             y == x % P
  <1>1. j \in Nat /\ y \in Nat /\ y < P /\ x = P * j + y
    BY Divides
  <1> HIDE DEF j, y
  <1>2. j < C
    <2>1. SUFFICES ASSUME C <= j PROVE FALSE
      BY <1>1
    <2>2. C * P <= j * P
      BY <1>1, <2>1, Product
    <2> QED
      BY <1>1, <2>2
  <1>3. j % C = j
    BY <1>1, <1>2
  <1>4. j * P = P * j
    BY <1>1
  <1>5. Splits(x, C, P, j, y)
    BY <1>1, <1>3, <1>4, Zenon DEF Splits, j, y
  <1>6. j \in 0..(C - 1) /\ y \in 0..(P - 1)
    BY <1>1, <1>2
  <1> QED
    BY <1>5, <1>6

LEMMA SplitsIndex ==
    ASSUME NEW C \in Nat \ {0}, NEW P \in Nat \ {0}, NEW j \in 0..(C - 1), NEW y \in 0..(P - 1)
    PROVE  /\ j * P + y \in 0..(C * P - 1)
           /\ Splits(j * P + y, C, P, j, y)
  <1> DEFINE x == j * P + y
  <1>1. x = P * j + y /\ j \in Nat /\ y \in Nat /\ y < P /\ j < C
    OBVIOUS
  <1>2. j * P + P <= C * P /\ j * P \in Nat /\ C * P \in Nat
    BY <1>1, Product
  <1>3. x \in 0..(C * P - 1)
    BY <1>1, <1>2
  <1> HIDE DEF x
  <1>4. x \div P = j /\ x % P = y
    BY <1>1, DividesOnce
  <1>5. j % C = j
    BY <1>1
  <1>6. Splits(x, C, P, j, y)
    BY <1>4, <1>5, Zenon DEF Splits, x
  <1> QED
    BY <1>3, <1>6 DEF x

LEMMA FoundFields ==
    ASSUME NEW s, NEW y, NEW r, r = [ptr |-> s, first |-> y = 0]
    PROVE  r.ptr = s /\ (r.first <=> y = 0)
  OBVIOUS

(* What the lookups find satisfies the equation of an xarray.               *)
LEMMA HeldHolds ==
    ASSUME Whole
    PROVE  Holds(Held)
  <1> SUFFICES ASSUME NEW a \in DOMAIN seen, NEW x \in Nat, NEW p \in Nat
               PROVE  <<x, p>> \in Held[a] <=>
                        \E j \in 0..(Chunk - 1) : SlotHolds(Held, seen[a], j, x, p)
    BY DEF Holds
  <1> DEFINE P == Pow2[seen[a].shift]
  <1>1. P \in Nat \ {0} /\ Chunk \in Nat \ {0} /\ Reach(a) = Chunk * P /\ Reach(a) \in Nat \ {0}
    BY SlotsOf, Level DEF Reach
  <1>2. \A c \in DOMAIN seen : \A y, q :
            <<y, q>> \in Held[c] <=> y \in 0..(Reach(c) - 1) /\ Entered(c, y) /\ q = Lookup(c, y).ptr
    BY DEF Held
  <1>3. ASSUME NEW j \in 0..(Chunk - 1), NEW y \in 0..(P - 1), NEW z \in Nat, Splits(z, Chunk, P, j, y)
        PROVE  /\ SlotOf(a, z) = seen[a].slots[j + 1] /\ SlotOf(a, z) \in Nat
               /\ z = j * P + y
               /\ ~IsNode(SlotOf(a, z)) => Lookup(a, z) = [ptr |-> SlotOf(a, z), first |-> y = 0]
               /\ IsNode(SlotOf(a, z)) =>
                     /\ Lookup(a, z) = Lookup(SlotOf(a, z) - 2, y)
                     /\ SlotOf(a, z) - 2 \in DOMAIN seen /\ Reach(SlotOf(a, z) - 2) = P
    <2>1. (z \div P) % Chunk = j /\ z % P = y /\ z = j * P + y
      BY <1>3, Zenon DEF Splits
    <2>2. SlotOf(a, z) = seen[a].slots[j + 1]
      BY <2>1, Zenon DEF SlotOf
    <2> QED
      BY <2>1, <2>2, SlotsOf, LookupIs
  <1> HIDE DEF P
  <1>4. ASSUME <<x, p>> \in Held[a]
        PROVE  \E j \in 0..(Chunk - 1) : SlotHolds(Held, seen[a], j, x, p)
    <2>1. x \in 0..(Reach(a) - 1) /\ Entered(a, x) /\ p = Lookup(a, x).ptr
      BY <1>2, <1>4
    <2>2. x < Chunk * P
      BY <1>1, <2>1
    <2>3. PICK j \in 0..(Chunk - 1), y \in 0..(P - 1) : Splits(x, Chunk, P, j, y)
      BY <1>1, <2>2, IndexSplits
    <2> DEFINE s == SlotOf(a, x)
    <2>4. s = seen[a].slots[j + 1] /\ s \in Nat /\ x = j * P + y
      BY <1>3, <2>3
    <2>5. CASE IsNode(s)
      <3>1. Lookup(a, x) = Lookup(s - 2, y) /\ s - 2 \in DOMAIN seen /\ Reach(s - 2) = P
        BY <1>3, <2>3, <2>5
      <3>2. Entered(s - 2, y) /\ p = Lookup(s - 2, y).ptr /\ y \in 0..(Reach(s - 2) - 1)
        BY <2>1, <3>1 DEF Entered
      <3> HIDE DEF s
      <3>3. <<y, p>> \in Held[s - 2]
        BY <1>2, <3>1, <3>2
      <3>4. y \in Nat
        OBVIOUS
      <3>5. SlotHolds(Held, seen[a], j, x, p)
        BY <2>4, <2>5, <3>3, <3>4, Zenon DEF SlotHolds, P
      <3> QED
        BY <3>5
    <2>6. CASE ~IsNode(s)
      <3>1. Lookup(a, x) = [ptr |-> s, first |-> y = 0]
        BY <1>3, <2>3, <2>6
      <3>2. IsPointer(s) /\ p = s /\ y = 0
        <4>1. Lookup(a, x).ptr = s /\ (Lookup(a, x).first <=> y = 0)
          BY <3>1, FoundFields, Zenon
        <4> QED
          BY <2>1, <4>1, Zenon DEF Entered
      <3>3. j * P \in Nat
        BY <1>1, Product
      <3>4. x = j * P
        BY <2>4, <3>2, <3>3
      <3>5. SlotHolds(Held, seen[a], j, x, p)
        BY <2>4, <3>2, <3>4, Zenon DEF SlotHolds, P
      <3> QED
        BY <3>5
    <2> QED
      BY <2>5, <2>6
  <1>5. ASSUME NEW j \in 0..(Chunk - 1), SlotHolds(Held, seen[a], j, x, p)
        PROVE  <<x, p>> \in Held[a]
    <2> DEFINE s == seen[a].slots[j + 1]
    <2>1. CASE IsPointer(s) /\ p = s /\ x = j * P
      <3>1. 0 \in 0..(P - 1) /\ j * P \in Nat
        BY <1>1, Product
      <3>2. x = j * P + 0
        BY <2>1, <3>1
      <3>3. x \in 0..(Chunk * P - 1) /\ Splits(x, Chunk, P, j, 0)
        BY <1>1, <3>1, <3>2, SplitsIndex
      <3>4. SlotOf(a, x) = s /\ SlotOf(a, x) \in Nat
        BY <1>3, <3>1, <3>3
      <3>5. ~IsNode(SlotOf(a, x))
        BY <2>1, <3>4, NodesAreNot
      <3>6. Lookup(a, x) = [ptr |-> SlotOf(a, x), first |-> 0 = 0]
        BY <1>3, <3>1, <3>3, <3>5
      <3>7. Entered(a, x) /\ p = Lookup(a, x).ptr
        <4>1. Lookup(a, x).ptr = s /\ (Lookup(a, x).first <=> 0 = 0)
          BY <3>4, <3>6, FoundFields, Zenon
        <4> QED
          BY <2>1, <4>1, Zenon DEF Entered
      <3> QED
        BY <1>1, <1>2, <3>3, <3>7
    <2>2. CASE IsNode(s) /\ \E y \in Nat : <<y, p>> \in Held[s - 2] /\ x = j * P + y
      <3>1. PICK y \in Nat : <<y, p>> \in Held[s - 2] /\ x = j * P + y
        BY <2>2
      <3>2. s - 2 \in DOMAIN seen /\ Reach(s - 2) = P
        <4>1. 0 \in 0..(P - 1)
          BY <1>1
        <4>2. j * P + 0 \in 0..(Chunk * P - 1) /\ Splits(j * P + 0, Chunk, P, j, 0)
          BY <1>1, <4>1, SplitsIndex
        <4>3. j * P + 0 \in Nat
          BY <4>2
        <4> HIDE DEF s
        <4>4. SlotOf(a, j * P + 0) = s
          BY <1>3, <4>1, <4>2, <4>3 DEF s
        <4> QED
          BY <1>3, <2>2, <4>1, <4>2, <4>3, <4>4
      <3> HIDE DEF s
      <3>3. y \in 0..(P - 1) /\ Entered(s - 2, y) /\ p = Lookup(s - 2, y).ptr
        BY <1>2, <3>1, <3>2
      <3>4. x \in 0..(Chunk * P - 1) /\ Splits(x, Chunk, P, j, y)
        BY <1>1, <3>1, <3>3, SplitsIndex
      <3>5. SlotOf(a, x) = s
        BY <1>3, <3>3, <3>4 DEF s
      <3>6. Lookup(a, x) = Lookup(s - 2, y)
        BY <1>3, <2>2, <3>3, <3>4, <3>5
      <3>7. Entered(a, x) /\ p = Lookup(a, x).ptr
        BY <3>3, <3>6 DEF Entered
      <3> QED
        BY <1>1, <1>2, <3>4, <3>7
    <2> QED
      BY <1>5, <2>1, <2>2 DEF SlotHolds, P
  <1> QED
    BY <1>4, <1>5

(* A walk of an idr that is through is past every slot of its root.         *)
LEMMA EntriesDone ==
    ASSUME WalkInv, EntriesInv, call.fn = "idr", pc = "done", rc = "ok"
    PROVE  HoldsEntries
  <1>1. IdsFit => \A i, j \in DOMAIN out : i < j => out[i].id < out[j].id
    BY IdrFound DEF Rising
  <1>2. CASE ~IsNode(call.first)
    BY <1>2 DEF EntriesInv, HoldsEntries, Lone
  <1>3. CASE IsNode(call.first)
    <2>1. /\ NodesRead /\ Opened /\ Closed /\ Len(stack) = 1 /\ stack[1].i = Chunk
          /\ \A held : Holds(held) => Scanned(held)
      BY <1>3 DEF EntriesInv
    <2> DEFINE top == stack[1]
    <2>2. /\ top.node = TopNode /\ top.index = 0 /\ TopNode \in DOMAIN seen
          /\ top.shift = seen[TopNode].shift /\ top.slots = seen[TopNode].slots /\ top.i = Chunk
      <3>1. stack # <<>> /\ 1 \in 1..Len(stack)
        BY <2>1
      <3>2. top.node = TopNode /\ top.shift = seen[TopNode].shift /\ top.slots = seen[TopNode].slots
        BY <2>1, <3>1 DEF Opened
      <3>3. top.index = 0 /\ TopNode \in DOMAIN seen
        BY <1>3, <3>1 DEF WalkInv, XaInv, Path
      <3> QED
        BY <2>1, <3>2, <3>3
    <2>3. Whole
      <3> SUFFICES ASSUME NEW a \in DOMAIN seen, NEW j \in 0..(Chunk - 1),
                          IsNode(seen[a].slots[j + 1])
                   PROVE  ~Ahead(a, j)
        BY <2>1 DEF Whole, Closed
      <3>1. \A k \in 1..Len(stack) : stack[k].i = Chunk
        BY <2>1
      <3>2. ~(Chunk <= j)
        BY Level
      <3> QED
        BY <3>1, <3>2 DEF Ahead
    <2>4. call.off \in Nat
      BY <1>3 DEF WalkInv, XaInv
    <2>5. \A e : e \in ToSet(out) <=> Past(Held, e)
      BY <2>1, <2>3, HeldHolds DEF Scanned
    <2>6. \A x, p \in Nat : <<x, p>> \in Held[TopNode] <=>
              \E j \in 0..(Chunk - 1) : SlotHolds(Held, top, j, x, p)
      <3>1. \A j, x, p : SlotHolds(Held, top, j, x, p) <=> SlotHolds(Held, seen[TopNode], j, x, p)
        BY <2>2 DEF SlotHolds
      <3> QED
        BY <2>2, <2>3, <3>1, HeldHolds, Zenon DEF Holds
    <2>7. ASSUME NEW e
          PROVE  Past(Held, e) <=>
                   \E x, p \in Nat : <<x, p>> \in Held[TopNode]
                                     /\ e = [id |-> Wrap(0 + x + call.off), ptr |-> p]
      <3>1. \A k : k \in 1..Len(stack) <=> k = 1
        BY <2>1
      <3>2. Past(Held, e) <=> \E j \in 0..(Chunk - 1) : Shows(Held, top, j, e)
        BY <2>2, <3>1, Zenon DEF Past
      <3>3. \A j : Shows(Held, top, j, e) <=>
                \E x, p \in Nat : SlotHolds(Held, top, j, x, p)
                                  /\ e = [id |-> Wrap(0 + x + call.off), ptr |-> p]
        BY <2>2, Zenon DEF Shows
      <3> HIDE DEF top
      <3> QED
        BY <2>6, <3>2, <3>3
    <2>8. \A x, p : <<x, p>> \in Held[TopNode] <=>
              x \in XaRange /\ Entered(TopNode, x) /\ p = Lookup(TopNode, x).ptr
      BY <2>2 DEF Held, XaRange, XaEnd, Reach, TopNode
    <2>9. ASSUME NEW x \in XaRange
          PROVE  /\ x \in Nat /\ XaLoad(x) = Lookup(TopNode, x) /\ Lookup(TopNode, x).ptr \in Nat
                 /\ 0 + x + call.off = x + call.off
      <3>1. x \in Nat
        BY DEF XaRange
      <3>2. /\ ShiftLimit \in seen[TopNode].shift..ShiftLimit
            /\ seen[TopNode].shift \in seen[TopNode].shift..ShiftLimit
        <4>1. seen[TopNode].shift \in Nat /\ seen[TopNode].shift < ShiftLimit
          BY <2>1, <2>2 DEF NodesRead
        <4>2. ShiftLimit \in Nat
          BY WalkBounds
        <4> HIDE DEF top, TopNode
        <4> QED
          BY <4>1, <4>2
      <3>3. Loads(x)[ShiftLimit][TopNode] = Lookup(TopNode, x) /\ Lookup(TopNode, x).ptr \in Nat
        BY <2>2, <2>3, <3>1, <3>2, AllAgree DEF Agrees, Lookup
      <3> QED
        BY <2>4, <3>1, <3>3, XaLoadIs
    <2>10. \A e : e \in ToSet(out) <=>
              e \in {[id |-> Wrap(i + call.off), ptr |-> XaLoad(i).ptr] :
                      i \in {j \in XaRange : XaLoad(j).first /\ IsPointer(XaLoad(j).ptr)}}
      <3> SUFFICES ASSUME NEW e
                   PROVE  e \in ToSet(out) <=>
                            \E i \in XaRange : /\ XaLoad(i).first /\ IsPointer(XaLoad(i).ptr)
                                               /\ e = [id |-> Wrap(i + call.off), ptr |-> XaLoad(i).ptr]
        OBVIOUS
      <3>1. ASSUME e \in ToSet(out)
            PROVE  \E i \in XaRange : /\ XaLoad(i).first /\ IsPointer(XaLoad(i).ptr)
                                      /\ e = [id |-> Wrap(i + call.off), ptr |-> XaLoad(i).ptr]
        <4>1. PICK x \in Nat, p \in Nat : /\ <<x, p>> \in Held[TopNode]
                                          /\ e = [id |-> Wrap(0 + x + call.off), ptr |-> p]
          BY <2>5, <2>7, <3>1
        <4>2. x \in XaRange /\ Entered(TopNode, x) /\ p = Lookup(TopNode, x).ptr
          BY <2>8, <4>1
        <4> QED
          BY <2>9, <4>1, <4>2 DEF Entered
      <3>2. ASSUME NEW i \in XaRange, XaLoad(i).first, IsPointer(XaLoad(i).ptr),
                   e = [id |-> Wrap(i + call.off), ptr |-> XaLoad(i).ptr]
            PROVE  e \in ToSet(out)
        <4>1. i \in Nat /\ XaLoad(i) = Lookup(TopNode, i) /\ Lookup(TopNode, i).ptr \in Nat
              /\ 0 + i + call.off = i + call.off
          BY <2>9
        <4>2. Entered(TopNode, i)
          BY <3>2, <4>1, Zenon DEF Entered
        <4>3. <<i, XaLoad(i).ptr>> \in Held[TopNode] /\ XaLoad(i).ptr \in Nat
          BY <2>8, <4>1, <4>2
        <4>4. e = [id |-> Wrap(0 + i + call.off), ptr |-> XaLoad(i).ptr]
          BY <3>2, <4>1
        <4> QED
          BY <2>5, <2>7, <4>1, <4>3, <4>4
      <3> QED
        BY <3>1, <3>2
    <2>11. ToSet(out) = {[id |-> Wrap(i + call.off), ptr |-> XaLoad(i).ptr] :
                      i \in {j \in XaRange : XaLoad(j).first /\ IsPointer(XaLoad(j).ptr)}}
      BY <2>10, Zenon
    <2> QED
      BY <1>1, <1>3, <2>11, Zenon DEF HoldsEntries
  <1> QED
    BY <1>2, <1>3

(* A walk of an idr that succeeds answers every entry of the xarray it      *)
(* read, each under the id a lookup of that id would find it by, and in the *)
(* order of the ids as far as they fit (kwalk.c:409-540), whatever the      *)
(* memory of the guest holds.                                               *)
THEOREM XarraysComplete == AnyWalks => [](call.fn = "idr" => Complete)
  <1>1. ASSUME WalkInv, EntriesInv PROVE call.fn = "idr" => Complete
    BY <1>1, EntriesDone DEF Complete
  <1> QED
    BY <1>1, Walks, EntryWalks, PTL
=============================================================================
