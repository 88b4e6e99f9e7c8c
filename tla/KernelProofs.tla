---------------------------- MODULE KernelProofs ----------------------------
(***************************************************************************)
(* Proofs about the kernel profile, for any guests and any value of the     *)
(* bounds.                                                                  *)
(***************************************************************************)
EXTENDS Kernel, KernelWalksProofs

-----------------------------------------------------------------------------
(* Least and greatest elements.                                             *)
LEMMA MinIs ==
    ASSUME NEW S \in SUBSET Nat, S # {}
    PROVE  Min(S) \in S /\ \A y \in S : Min(S) <= y
  BY LeastNat DEF Min

LEMMA MaxIs ==
    ASSUME NEW n \in Nat, NEW S \in SUBSET (0..n), S # {}
    PROVE  Max(S) \in S /\ \A y \in S : Max(S) >= y
  <1> DEFINE T == {n - y : y \in S}
  <1>1. T \in SUBSET Nat /\ T # {}
    <2>1. PICK y \in S : TRUE
      OBVIOUS
    <2>2. n - y \in T
      BY <2>1
    <2>3. \A z \in S : n - z \in Nat
      OBVIOUS
    <2> QED
      BY <2>2, <2>3
  <1>2. PICK x \in S : \A z \in T : n - x <= z
    BY <1>1, LeastNat
  <1>3. \A y \in S : x >= y
    BY <1>2
  <1> QED
    BY <1>3 DEF Max

-----------------------------------------------------------------------------
(* The lookup by address halves a range of the table: in a table that rises *)
(* it ends at the last symbol at or below the address.                      *)
Rises(table) ==
    /\ table \in Seq(ToSet(table))
    /\ \A i \in DOMAIN table : table[i].addr \in Int
    /\ \A i, j \in DOMAIN table : i < j => table[i].addr <= table[j].addr

AtOrBelow(table, addr) == {i \in DOMAIN table : table[i].addr <= addr}
LastBelow(table, addr) == IF AtOrBelow(table, addr) = {} THEN 0 ELSE Max(AtOrBelow(table, addr))

Mid(lo, hi) == lo + (hi - lo) \div 2

LEMMA MidIs ==
    ASSUME NEW lo \in Nat, NEW hi \in Nat, lo < hi
    PROVE  Mid(lo, hi) \in Nat /\ lo <= Mid(lo, hi) /\ Mid(lo, hi) < hi
  BY DEF Mid

LEMMA LastBelowIs ==
    ASSUME NEW table, Rises(table), NEW addr \in Int
    PROVE  /\ LastBelow(table, addr) \in 0..Len(table)
           /\ \A i \in 1..Len(table) : table[i].addr <= addr <=> i <= LastBelow(table, addr)
  <1>1. DOMAIN table = 1..Len(table) /\ Len(table) \in Nat
    BY DEF Rises
  <1>2. CASE AtOrBelow(table, addr) = {}
    BY <1>1, <1>2 DEF AtOrBelow, LastBelow
  <1>3. CASE AtOrBelow(table, addr) # {}
    <2> DEFINE b == Max(AtOrBelow(table, addr))
    <2>1. AtOrBelow(table, addr) \in SUBSET (0..Len(table))
      BY <1>1 DEF AtOrBelow
    <2>2. b \in AtOrBelow(table, addr) /\ \A y \in AtOrBelow(table, addr) : b >= y
      BY <1>1, <1>3, <2>1, MaxIs
    <2>3. b \in DOMAIN table /\ table[b].addr <= addr
      BY <2>2 DEF AtOrBelow
    <2>4. ASSUME NEW i \in DOMAIN table PROVE table[i].addr <= addr <=> i <= b
      <3>1. CASE i <= b
        <4>1. table[i].addr <= table[b].addr
          BY <1>1, <2>3, <3>1 DEF Rises
        <4> QED
          BY <2>3, <3>1, <4>1 DEF Rises
      <3>2. CASE ~(i <= b)
        BY <2>2, <3>2 DEF AtOrBelow
      <3> QED
        BY <3>1, <3>2
    <2> QED
      BY <1>1, <1>3, <2>3, <2>4 DEF LastBelow
  <1> QED
    BY <1>2, <1>3

(* What is left to find in a range of places.                               *)
Within(b, lo, hi) == IF lo >= hi \/ b <= lo THEN lo ELSE IF b >= hi THEN hi ELSE b

HalfFrom(table, addr, f, lo) ==
    [hi \in 0..Len(table) |->
        IF lo >= hi THEN lo
        ELSE IF table[Mid(lo, hi) + 1].addr <= addr THEN f[Mid(lo, hi) + 1][hi]
        ELSE f[lo][Mid(lo, hi)]]

Halves(table, addr, f) == f = [lo \in 0..Len(table) |-> HalfFrom(table, addr, f, lo)]

LEMMA HalvingFinds ==
    ASSUME NEW table, Rises(table), NEW addr \in Int
    PROVE  ByAddr(table, addr) = LastBelow(table, addr)
  <1> DEFINE n == Len(table)
             b == LastBelow(table, addr)
             g == [lo \in 0..n |-> [hi \in 0..n |-> Within(b, lo, hi)]]
  <1>1. n \in Nat /\ b \in 0..n /\ \A i \in 1..n : table[i].addr <= addr <=> i <= b
    BY LastBelowIs DEF Rises
  <1> HIDE DEF b
  <1>2. ASSUME NEW lo \in 0..n, NEW hi \in 0..n, ~(lo >= hi)
        PROVE  /\ Mid(lo, hi) \in 0..n /\ Mid(lo, hi) + 1 \in 0..n
               /\ hi - (Mid(lo, hi) + 1) < hi - lo /\ Mid(lo, hi) - lo < hi - lo
               /\ IF table[Mid(lo, hi) + 1].addr <= addr
                  THEN Within(b, lo, hi) = Within(b, Mid(lo, hi) + 1, hi)
                  ELSE Within(b, lo, hi) = Within(b, lo, Mid(lo, hi))
    <2>1. Mid(lo, hi) \in Nat /\ lo <= Mid(lo, hi) /\ Mid(lo, hi) < hi
      BY <1>1, <1>2, MidIs
    <2>2. Mid(lo, hi) + 1 \in 1..n
      BY <1>1, <2>1
    <2>3. table[Mid(lo, hi) + 1].addr <= addr <=> Mid(lo, hi) + 1 <= b
      BY <1>1, <2>2
    <2> QED
      BY <1>1, <1>2, <2>1, <2>3 DEF Within
  <1>3. Halves(table, addr, g)
    <2>1. ASSUME NEW lo \in 0..n PROVE HalfFrom(table, addr, g, lo) = g[lo]
      <3>1. g[lo] = [hi \in 0..n |-> Within(b, lo, hi)]
        OBVIOUS
      <3>2. \A x, hi \in 0..n : g[x][hi] = Within(b, x, hi)
        OBVIOUS
      <3> HIDE DEF g
      <3>3. ASSUME NEW hi \in 0..n
            PROVE  (IF lo >= hi THEN lo
                    ELSE IF table[Mid(lo, hi) + 1].addr <= addr THEN g[Mid(lo, hi) + 1][hi]
                    ELSE g[lo][Mid(lo, hi)]) = Within(b, lo, hi)
        <4>1. CASE lo >= hi
          BY <4>1 DEF Within
        <4>2. CASE ~(lo >= hi)
          <5>1. Mid(lo, hi) \in 0..n /\ Mid(lo, hi) + 1 \in 0..n
            BY <1>2, <4>2
          <5>2. /\ g[Mid(lo, hi) + 1][hi] = Within(b, Mid(lo, hi) + 1, hi)
                /\ g[lo][Mid(lo, hi)] = Within(b, lo, Mid(lo, hi))
            BY <3>2, <5>1
          <5>3. IF table[Mid(lo, hi) + 1].addr <= addr
                THEN Within(b, lo, hi) = Within(b, Mid(lo, hi) + 1, hi)
                ELSE Within(b, lo, hi) = Within(b, lo, Mid(lo, hi))
            BY <1>2, <4>2
          <5> QED
            BY <4>2, <5>2, <5>3
        <4> QED
          BY <4>1, <4>2
      <3> QED
        BY <3>1, <3>3 DEF HalfFrom
    <2>2. g = [lo \in 0..n |-> g[lo]]
      OBVIOUS
    <2> HIDE DEF g
    <2> QED
      BY <2>1, <2>2 DEF Halves
  <1>4. PICK f : ByAddr(table, addr) = f[0][n] /\ Halves(table, addr, f)
    <2> DEFINE f == CHOOSE f : Halves(table, addr, f)
    <2>1. ByAddr(table, addr) = f[0][n]
      BY DEF ByAddr, Halves, HalfFrom, Mid
    <2> QED
      BY <1>3, <2>1
  <1> HIDE DEF g
  <1>5. ASSUME NEW lo \in 0..n, NEW hi \in 0..n
        PROVE  f[lo][hi] = IF lo >= hi THEN lo
                           ELSE IF table[Mid(lo, hi) + 1].addr <= addr THEN f[Mid(lo, hi) + 1][hi]
                           ELSE f[lo][Mid(lo, hi)]
    <2>1. f[lo] = HalfFrom(table, addr, f, lo)
      BY <1>4 DEF Halves
    <2> QED
      BY <2>1 DEF HalfFrom
  <1> DEFINE D == {d \in Nat : \A lo, hi \in 0..n : hi - lo <= d => f[lo][hi] = Within(b, lo, hi)}
  <1>6. 0 \in D
    BY <1>5 DEF Within
  <1>7. ASSUME NEW d \in D PROVE d + 1 \in D
    <2>1. ASSUME NEW lo \in 0..n, NEW hi \in 0..n, hi - lo <= d + 1
          PROVE  f[lo][hi] = Within(b, lo, hi)
      <3>1. CASE lo >= hi
        BY <1>5, <3>1 DEF Within
      <3>2. CASE ~(lo >= hi)
        <4>1. hi - (Mid(lo, hi) + 1) <= d /\ Mid(lo, hi) - lo <= d
          <5>1. /\ Mid(lo, hi) \in Int /\ d \in Int
                /\ hi - (Mid(lo, hi) + 1) < hi - lo /\ Mid(lo, hi) - lo < hi - lo
            BY <1>2, <3>2
          <5> QED
            BY <2>1, <5>1
        <4>2. /\ f[Mid(lo, hi) + 1][hi] = Within(b, Mid(lo, hi) + 1, hi)
              /\ f[lo][Mid(lo, hi)] = Within(b, lo, Mid(lo, hi))
          BY <1>2, <3>2, <4>1
        <4> QED
          BY <1>2, <1>5, <3>2, <4>2
      <3> QED
        BY <3>1, <3>2
    <2> QED
      BY <2>1
  <1>8. D = Nat
    <2> HIDE DEF D
    <2> QED
      BY <1>6, <1>7, NatInduct DEF D
  <1>9. f[0][n] = Within(b, 0, n)
    BY <1>1, <1>8
  <1>10. Within(b, 0, n) = b
    BY <1>1 DEF Within
  <1> QED
    BY <1>4, <1>9, <1>10 DEF b

-----------------------------------------------------------------------------
(* The runs of an image: pages of the guest that can be read.               *)
LEMMA Ranked ==
    ASSUME NEW F \in SUBSET Nat, IsFiniteSet(F), NEW i \in 1..Cardinality(F)
    PROVE  \E q \in F : Cardinality({r \in F : r < q}) = i - 1
  <1>0. Cardinality(F) \in Nat
    BY FS_CardinalityType
  <1> DEFINE S == {k \in Nat : k < Cardinality(F) =>
                      \E q \in F : Cardinality({r \in F : r < q}) = k}
  <1>1. 0 \in S
    <2> SUFFICES ASSUME 0 < Cardinality(F) PROVE \E q \in F : Cardinality({r \in F : r < q}) = 0
      OBVIOUS
    <2>1. F # {}
      BY FS_EmptySet
    <2>2. PICK q \in F : \A y \in F : q <= y
      BY <2>1, LeastNat
    <2>3. {r \in F : r < q} = {}
      <3>1. \A r \in F : ~(r < q)
        BY <2>2
      <3> QED
        BY <3>1
    <2> QED
      BY <2>3, FS_EmptySet
  <1>2. ASSUME NEW k \in S PROVE k + 1 \in S
    <2> SUFFICES ASSUME k + 1 < Cardinality(F)
                 PROVE  \E q \in F : Cardinality({r \in F : r < q}) = k + 1
      OBVIOUS
    <2>1. PICK p \in F : Cardinality({r \in F : r < p}) = k
      BY <1>0
    <2> DEFINE Up == {r \in F : r > p}
               Low == {r \in F : r < p}
    <2>2. IsFiniteSet(Low) /\ p \notin Low
      BY FS_Subset
    <2>3. IsFiniteSet(Low \cup {p}) /\ Cardinality(Low \cup {p}) = k + 1
      BY <2>1, <2>2, FS_AddElement
    <2>4. Up # {}
      <3>1. SUFFICES ASSUME Up = {} PROVE FALSE
        OBVIOUS
      <3>2. \A r \in F : r \in Nat /\ p \in Nat /\ ~(r > p)
        BY <3>1
      <3>3. \A r \in F : r < p \/ r = p
        BY <3>2
      <3>4. F = Low \cup {p}
        BY <3>3
      <3> QED
        BY <1>0, <2>3, <3>4
    <2>5. PICK q \in Up : \A y \in Up : q <= y
      BY <2>4, LeastNat
    <2>6. {r \in F : r < q} = Low \cup {p}
      <3>1. q \in F /\ q \in Nat /\ p \in Nat /\ q > p
        BY <2>5
      <3>2. \A r \in F : r \in Nat /\ (r > p => q <= r)
        BY <2>5
      <3>3. \A r \in F : r < q <=> r < p \/ r = p
        BY <3>1, <3>2
      <3> QED
        BY <3>3
    <2> QED
      BY <2>3, <2>5, <2>6
  <1>3. S = Nat
    <2> HIDE DEF S
    <2> QED
      BY <1>1, <1>2, NatInduct DEF S
  <1> QED
    BY <1>0, <1>3

LEMMA InPages ==
    ASSUME NEW c \in Nat \ {0}, NEW p \in Nat, NEW n \in Nat, NEW va \in Nat,
           p * c <= va, va < p * c + n * c
    PROVE  /\ va \div c \in Nat /\ p <= va \div c /\ va \div c < p + n
           /\ va % c \in 0..(c - 1)
           /\ va = (va \div c) * c + (va % c)
  <1> DEFINE q == va \div c
             r == va % c
  <1>1. q \in Nat /\ r \in 0..(c - 1) /\ va = q * c + r
    OBVIOUS
  <1> HIDE DEF q, r
  <1>2. ASSUME q < p PROVE FALSE
    <2>1. (q + 1) * c <= p * c
      BY <1>1, <1>2
    <2> QED
      BY <1>1, <2>1
  <1>3. ASSUME p + n <= q PROVE FALSE
    <2>1. (p + n) * c <= q * c
      BY <1>1, <1>3
    <2>2. (p + n) * c = p * c + n * c
      OBVIOUS
    <2> QED
      BY <1>1, <2>1, <2>2
  <1> QED
    BY <1>1, <1>2, <1>3 DEF q, r

(* Every cell of a run is a number at an address of the guest.              *)
Readable(g, run) ==
    /\ run.va \in Nat /\ run.len \in Nat
    /\ \A va \in run.va..(run.va + run.len - 1) : va \in DOMAIN g.cells /\ g.cells[va] \in Nat

LEMMA PagesReadable ==
    ASSUME NEW g \in Guests, NEW p \in Nat, NEW n \in Nat, \A k \in 0..(n - 1) : p + k \in g.mapped
    PROVE  Readable(g, [va |-> p * PageCells, len |-> n * PageCells])
  <1>1. PageCells \in Nat \ {0}
    BY ImageBounds
  <1> DEFINE s == p * PageCells
             l == n * PageCells
  <1>2. s \in Nat /\ l \in Nat
    BY <1>1
  <1>3. ASSUME NEW va \in s..(s + l - 1) PROVE va \in DOMAIN g.cells /\ g.cells[va] \in Nat
    <2>1. va \in Nat /\ s <= va /\ va < s + l
      BY <1>2
    <2> DEFINE q == va \div PageCells
               k == va % PageCells
    <2>2. /\ q \in Nat /\ p <= q /\ q < p + n
          /\ k \in 0..(PageCells - 1) /\ va = q * PageCells + k
      BY <1>1, <2>1, InPages
    <2> HIDE DEF q, k
    <2>3. q - p \in 0..(n - 1) /\ p + (q - p) = q
      BY <2>2
    <2>4. q \in g.mapped
      BY <2>3
    <2> QED
      BY <2>2, <2>4, GuestMemory
  <1> HIDE DEF s, l
  <1>4. Readable(g, [va |-> s, len |-> l])
    BY <1>2, <1>3 DEF Readable
  <1> QED
    BY <1>4 DEF s, l

LEMMA RunsReadable ==
    ASSUME NEW g \in Guests, NEW start \in Nat, NEW end \in Nat
    PROVE  \A i \in DOMAIN Runs(g, start, end) : Readable(g, Runs(g, start, end)[i])
  <1> DEFINE Present == g.mapped \cap PageOf(start)..(PageOf(end) - 1)
             Firsts  == {p \in Present : p - 1 \notin Present}
             Ends(p) == {n \in 1..(PageOf(end) - p) : p + n \notin Present}
  <1>1. PageCells \in Nat \ {0} /\ PageOf(start) \in Nat /\ PageOf(end) \in Nat
    BY ImageBounds DEF PageOf
  <1>2. Firsts \in SUBSET Nat /\ IsFiniteSet(Firsts) /\ Cardinality(Firsts) \in Nat
    <2>1. IsFiniteSet(PageOf(start)..(PageOf(end) - 1))
      BY <1>1, FS_Interval
    <2>2. Firsts \subseteq PageOf(start)..(PageOf(end) - 1)
      OBVIOUS
    <2> QED
      BY <1>1, <2>1, <2>2, FS_Subset, FS_CardinalityType
  <1>3. ASSUME NEW i \in 1..Cardinality(Firsts)
        PROVE  Readable(g, Runs(g, start, end)[i])
    <2> DEFINE p == CHOOSE q \in Firsts : Cardinality({r \in Firsts : r < q}) = i - 1
               n == Min(Ends(p))
    <2>1. p \in Firsts
      <3> HIDE DEF Firsts
      <3> QED
        BY <1>2, Ranked
    <2>2. Runs(g, start, end)[i] = [va |-> p * PageCells, len |-> n * PageCells]
      BY DEF Runs
    <2>3. p \in Present /\ p \in Nat /\ p < PageOf(end)
      BY <1>1, <2>1
    <2> HIDE DEF p
    <2>4. Ends(p) \in SUBSET Nat /\ Ends(p) # {}
      <3>1. PageOf(end) - p \in Ends(p)
        BY <1>1, <2>3
      <3> QED
        BY <3>1
    <2>5. n \in Ends(p) /\ \A m \in Ends(p) : n <= m
      <3> HIDE DEF Ends
      <3> QED
        BY <2>4, MinIs
    <2>6. ASSUME NEW k \in 0..(n - 1) PROVE p + k \in g.mapped
      <3>1. CASE k = 0
        BY <2>3, <3>1
      <3>2. CASE k # 0
        <4>1. n \in 1..(PageOf(end) - p) /\ n \in Nat
          BY <2>5
        <4>2. k \in 1..(PageOf(end) - p) /\ k < n
          BY <1>1, <2>3, <3>2, <4>1
        <4>3. k \notin Ends(p)
          BY <2>5, <4>1, <4>2
        <4> QED
          BY <4>2, <4>3
      <3> QED
        BY <3>1, <3>2
    <2>7. n \in Nat
      BY <2>5
    <2> HIDE DEF n
    <2> QED
      BY <2>2, <2>3, <2>6, <2>7, PagesReadable
  <1>4. DOMAIN Runs(g, start, end) = 1..Cardinality(Firsts)
    BY DEF Runs
  <1> QED
    BY <1>3, <1>4

(* The copy of an image: it begins and ends at an address, and its runs     *)
(* can be read.                                                             *)
ImageIn(g, i) ==
    /\ i.start \in Nat /\ i.end \in Nat
    /\ \A k \in DOMAIN i.runs : Readable(g, i.runs[k])

LEMMA ImageLoads ==
    ASSUME NEW g \in Guests
    PROVE  ImageIn(g, KimgLoad(g))
  <1>1. ChunkCells \in Nat \ {0}
    BY ImageBounds DEF ChunkCells
  <1>2. CASE KimgLoad(g) = NoImage
    BY <1>2 DEF NoImage, ImageIn
  <1>3. CASE KimgLoad(g) # NoImage
    <2> DEFINE anchor == g.anchor
               chunk == anchor \div ChunkCells
               here == chunk * ChunkCells
               Down == {va \in AreaStart..here : /\ va % ChunkCells = 0
                          /\ \A c \in va..(here - 1) : c % ChunkCells = 0 => PageOf(c) \in g.mapped}
               start == FindStart(g, anchor)
               end == FindEnd(g, start)
    <2>1. anchor \in AreaStart..(AreaEnd - 1) /\ anchor \in Nat
      BY <1>3, GuestMemory DEF KimgLoad
    <2>2. chunk \in Nat /\ here \in Nat /\ here <= anchor /\ anchor < here + ChunkCells
          /\ here % ChunkCells = 0
      <3>1. chunk \in Nat /\ anchor = chunk * ChunkCells + (anchor % ChunkCells)
            /\ anchor % ChunkCells \in 0..(ChunkCells - 1)
        <4> HIDE DEF anchor
        <4> QED
          BY <1>1, <2>1
      <3> HIDE DEF chunk
      <3>2. (chunk * ChunkCells) % ChunkCells = 0
        BY <1>1, <3>1
      <3> QED
        BY <1>1, <3>1, <3>2
    <2> HIDE DEF here, chunk
    <2>3. AreaStart <= here
      <3> DEFINE a == AreaStart \div ChunkCells
                 h == here \div ChunkCells
      <3>1. a \in Nat /\ AreaStart \in Nat /\ AreaStart = a * ChunkCells
        BY <1>1, ImageBounds
      <3>2. h \in Nat /\ here = h * ChunkCells
        BY <1>1, <2>2
      <3> HIDE DEF a, h
      <3>3. a * ChunkCells < (h + 1) * ChunkCells
        BY <1>1, <2>1, <2>2, <3>1, <3>2
      <3>4. ASSUME h < a PROVE FALSE
        <4>1. (h + 1) * ChunkCells <= a * ChunkCells
          BY <1>1, <3>1, <3>2, <3>4
        <4> QED
          BY <1>1, <3>1, <3>2, <3>3, <4>1
      <3>5. a * ChunkCells <= h * ChunkCells
        BY <1>1, <3>1, <3>2, <3>4
      <3> QED
        BY <3>1, <3>2, <3>5
    <2>4. here \in Down /\ Down \in SUBSET Nat
      BY <2>2, <2>3, ImageBounds
    <2>5. start = Min(Down)
      BY DEF FindStart, here, chunk
    <2>6. start \in Nat
      <3> HIDE DEF Down, start
      <3> QED
        BY <2>4, <2>5, MinIs
    <2>7. end \in Nat
      <3> HIDE DEF start
      <3> DEFINE Empty == {va \in start..(AreaEnd - 1) : /\ va % ChunkCells = 0
                                                         /\ PagesAt(va) \cap g.mapped = {}}
      <3>1. end = IF Empty = {} THEN AreaEnd ELSE Min(Empty)
        BY DEF FindEnd
      <3>2. Empty \in SUBSET Nat
        BY <2>6
      <3> HIDE DEF Empty
      <3> QED
        BY <3>1, <3>2, MinIs, ImageBounds
    <2>8. KimgLoad(g) = [start |-> start, end |-> end, runs |-> Runs(g, start, end)]
      BY <1>3 DEF KimgLoad
    <2> HIDE DEF start, end
    <2> QED
      BY <2>6, <2>7, <2>8, RunsReadable DEF ImageIn
  <1> QED
    BY <1>2, <1>3

-----------------------------------------------------------------------------
(* The first of several tries is one of them.                               *)
LEMMA EarliestIs ==
    ASSUME NEW Found, NEW none, Found # {}, \A f \in Found : f[1] \in Nat
    PROVE  \E f \in Found : Earliest(Found, none) = f[2]
  <1> DEFINE Places == {f[1] : f \in Found}
  <1>1. Places \in SUBSET Nat /\ Places # {}
    OBVIOUS
  <1>2. PICK p \in Places : \A q \in Places : p <= q
    BY <1>1, LeastNat
  <1>3. PICK f \in Found : f[1] = p
    BY <1>2
  <1>4. \A g \in Found : f[1] <= g[1]
    BY <1>2, <1>3
  <1> QED
    BY <1>4 DEF Earliest

(* The ends of the token strings, found one after the other.                *)
NulsAt(g, run, from) == {va \in from..(from + MaxName + 1) : InRun(run, va, 1) /\ Cell(g, va) = 0}

TokenEnd(g, run, hit, f, t) ==
    LET Nuls == IF f[t - 1] < 0 THEN {} ELSE NulsAt(g, run, f[t - 1])
    IN  IF t = AfterDigits - 1 THEN hit + Len(Digits)
        ELSE IF Nuls = {} THEN -1 ELSE Min(Nuls) + 1

LEMMA TokenEndIs ==
    ASSUME NEW g, NEW run, NEW hit \in Nat, NEW f, NEW t \in Nat,
           t # AfterDigits - 1 => f[t - 1] \in Int
    PROVE  TokenEnd(g, run, hit, f, t) \in Int
  <1>1. CASE t = AfterDigits - 1
    BY <1>1, SymbolBounds DEF TokenEnd
  <1>2. CASE t # AfterDigits - 1
    <2> DEFINE Nuls == IF f[t - 1] < 0 THEN {} ELSE NulsAt(g, run, f[t - 1])
    <2>1. Nuls \in SUBSET Nat
      BY <1>2, SymbolBounds DEF NulsAt
    <2>2. TokenEnd(g, run, hit, f, t) = IF Nuls = {} THEN -1 ELSE Min(Nuls) + 1
      BY <1>2 DEF TokenEnd
    <2> HIDE DEF Nuls
    <2>3. ASSUME Nuls # {} PROVE Min(Nuls) \in Nat
      BY <2>1, <2>3, MinIs
    <2> QED
      BY <2>2, <2>3
  <1> QED
    BY <1>1, <1>2

EndsTo(g, run, hit, m, f) ==
    \A t \in (AfterDigits - 1)..m : f[t] = TokenEnd(g, run, hit, f, t) /\ f[t] \in Int

LEMMA TokenEndsExist ==
    ASSUME NEW g, NEW run, NEW hit \in Nat, NEW m \in Nat
    PROVE  \E f \in [(AfterDigits - 1)..m -> Int] : EndsTo(g, run, hit, m, f)
  <1> DEFINE a == AfterDigits - 1
             S == {n \in Nat : \E f \in [a..n -> Int] : EndsTo(g, run, hit, n, f)}
  <1>0. a \in Nat
    BY SymbolBounds
  <1>1. ASSUME NEW n \in Nat, NEW f, f \in [a..(n - 1) -> Int], EndsTo(g, run, hit, n - 1, f)
        PROVE  n \in S
    <2>1. CASE n < a
      <3> DEFINE e == [t \in a..n |-> 0]
      <3>1. e \in [a..n -> Int] /\ a..n = {}
        BY <1>0, <2>1
      <3>2. EndsTo(g, run, hit, n, e)
        BY <3>1 DEF EndsTo
      <3> QED
        BY <3>1, <3>2
    <2>2. CASE n >= a
      <3> DEFINE x == TokenEnd(g, run, hit, f, n)
                 e == [t \in a..n |-> IF t = n THEN x ELSE f[t]]
      <3>1. n # a => n - 1 \in a..(n - 1)
        BY <1>0, <2>2
      <3>2. x \in Int
        BY <1>1, <3>1, TokenEndIs
      <3> HIDE DEF x
      <3>3. e \in [a..n -> Int] /\ e[n] = x /\ \A t \in a..(n - 1) : e[t] = f[t]
        BY <1>0, <1>1, <2>2, <3>2
      <3> HIDE DEF e
      <3>4. ASSUME NEW t \in a..n PROVE e[t] = TokenEnd(g, run, hit, e, t) /\ e[t] \in Int
        <4>1. CASE t = a
          <5>1. TokenEnd(g, run, hit, e, t) = TokenEnd(g, run, hit, f, t)
            BY <4>1 DEF TokenEnd
          <5>2. t = n \/ t \in a..(n - 1)
            BY <1>0
          <5> QED
            BY <1>1, <3>2, <3>3, <5>1, <5>2 DEF EndsTo, x
        <4>2. CASE t # a
          <5>1. t - 1 \in a..(n - 1) /\ (t = n \/ t \in a..(n - 1))
            BY <1>0, <4>2
          <5>2. e[t - 1] = f[t - 1]
            BY <3>3, <5>1
          <5>3. TokenEnd(g, run, hit, e, t) = TokenEnd(g, run, hit, f, t)
            BY <5>2 DEF TokenEnd
          <5> QED
            BY <1>1, <3>2, <3>3, <5>1, <5>3 DEF EndsTo, x
        <4> QED
          BY <4>1, <4>2
      <3> QED
        BY <3>3, <3>4 DEF EndsTo
    <2> QED
      BY <1>0, <2>1, <2>2
  <1>2. 0 \in S
    <2> DEFINE e == [t \in a..(0 - 1) |-> 0]
    <2>1. a..(0 - 1) = {}
      BY <1>0
    <2>2. e \in [a..(0 - 1) -> Int] /\ EndsTo(g, run, hit, 0 - 1, e)
      BY <2>1 DEF EndsTo
    <2> HIDE DEF e, S
    <2> QED
      BY <1>1, <2>2
  <1>3. ASSUME NEW n \in S PROVE n + 1 \in S
    <2>1. PICK f \in [a..n -> Int] : EndsTo(g, run, hit, n, f)
      OBVIOUS
    <2>2. n \in Nat /\ n + 1 \in Nat /\ (n + 1) - 1 = n
      OBVIOUS
    <2> HIDE DEF S
    <2> QED
      BY <1>1, <2>1, <2>2
  <1>4. S = Nat
    <2> HIDE DEF S
    <2> QED
      BY <1>2, <1>3, NatInduct DEF S
  <1> QED
    BY <1>4

LEMMA TokenEndsIs ==
    ASSUME NEW g, NEW run, NEW hit \in Nat
    PROVE  TokenEnds(g, run, hit) \in Int
  <1> DEFINE a == AfterDigits - 1
             n == NTokens - 1
             Eq(f) == f = [t \in a..n |-> TokenEnd(g, run, hit, f, t)]
  <1>1. a \in Nat /\ n \in Nat /\ n \in a..n
    BY SymbolBounds
  <1>2. PICK e \in [a..n -> Int] : EndsTo(g, run, hit, n, e)
    BY <1>1, TokenEndsExist
  <1>3. Eq(e)
    BY <1>2 DEF EndsTo
  <1>4. TokenEnds(g, run, hit) = (CHOOSE f : Eq(f))[n]
    BY DEF TokenEnds, TokenEnd, NulsAt
  <1>5. PICK f : Eq(f) /\ TokenEnds(g, run, hit) = f[n]
    BY <1>3, <1>4
  <1>6. \A t \in a..n : f[t] = TokenEnd(g, run, hit, f, t)
    BY <1>5
  <1> DEFINE S == {t \in Nat : t \in a..n => f[t] \in Int}
  <1>7. ASSUME NEW t \in Nat, t # a => t - 1 \notin a..n \/ f[t - 1] \in Int
        PROVE  t \in S
    <2> SUFFICES ASSUME t \in a..n PROVE f[t] \in Int
      OBVIOUS
    <2>1. t # a => t - 1 \in a..n
      BY <1>1
    <2> QED
      BY <1>6, <1>7, <2>1, TokenEndIs
  <1>8. 0 \in S
    <2>1. 0 - 1 \notin a..n
      BY <1>1
    <2> HIDE DEF S
    <2> QED
      BY <1>7, <2>1
  <1>9. ASSUME NEW t \in S PROVE t + 1 \in S
    <2>1. (t + 1) - 1 = t /\ t + 1 \in Nat /\ (t \notin a..n \/ f[t] \in Int)
      OBVIOUS
    <2> HIDE DEF S
    <2> QED
      BY <1>7, <2>1
  <1>10. S = Nat
    <2> HIDE DEF S
    <2> QED
      BY <1>8, <1>9, NatInduct DEF S
  <1> QED
    BY <1>1, <1>5, <1>10

(* The tokens lie around the digits, the names before the tokens, and there *)
(* is a number of them.                                                     *)
LEMMA TokensAre ==
    ASSUME NEW g, NEW run, Readable(g, run), NEW hit \in Nat, FindTokens(g, run, hit) # NoTokens
    PROVE  FindTokens(g, run, hit).tt \in Int /\ FindTokens(g, run, hit).ti \in Int
  <1> DEFINE ttEnd == TokenEnds(g, run, hit)
             ti == Align(ttEnd)
  <1>1. /\ AreTokens(g, run, hit, ttEnd, ti)
        /\ FindTokens(g, run, hit) = [tt |-> hit - Cell(g, ti + FirstDigit), ti |-> ti]
    BY DEF FindTokens
  <1>2. ttEnd \in Int
    BY TokenEndsIs
  <1> HIDE DEF ttEnd
  <1>3. ti \in Int
    BY <1>2 DEF Align
  <1> HIDE DEF ti
  <1>4. InRun(run, ti, NTokens)
    BY <1>1 DEF AreTokens
  <1>5. ti + FirstDigit \in run.va..(run.va + run.len - 1)
    <2>1. FirstDigit \in Nat /\ NTokens \in Nat /\ FirstDigit < NTokens
      BY SymbolBounds
    <2>2. ti >= run.va /\ ti + NTokens <= run.va + run.len /\ run.va \in Nat /\ run.len \in Nat
      BY <1>4 DEF InRun, Readable
    <2> QED
      BY <1>3, <2>1, <2>2
  <1>6. Cell(g, ti + FirstDigit) \in Nat
    BY <1>5 DEF Readable, Cell
  <1> QED
    BY <1>1, <1>3, <1>6

NamesIn(names) == names.n \in Nat /\ names.at \in Int

LEMMA NamesFound ==
    ASSUME NEW g, NEW run, Readable(g, run), NEW m \in Int, NEW count \in Nat \ {0}, NEW want \in Nat,
           InRun(run, m, count)
    PROVE  NamesIn(FindNames(g, run, m, count, want))
  <1> DEFINE last   == Cell(g, m + count - 1)
             Possible == IF want # 0 THEN {want} ELSE ((count - 1) * Every + 1)..(count * Every)
             top    == ((m - last - 4) \div 2) * 2
             span   == Every * MaxEntry + 2
             bottom == IF top - run.va > span THEN top - span ELSE run.va
             Numbers == {x \in bottom..top :
                         /\ x % 2 = 0
                         /\ Cell(g, x) \in Possible /\ Cell(g, x + 1) = 0
                         /\ CheckNames(g, run, x + 2, Cell(g, x), m, count)}
  <1>1. \/ FindNames(g, run, m, count, want) = NoNames
        \/ /\ Numbers # {}
           /\ FindNames(g, run, m, count, want)
                 = [n |-> Cell(g, Max(Numbers)), at |-> Max(Numbers), markers |-> m, seqs |-> 0]
    BY DEF FindNames
  <1>2. NamesIn(NoNames)
    BY DEF NamesIn, NoNames
  <1>3. ASSUME Numbers # {} PROVE Max(Numbers) \in Nat /\ Cell(g, Max(Numbers)) \in Nat
    <2>1. last \in Nat
      <3>1. m + count - 1 \in run.va..(run.va + run.len - 1)
        BY DEF InRun, Readable
      <3> QED
        BY <3>1 DEF Readable, Cell
    <2> HIDE DEF last
    <2>2. top \in Int
      BY <2>1
    <2> HIDE DEF top
    <2>3. span \in Nat
      <3>1. Every \in Nat /\ MaxEntry \in Nat
        <4>1. Every \in Nat /\ LongEntry \in Nat \ {0}
          BY SymbolBounds
        <4> QED
          BY <4>1 DEF MaxEntry
      <3> QED
        BY <3>1
    <2> HIDE DEF span
    <2>4. bottom \in Nat
      BY <2>2, <2>3 DEF Readable
    <2> HIDE DEF bottom
    <2>5. Possible \in SUBSET Nat
      <3>0. Every \in Nat /\ count - 1 \in Nat
        BY SymbolBounds
      <3>1. (count - 1) * Every + 1 \in Nat
        BY <3>0
      <3>2. count * Every \in Int
        BY <3>0
      <3> QED
        BY <3>1, <3>2
    <2> HIDE DEF Possible
    <2>6. Numbers \in SUBSET (0..top) /\ top \in Nat
      BY <1>3, <2>2, <2>4
    <2>7. Max(Numbers) \in Numbers
      <3> HIDE DEF Numbers
      <3> QED
        BY <1>3, <2>6, MaxIs
    <2>8. Cell(g, Max(Numbers)) \in Possible
      BY <2>7
    <2> HIDE DEF Numbers
    <2>9. Max(Numbers) \in Nat
      <3>1. \A x \in 0..top : x \in Nat
        BY <2>6
      <3>2. \A x \in Numbers : x \in 0..top
        BY <2>6
      <3> QED
        BY <2>7, <3>1, <3>2
    <2>10. Cell(g, Max(Numbers)) \in Nat
      BY <2>5, <2>8
    <2> QED
      BY <2>9, <2>10
  <1> HIDE DEF Numbers
  <1> QED
    BY <1>1, <1>2, <1>3 DEF NamesIn

LEMMA CeilIs == \A n \in Nat \ {0} : Ceil(n) \in Nat \ {0}
  <1>1. ASSUME NEW n \in Nat \ {0} PROVE Ceil(n) \in Nat \ {0}
    <2> DEFINE x == n + Every - 1
    <2>1. Every \in Nat \ {0} /\ x \in Nat /\ x >= Every
      BY SymbolBounds
    <2>2. Ceil(n) = x \div Every
      BY DEF Ceil
    <2> HIDE DEF x
    <2>3. x \div Every \in Nat /\ x = (x \div Every) * Every + (x % Every)
          /\ x % Every \in 0..(Every - 1)
      BY <2>1
    <2>4. x \div Every # 0
      BY <2>1, <2>3
    <2> QED
      BY <2>2, <2>3, <2>4
  <1> QED
    BY <1>1

LEMMA NamesLocated ==
    ASSUME NEW g, NEW run, Readable(g, run), NEW layout, NEW tt \in Int
    PROVE  NamesIn(LocateNames(g, run, layout, tt))
  <1>1. \A x \in Int : Align(x) \in Int
    BY DEF Align
  <1>2. NamesIn(NoNames)
    BY DEF NamesIn, NoNames
  <1>3. ASSUME NEW k \in Nat \ {0} PROVE NamesIn(Before62(g, run, tt, k))
    <2> DEFINE m == tt - Align(k)
    <2>1. m \in Int
      BY <1>1
    <2> HIDE DEF m
    <2>2. ASSUME CheckMarkers(g, run, m, k) PROVE NamesIn(FindNames(g, run, m, k, 0))
      BY <2>1, <2>2, NamesFound DEF CheckMarkers
    <2>3. \/ Before62(g, run, tt, k) = NoNames
          \/ CheckMarkers(g, run, m, k) /\ Before62(g, run, tt, k) = FindNames(g, run, m, k, 0)
      BY DEF Before62, m
    <2> QED
      BY <1>2, <2>2, <2>3
  <1>4. ASSUME NEW k \in Nat \ {0} PROVE NamesIn(From62(g, run, tt, k))
    <2> DEFINE s == tt - Align(k)
               m == s - Align(Ceil(k))
               found == FindNames(g, run, m, Ceil(k), k)
    <2>1. m \in Int /\ Ceil(k) \in Nat \ {0}
      BY <1>1, CeilIs
    <2>2. \/ From62(g, run, tt, k) = NoNames
          \/ CheckMarkers(g, run, m, Ceil(k)) /\ From62(g, run, tt, k) = [found EXCEPT !.seqs = s]
      BY DEF From62
    <2> HIDE DEF m
    <2>3. ASSUME CheckMarkers(g, run, m, Ceil(k)) PROVE NamesIn(found)
      BY <2>1, <2>3, NamesFound DEF CheckMarkers
    <2> HIDE DEF found
    <2>4. [found EXCEPT !.seqs = s].n = found.n /\ [found EXCEPT !.seqs = s].at = found.at
      OBVIOUS
    <2> QED
      BY <1>2, <2>2, <2>3, <2>4 DEF NamesIn
  <1> DEFINE Try(k) == IF layout = "v6_2" THEN From62(g, run, tt, k) ELSE Before62(g, run, tt, k)
             Found == {f \in {<<k, Try(k)>> : k \in 1..MaxSyms} : f[2].n # 0}
  <1>5. \A f \in Found : f[1] \in Nat /\ NamesIn(f[2])
    <2>1. ASSUME NEW k \in 1..MaxSyms PROVE k \in Nat \ {0} /\ NamesIn(Try(k))
      BY <1>3, <1>4, SymbolBounds
    <2> HIDE DEF Try
    <2> QED
      BY <2>1
  <1>6. LocateNames(g, run, layout, tt) = Earliest(Found, NoNames)
    BY DEF LocateNames
  <1> HIDE DEF Found
  <1>7. CASE Found = {}
    BY <1>2, <1>6, <1>7 DEF Earliest
  <1>8. CASE Found # {}
    BY <1>5, <1>6, <1>8, EarliestIs
  <1> QED
    BY <1>7, <1>8

-----------------------------------------------------------------------------
(* A table that is believed rises from its first symbol to its last, has    *)
(* addresses and names of their width, and has _text where the image begins.*)
SymbolIn(s) == s.addr \in 0..(U64 - 1) /\ Len(s.name) \in 1..(MaxName - 2)

HasText(table, start) == \E i \in DOMAIN table : table[i].name = TextName /\ table[i].addr = start

Believed(table, start) ==
    Rises(table) /\ (\A i \in DOMAIN table : SymbolIn(table[i])) /\ HasText(table, start)

LEMMA RisesStepwise ==
    ASSUME NEW table, table \in Seq(ToSet(table)), \A i \in DOMAIN table : table[i].addr \in Int,
           \A i \in 2..Len(table) : table[i].addr >= table[i - 1].addr
    PROVE  Rises(table)
  <1> DEFINE n == Len(table)
             S == {d \in Nat : \A i \in 1..n : i + d \in 1..n => table[i].addr <= table[i + d].addr}
  <1>1. n \in Nat /\ DOMAIN table = 1..n
    OBVIOUS
  <1>2. 0 \in S
    BY <1>1
  <1>3. ASSUME NEW d \in S PROVE d + 1 \in S
    <2> SUFFICES ASSUME NEW i \in 1..n, i + (d + 1) \in 1..n
                 PROVE  table[i].addr <= table[i + (d + 1)].addr
      OBVIOUS
    <2> DEFINE j == i + d
    <2>1. j \in 1..n /\ j + 1 \in 2..n /\ (j + 1) - 1 = j /\ i + (d + 1) = j + 1
      BY <1>1
    <2>2. table[i].addr <= table[j].addr
      BY <2>1
    <2> HIDE DEF j
    <2>3. table[j].addr <= table[j + 1].addr
      BY <2>1
    <2>4. table[i].addr \in Int /\ table[j].addr \in Int /\ table[j + 1].addr \in Int
      BY <1>1, <2>1
    <2> QED
      BY <2>1, <2>2, <2>3, <2>4
  <1>4. S = Nat
    <2> HIDE DEF S
    <2> QED
      BY <1>2, <1>3, NatInduct DEF S
  <1>5. ASSUME NEW i \in 1..n, NEW j \in 1..n, i < j PROVE table[i].addr <= table[j].addr
    <2>1. j - i \in Nat /\ i + (j - i) = j
      BY <1>5
    <2>2. j - i \in S
      <3> HIDE DEF S
      <3> QED
        BY <1>4, <2>1
    <2> QED
      BY <2>1, <2>2
  <1> QED
    BY <1>1, <1>5 DEF Rises

LEMMA AddressIs ==
    ASSUME NEW mode, NEW base \in Nat, NEW off \in Nat
    PROVE  Address(mode, base, off) \in 0..(U64 - 1)
  <1>1. U32 \in Nat \ {0} /\ U64 \in Nat \ {0} /\ U32 <= U64
    BY SymbolBounds
  <1>2. (base + off) % U64 \in 0..(U64 - 1) /\ (base - 1 + U32 - off) % U64 \in 0..(U64 - 1)
    BY <1>1
  <1>3. off < U32 \div 2 => off \in 0..(U64 - 1)
    BY <1>1
  <1> QED
    BY <1>2, <1>3 DEF Address

LEMMA ByNameIs ==
    ASSUME NEW table, DOMAIN table \in SUBSET Nat, NEW name
    PROVE  IF \E i \in DOMAIN table : table[i].name = name
           THEN ByName(table, name) \in DOMAIN table /\ table[ByName(table, name)].name = name
           ELSE ByName(table, name) = 0
  <1> DEFINE Named == {i \in DOMAIN table : table[i].name = name}
  <1>1. Named \in SUBSET Nat
    OBVIOUS
  <1>2. Named # {} => Min(Named) \in Named
    <2> HIDE DEF Named
    <2> QED
      BY <1>1, MinIs
  <1> QED
    BY <1>2 DEF ByName

LEMMA SymTableIs ==
    ASSUME NEW g, NEW run, Readable(g, run), NEW i, ImageIn(g, i), NEW cfg, NEW chars, NEW n \in Nat,
           chars = [k \in 1..n |-> chars[k]], NEW offsets \in Int, NEW relbase,
           SymTable(g, run, i, cfg, chars, offsets, relbase) # NoTable
    PROVE  Believed(SymTable(g, run, i, cfg, chars, offsets, relbase), i.start)
  <1> DEFINE base  == Cell(g, relbase) + Cell(g, relbase + 1) * U32
             Entry1(k) == [addr |-> Address(cfg.addr, base, Cell(g, offsets + k - 1)),
                           type |-> chars[k][1],
                           name |-> [j \in 1..(Len(chars[k]) - 1) |-> chars[k][j + 1]]]
             table == [k \in DOMAIN chars |-> Entry1(k)]
  <1>1. /\ base \in i.start..(i.end - 1)
        /\ InRun(run, offsets, Len(chars))
        /\ \A k \in DOMAIN chars : Len(chars[k]) \in 2..(MaxName - 1)
        /\ IsTable(table, i)
        /\ SymTable(g, run, i, cfg, chars, offsets, relbase) = table
    BY DEF SymTable
  <1>2. base \in Nat
    BY <1>1 DEF ImageIn
  <1> HIDE DEF base
  <1>3. DOMAIN chars = 1..n /\ Len(chars) = n
    <2>1. DOMAIN [k \in 1..n |-> chars[k]] = 1..n /\ Len([k \in 1..n |-> chars[k]]) = n
      OBVIOUS
    <2> QED
      BY <2>1
  <1>4. ASSUME NEW k \in 1..n PROVE Entry1(k).addr \in 0..(U64 - 1)
    <2>1. offsets + k - 1 \in run.va..(run.va + run.len - 1)
      <3>1. run.va \in Int /\ run.len \in Int
        BY DEF Readable
      <3>2. offsets >= run.va /\ offsets + n <= run.va + run.len
        BY <1>1, <1>3 DEF InRun
      <3> QED
        BY <3>1, <3>2
    <2>2. Cell(g, offsets + k - 1) \in Nat
      BY <2>1 DEF Readable, Cell
    <2> QED
      BY <1>2, <2>2, AddressIs
  <1>5. ASSUME NEW k \in 1..n PROVE Len(Entry1(k).name) \in 1..(MaxName - 2)
    <2> DEFINE l == Len(chars[k]) - 1
    <2>1. l \in 1..(MaxName - 2) /\ MaxName \in Nat
      <3>1. Len(chars[k]) \in 2..(MaxName - 1)
        BY <1>1, <1>3
      <3>2. MaxName \in Nat
        BY SymbolBounds
      <3> HIDE DEF SymbolBounds
      <3> QED
        BY <3>1, <3>2
    <2> HIDE DEF l
    <2>2. Len([j \in 1..l |-> chars[k][j + 1]]) = l
      BY <2>1
    <2> QED
      BY <2>1, <2>2 DEF l
  <1>6. ASSUME NEW k \in 1..n PROVE SymbolIn(Entry1(k))
    BY <1>4, <1>5 DEF SymbolIn
  <1> HIDE DEF Entry1
  <1>7. DOMAIN table = 1..n /\ Len(table) = n /\ \A k \in 1..n : table[k] = Entry1(k)
    BY <1>3
  <1>8. table \in Seq(ToSet(table))
    BY <1>3 DEF ToSet
  <1> HIDE DEF table
  <1>9. \A k \in 2..n : table[k].addr >= table[k - 1].addr
    BY <1>1, <1>7 DEF IsTable
  <1>10. ByName(table, TextName) # 0 /\ table[ByName(table, TextName)].addr = i.start
    BY <1>1 DEF IsTable
  <1>11. \A k \in DOMAIN table : SymbolIn(table[k]) /\ table[k].addr \in Int
    <2>1. \A k \in DOMAIN table : SymbolIn(table[k])
      BY <1>6, <1>7
    <2> QED
      BY <2>1, SymbolBounds DEF SymbolIn
  <1>12. Rises(table)
    BY <1>7, <1>8, <1>9, <1>11, RisesStepwise
  <1>13. HasText(table, i.start)
    BY <1>7, <1>10, ByNameIs DEF HasText
  <1> QED
    BY <1>1, <1>11, <1>12, <1>13 DEF Believed

LEMMA TryHitIs ==
    ASSUME NEW g, NEW run, Readable(g, run), NEW i, ImageIn(g, i), NEW cfg, NEW hit \in Nat,
           TryHit(g, run, i, cfg, hit) # NoTable
    PROVE  Believed(TryHit(g, run, i, cfg, hit), i.start)
  <1> DEFINE t == FindTokens(g, run, hit)
             names == LocateNames(g, run, cfg.layout, t.tt)
             olen  == Align(names.n)
             late  == cfg.layout = "v6_4"
             offsets == IF late THEN t.ti + NTokens ELSE names.at - 2 - olen
             relbase == offsets + olen
             chars == Spelled(g, run, t, names)
  <1>1. t # NoTokens /\ TryHit(g, run, i, cfg, hit) = TryNames(g, run, i, cfg, t, names)
    BY DEF TryHit, TryTokens
  <1>2. t.tt \in Int /\ t.ti \in Int
    BY <1>1, TokensAre
  <1> HIDE DEF t
  <1>3. names.n \in Nat /\ names.at \in Int
    BY <1>2, NamesLocated DEF NamesIn
  <1> HIDE DEF names
  <1>4. TryNames(g, run, i, cfg, t, names) = SymTable(g, run, i, cfg, chars, offsets, relbase)
    BY <1>1 DEF TryNames
  <1>5. olen \in Int /\ NTokens \in Int
    BY <1>3, SymbolBounds DEF Align
  <1> HIDE DEF olen
  <1>6. offsets \in Int
    BY <1>2, <1>3, <1>5
  <1>7. chars = [k \in 1..names.n |-> chars[k]]
    BY DEF Spelled
  <1> HIDE DEF offsets, relbase, chars
  <1> QED
    BY <1>1, <1>3, <1>4, <1>6, <1>7, SymTableIs

LEMMA SymbolsLoad ==
    ASSUME NEW g, NEW i, ImageIn(g, i), NEW cfg, KsymLoad(g, i, cfg) # NoTable
    PROVE  Believed(KsymLoad(g, i, cfg), i.start)
  <1> DEFINE Hits == UNION {{<<k, va>> : va \in DigitHits(g, i.runs[k])} : k \in DOMAIN i.runs}
             Tried == {<<h[2], TryHit(g, i.runs[h[1]], i, cfg, h[2])>> : h \in Hits}
             Found == {f \in Tried : f[2] # NoTable}
  <1>1. ASSUME NEW h \in Hits PROVE h[1] \in DOMAIN i.runs /\ h[2] \in Nat
    <2>1. PICK k \in DOMAIN i.runs : \E va \in DigitHits(g, i.runs[k]) : h = <<k, va>>
      OBVIOUS
    <2>2. PICK va \in DigitHits(g, i.runs[k]) : h = <<k, va>>
      BY <2>1
    <2>3. va \in Nat
      BY SymbolBounds DEF DigitHits, ImageIn, Readable
    <2> QED
      BY <2>2, <2>3
  <1>2. KsymLoad(g, i, cfg) = Earliest(Found, NoTable)
    BY DEF KsymLoad
  <1> HIDE DEF Hits
  <1>3. \A f \in Found : f[1] \in Nat
    BY <1>1
  <1>4. Found # {}
    BY <1>2 DEF Earliest
  <1>5. PICK f \in Found : KsymLoad(g, i, cfg) = f[2]
    <2> HIDE DEF Found
    <2> QED
      BY <1>2, <1>3, <1>4, EarliestIs
  <1>6. PICK h \in Hits : f = <<h[2], TryHit(g, i.runs[h[1]], i, cfg, h[2])>>
    OBVIOUS
  <1>7. Readable(g, i.runs[h[1]])
    BY <1>1 DEF ImageIn
  <1>8. KsymLoad(g, i, cfg) = TryHit(g, i.runs[h[1]], i, cfg, h[2])
    BY <1>5, <1>6
  <1> QED
    BY <1>1, <1>7, <1>8, TryHitIs

-----------------------------------------------------------------------------
(* Types that are believed refer to each other, and are made of numbers.    *)
ItemIn(t, m, n) ==
    /\ t.kind \in Composite => m.type \in 0..(n - 1) /\ m.off \in Nat /\ m.width \in Nat
    /\ t.kind \in Enums => m.val \in 0..(Pow2[EnumBits(t.kind)] - 1)

TypeIn(t, n) ==
    /\ t.st \in Nat /\ t.kflag \in BOOLEAN
    /\ t.kind \in Modifiers \cup {"var"} => t.st \in 0..(n - 1)
    /\ t.kind = "int" => t.bits \in Nat /\ t.boff \in Nat /\ t.signed \in BOOLEAN
    /\ t.kind = "array" => t.elem \in 0..(n - 1) /\ t.nelems \in Nat
    /\ DOMAIN t.items \in SUBSET Nat
    /\ \A k \in DOMAIN t.items : ItemIn(t, t.items[k], n)

BtfIn(b) ==
    /\ b.n \in Nat
    /\ IF b = NoBtf THEN b.n = 0 ELSE b.n = Len(b.types) + 1 /\ b.n # 0
    /\ \A id \in 1..(b.n - 1) : TypeIn(b.types[id], b.n)

(* One type of a guest, its references checked.                             *)
LEMMA CheckedIs ==
    ASSUME NEW g \in Guests, NEW va \in DOMAIN g.blobs, NEW t, t \in ToSet(g.blobs[va].types),
           NEW n \in Nat, NEW most, CheckRefs(t, n, most)
    PROVE  TypeIn(t, n)
  <1>1. /\ t.st \in Nat /\ t.kflag \in BOOLEAN /\ t.items \in Seq(ToSet(t.items))
        /\ t.kind = "int" => t.bits \in Nat /\ t.boff \in Nat /\ t.signed \in BOOLEAN
        /\ t.kind = "array" => t.elem \in Nat /\ t.nelems \in Nat
        /\ \A m \in ToSet(t.items) :
              /\ t.kind \in Composite => {m.type, m.off, m.width} \subseteq Nat
              /\ t.kind \in Enums => m.val \in 0..(Pow2[EnumBits(t.kind)] - 1)
    BY GuestTypes
  <1>2. t.kind \in Modifiers \cup {"var"} => t.st \in 0..(n - 1)
    <2> SUFFICES ASSUME t.kind \in Modifiers \cup {"var"} PROVE t.st \in 0..(n - 1)
      OBVIOUS
    <2>1. t.st < n
      BY DEF CheckRefs, Referring
    <2> QED
      BY <1>1, <2>1
  <1>3. t.kind = "array" => t.elem \in 0..(n - 1) /\ t.nelems \in Nat
    <2> SUFFICES ASSUME t.kind = "array" PROVE t.elem \in 0..(n - 1) /\ t.nelems \in Nat
      OBVIOUS
    <2>1. t.elem < n
      BY DEF CheckRefs
    <2> QED
      BY <1>1, <2>1
  <1>4. DOMAIN t.items \in SUBSET Nat
    <2>1. t.items \in Seq(ToSet(t.items))
      BY <1>1
    <2> QED
      BY <2>1
  <1>5. ASSUME NEW k \in DOMAIN t.items PROVE ItemIn(t, t.items[k], n)
    <2> DEFINE m == t.items[k]
    <2>1. m \in ToSet(t.items)
      BY DEF ToSet
    <2>2. /\ t.kind \in Composite => m.type \in Nat /\ m.off \in Nat /\ m.width \in Nat
          /\ t.kind \in Enums => m.val \in 0..(Pow2[EnumBits(t.kind)] - 1)
      BY <1>1, <2>1
    <2>3. t.kind \in Composite => m.type < n
      BY <2>1 DEF CheckRefs
    <2> HIDE DEF m
    <2>4. ItemIn(t, m, n)
      BY <2>2, <2>3 DEF ItemIn
    <2> QED
      BY <2>4 DEF m
  <1> QED
    BY <1>1, <1>2, <1>3, <1>4, <1>5 DEF TypeIn

LEMMA ParseIs ==
    ASSUME NEW g \in Guests, NEW va \in DOMAIN g.blobs
    PROVE  BtfIn(Parse(g.blobs[va]))
  <1> DEFINE blob == g.blobs[va]
             types == blob.types
             counts == Counts(blob.hdr, types)
             count == CHOOSE k \in counts : TRUE
             b == Parse(blob)
  <1>1. CASE b = NoBtf
    BY <1>1 DEF BtfIn, NoBtf
  <1>2. CASE b # NoBtf
    <2>1. /\ counts # {}
          /\ \A id \in 1..count : CheckRefs(types[id], count + 1, blob.hdr.strLen)
          /\ b = [NoBtf EXCEPT !.n = count + 1, !.types = SubSeq(types, 1, count),
                               !.strs = blob.strs, !.len = Total(blob.hdr)]
      BY <1>2 DEF Parse
    <2>2. types \in Seq(ToSet(types))
      BY GuestTypes
    <2> HIDE DEF b
    <2>3. counts \subseteq 0..Len(types) /\ Len(types) \in Nat
      BY <2>2 DEF Counts
    <2> HIDE DEF counts
    <2>4. count \in 0..Len(types) /\ count \in Nat
      BY <2>1, <2>3
    <2> HIDE DEF count
    <2>5. ASSUME NEW id \in 1..count PROVE TypeIn(types[id], count + 1)
      <3>1. types[id] \in ToSet(types)
        BY <2>2, <2>4 DEF ToSet
      <3>2. CheckRefs(types[id], count + 1, blob.hdr.strLen)
        BY <2>1
      <3>3. count + 1 \in Nat
        BY <2>4
      <3> QED
        BY <3>1, <3>2, <3>3, CheckedIs
    <2> HIDE DEF types
    <2>6. b.n = count + 1 /\ b.types = SubSeq(types, 1, count)
      BY <2>1 DEF NoBtf
    <2>7. Len(b.types) = count /\ \A id \in 1..count : b.types[id] = types[id]
      BY <2>2, <2>4, <2>6
    <2>8. b.n - 1 = count
      BY <2>4, <2>6
    <2>9. b # NoBtf /\ b.n = Len(b.types) + 1 /\ b.n # 0 /\ b.n \in Nat
      BY <1>2, <2>4, <2>6, <2>7 DEF b
    <2>10. BtfIn(b)
      BY <2>5, <2>6, <2>7, <2>8, <2>9 DEF BtfIn
    <2> QED
      BY <2>10 DEF b
  <1> QED
    BY <1>1, <1>2

LEMMA SameTypes ==
    ASSUME NEW b, BtfIn(b), b # NoBtf, NEW c, c.n = b.n, c.types = b.types
    PROVE  BtfIn(c)
  BY DEF BtfIn, NoBtf

LEMMA BlobIs ==
    ASSUME NEW g \in Guests, NEW i, NEW va, NEW most
    PROVE  BtfIn(TryBlob(g, i, va, most))
  <1> DEFINE got == Parse(g.blobs[va])
             moved == [got EXCEPT !.va = va]
  <1>1. BtfIn(NoBtf)
    BY DEF BtfIn, NoBtf
  <1>2. \/ TryBlob(g, i, va, most) = NoBtf
        \/ va \in DOMAIN g.blobs /\ got # NoBtf /\ TryBlob(g, i, va, most) = moved
    BY DEF TryBlob
  <1>3. ASSUME va \in DOMAIN g.blobs PROVE BtfIn(got)
    BY <1>3, ParseIs
  <1> HIDE DEF got
  <1>4. moved.n = got.n /\ moved.types = got.types
    OBVIOUS
  <1> HIDE DEF moved
  <1> QED
    BY <1>1, <1>2, <1>3, <1>4, SameTypes

LEMMA TypesLocate ==
    ASSUME NEW g \in Guests, NEW i
    PROVE  BtfIn(Locate(g, i))
  <1> DEFINE start == ByName(sym, StartBtf)
             stop  == ByName(sym, StopBtf)
             tried == TryBlob(g, i, sym[start].addr, sym[stop].addr - sym[start].addr)
             given == [tried EXCEPT !.bySymbol = TRUE]
  <1>1. BtfIn(NoBtf)
    BY DEF BtfIn, NoBtf
  <1>2. \/ Locate(g, i) = given /\ tried # NoBtf
        \/ Locate(g, i) = NoBtf
        \/ \E va : Locate(g, i) = TryBlob(g, i, va, MaxBlob)
    BY DEF Locate
  <1>3. BtfIn(tried)
    BY BlobIs
  <1> HIDE DEF tried
  <1>4. given.n = tried.n /\ given.types = tried.types
    OBVIOUS
  <1> HIDE DEF given
  <1> QED
    BY <1>1, <1>2, <1>3, <1>4, SameTypes, BlobIs

-----------------------------------------------------------------------------
(* A recursion over levels: what is at a level is made from the level below.*)
LevelsOf(X, h, x, m, f) ==
    f \in [0..m -> X] /\ f[0] = x /\ \A k \in 1..m : f[k] = h[f[k - 1]]

LEMMA LevelsExist ==
    ASSUME NEW X, NEW h \in [X -> X], NEW x \in X, NEW m \in Nat
    PROVE  \E f : LevelsOf(X, h, x, m, f)
  <1> DEFINE S == {n \in Nat : \E f : LevelsOf(X, h, x, n, f)}
  <1>1. 0 \in S
    <2> DEFINE f == [k \in 0..0 |-> x]
    <2>1. LevelsOf(X, h, x, 0, f)
      BY DEF LevelsOf
    <2> QED
      BY <2>1
  <1>2. ASSUME NEW n \in S PROVE n + 1 \in S
    <2>1. PICK f : LevelsOf(X, h, x, n, f)
      OBVIOUS
    <2> DEFINE e == [k \in 0..(n + 1) |-> IF k = n + 1 THEN h[f[n]] ELSE f[k]]
    <2>2. f[n] \in X /\ \A k \in 0..n : f[k] \in X
      BY <2>1 DEF LevelsOf
    <2>3. e \in [0..(n + 1) -> X] /\ e[n + 1] = h[f[n]] /\ \A k \in 0..n : e[k] = f[k]
      BY <2>2
    <2> HIDE DEF e
    <2>4. ASSUME NEW k \in 1..(n + 1) PROVE e[k] = h[e[k - 1]]
      <3>1. CASE k = n + 1
        BY <2>3, <3>1
      <3>2. CASE k # n + 1
        <4>1. k \in 1..n /\ k \in 0..n /\ k - 1 \in 0..n
          BY <3>2
        <4> QED
          BY <2>1, <2>3, <4>1 DEF LevelsOf
      <3> QED
        BY <3>1, <3>2
    <2>5. e[0] = x
      BY <2>1, <2>3 DEF LevelsOf
    <2>6. LevelsOf(X, h, x, n + 1, e)
      BY <2>3, <2>4, <2>5 DEF LevelsOf
    <2> QED
      BY <2>6
  <1>3. S = Nat
    <2> HIDE DEF S
    <2> QED
      BY <1>1, <1>2, NatInduct DEF S
  <1> QED
    BY <1>3

LEMMA LevelsStay ==
    ASSUME NEW X, NEW h \in [X -> X], NEW x \in X, NEW m \in Nat, NEW f,
           f[0] = x, \A k \in 1..m : f[k - 1] \in X => f[k] = h[f[k - 1]]
    PROVE  \A k \in 0..m : f[k] \in X
  <1> DEFINE S == {k \in Nat : k \in 0..m => f[k] \in X}
  <1>1. 0 \in S
    OBVIOUS
  <1>2. ASSUME NEW k \in S PROVE k + 1 \in S
    <2> SUFFICES ASSUME k + 1 \in 0..m PROVE f[k + 1] \in X
      OBVIOUS
    <2>1. k + 1 \in 1..m /\ (k + 1) - 1 = k /\ k \in 0..m
      OBVIOUS
    <2>2. f[k] \in X
      BY <2>1
    <2> QED
      BY <2>1, <2>2
  <1>3. S = Nat
    <2> HIDE DEF S
    <2> QED
      BY <1>1, <1>2, NatInduct DEF S
  <1> QED
    BY <1>3

(* The same, where what a level makes of the one below depends on the level.*)
RowsOf(X, h, x, m, f) ==
    f \in [0..m -> X] /\ f[0] = x /\ \A k \in 1..m : f[k] = h[k][f[k - 1]]

LEMMA RowsExist ==
    ASSUME NEW X, NEW m \in Nat, NEW h \in [1..m -> [X -> X]], NEW x \in X
    PROVE  \E f : RowsOf(X, h, x, m, f)
  <1> DEFINE S == {n \in Nat : n <= m => \E f : RowsOf(X, h, x, n, f)}
  <1>1. 0 \in S
    <2> DEFINE f == [k \in 0..0 |-> x]
    <2>1. RowsOf(X, h, x, 0, f)
      BY DEF RowsOf
    <2> QED
      BY <2>1
  <1>2. ASSUME NEW n \in S PROVE n + 1 \in S
    <2> SUFFICES ASSUME n + 1 <= m PROVE \E f : RowsOf(X, h, x, n + 1, f)
      OBVIOUS
    <2>1. PICK f : RowsOf(X, h, x, n, f)
      OBVIOUS
    <2> DEFINE e == [k \in 0..(n + 1) |-> IF k = n + 1 THEN h[n + 1][f[n]] ELSE f[k]]
    <2>2. f[n] \in X /\ \A k \in 0..n : f[k] \in X
      BY <2>1 DEF RowsOf
    <2>3. n + 1 \in 1..m
      OBVIOUS
    <2>4. h[n + 1][f[n]] \in X
      BY <2>2, <2>3
    <2>5. e \in [0..(n + 1) -> X] /\ e[n + 1] = h[n + 1][f[n]] /\ \A k \in 0..n : e[k] = f[k]
      BY <2>2, <2>4
    <2> HIDE DEF e
    <2>6. ASSUME NEW k \in 1..(n + 1) PROVE e[k] = h[k][e[k - 1]]
      <3>1. CASE k = n + 1
        BY <2>5, <3>1
      <3>2. CASE k # n + 1
        <4>1. k \in 1..n /\ k \in 0..n /\ k - 1 \in 0..n
          BY <3>2
        <4> QED
          BY <2>1, <2>5, <4>1 DEF RowsOf
      <3> QED
        BY <3>1, <3>2
    <2>7. e[0] = x
      BY <2>1, <2>5 DEF RowsOf
    <2>8. RowsOf(X, h, x, n + 1, e)
      BY <2>5, <2>6, <2>7 DEF RowsOf
    <2> QED
      BY <2>8
  <1>3. S = Nat
    <2> HIDE DEF S
    <2> QED
      BY <1>1, <1>2, NatInduct DEF S
  <1>4. m \in S
    <2> HIDE DEF S
    <2> QED
      BY <1>3
  <1> QED
    BY <1>4

-----------------------------------------------------------------------------
(* Looking up in types that are believed stays among them.                  *)
Typed == BtfIn(btf) /\ btf.n # 0

LEMMA TypeIs ==
    ASSUME Typed, NEW id \in Ids
    PROVE  /\ TypeIn(Type(id), btf.n)
           /\ LET t == Type(id)
              IN  /\ t.kind \in Modifiers \cup {"var"} => t.st \in Ids
                  /\ t.kind = "int" => t.boff \in Nat /\ t.bits \in Nat
                  /\ t.kind = "array" => t.elem \in Ids
                  /\ t.kind \in Composite =>
                        /\ DOMAIN t.items \in SUBSET Nat
                        /\ \A k \in DOMAIN t.items :
                              t.items[k].type \in Ids /\ t.items[k].off \in Nat /\ t.items[k].width \in Nat
  <1>1. TypeIn(Type(id), btf.n)
    <2>1. CASE id = 0
      <3>1. Type(id) = Void
        BY <2>1 DEF Type
      <3> QED
        BY <3>1 DEF TypeIn, Void, Modifiers
    <2>2. CASE id # 0
      <3>1. id \in 1..(btf.n - 1)
        BY <2>2 DEF Ids, Typed, BtfIn
      <3>2. Type(id) = btf.types[id]
        BY <2>2 DEF Type
      <3> QED
        BY <3>1, <3>2 DEF Typed, BtfIn
    <2> QED
      BY <2>1, <2>2
  <1> QED
    BY <1>1 DEF TypeIn, ItemIn, Ids

LEMMA ZeroIsId == Typed => 0 \in Ids
  BY DEF Typed, BtfIn, Ids

ResolveRow(f, left) ==
    [t \in Ids |-> IF left = 0 THEN 0
                   ELSE IF Kind(t) \in Modifiers THEN f[left - 1][Type(t).st] ELSE t]

ResolveRows(f) ==
    /\ f \in [0..MaxDepth -> [Ids -> Ids]]
    /\ \A left \in 0..MaxDepth : f[left] = ResolveRow(f, left)
    /\ \A id \in Ids : Resolve(id) = f[MaxDepth][id]

LEMMA ResolvesBy == Typed => \E f : ResolveRows(f)
  <1> SUFFICES ASSUME Typed PROVE \E f : ResolveRows(f)
    OBVIOUS
  <1> DEFINE X == [Ids -> Ids]
             x == [t \in Ids |-> 0]
             h == [p \in X |-> [t \in Ids |-> IF Kind(t) \in Modifiers THEN p[Type(t).st] ELSE t]]
             Eq(f) == f = [left \in 0..MaxDepth |-> ResolveRow(f, left)]
  <1>1. x \in X
    BY ZeroIsId
  <1>2. ASSUME NEW p \in X
        PROVE  [t \in Ids |-> IF Kind(t) \in Modifiers THEN p[Type(t).st] ELSE t] \in X
    <2>1. ASSUME NEW t \in Ids
          PROVE  (IF Kind(t) \in Modifiers THEN p[Type(t).st] ELSE t) \in Ids
      <3>1. Kind(t) \in Modifiers => Type(t).st \in Ids
        BY TypeIs DEF Kind
      <3> QED
        BY <3>1
    <2> QED
      BY <2>1
  <1>3. h \in [X -> X]
    BY <1>2
  <1>4. MaxDepth \in Nat
    BY TypeBounds
  <1>5. ASSUME NEW f, NEW left \in 1..MaxDepth, f[left - 1] \in X
        PROVE  ResolveRow(f, left) = h[f[left - 1]]
    <2>1. left # 0
      BY <1>4
    <2> QED
      BY <1>5, <2>1 DEF ResolveRow
  <1>6. ASSUME NEW f PROVE ResolveRow(f, 0) = x
    BY DEF ResolveRow
  <1>7. PICK e : LevelsOf(X, h, x, MaxDepth, e)
    <2> HIDE DEF X, h, x
    <2> QED
      BY <1>1, <1>3, <1>4, LevelsExist
  <1> HIDE DEF X, h, x
  <1>8. Eq(e)
    <2>1. ASSUME NEW left \in 0..MaxDepth PROVE e[left] = ResolveRow(e, left)
      <3>1. CASE left = 0
        BY <1>6, <1>7, <3>1 DEF LevelsOf
      <3>2. CASE left # 0
        <4>1. left \in 1..MaxDepth /\ left - 1 \in 0..MaxDepth
          BY <1>4, <3>2
        <4>2. e[left - 1] \in X /\ e[left] = h[e[left - 1]]
          BY <1>7, <4>1 DEF LevelsOf
        <4> QED
          BY <1>5, <4>1, <4>2
      <3> QED
        BY <3>1, <3>2
    <2>2. e = [left \in 0..MaxDepth |-> e[left]]
      BY <1>7 DEF LevelsOf
    <2> QED
      BY <2>1, <2>2
  <1>9. \A id \in Ids : Resolve(id) = (CHOOSE f : Eq(f))[MaxDepth][id]
    BY DEF Resolve, ResolveRow
  <1>10. PICK f : Eq(f) /\ \A id \in Ids : Resolve(id) = f[MaxDepth][id]
    BY <1>8, <1>9
  <1>11. \A left \in 0..MaxDepth : f[left] = ResolveRow(f, left)
    BY <1>10
  <1>12. f[0] = x /\ \A left \in 1..MaxDepth : f[left - 1] \in X => f[left] = h[f[left - 1]]
    BY <1>4, <1>5, <1>6, <1>11
  <1>13. \A left \in 0..MaxDepth : f[left] \in X
    BY <1>1, <1>3, <1>4, <1>12, LevelsStay
  <1>14. f \in [0..MaxDepth -> X]
    <2>1. f = [left \in 0..MaxDepth |-> ResolveRow(f, left)]
      BY <1>10
    <2> QED
      BY <1>11, <1>13, <2>1
  <1> QED
    BY <1>10, <1>11, <1>14 DEF ResolveRows, X

LEMMA ResolveIs ==
    ASSUME Typed, NEW id \in Ids
    PROVE  Resolve(id) \in Ids
  <1>1. PICK f : ResolveRows(f)
    BY ResolvesBy
  <1>2. MaxDepth \in 0..MaxDepth
    BY TypeBounds
  <1> QED
    BY <1>1, <1>2 DEF ResolveRows

(* What a search for a member may give.                                     *)
Members == {No} \cup [ok : {TRUE}, type : Ids, off : Nat, width : Nat]

HitIn(p, t, m, name) ==
    IF NameOf(m) = NoName THEN Shifted(p[m.type], m.off)
    ELSE IF NameOf(m) = name THEN Declared(t, m, Type(Resolve(m.type)))
    ELSE No

AmongIn(p, t, name) ==
    IF t.kind \notin Composite THEN No
    ELSE Earliest({h \in {<<i, HitIn(p, t, t.items[i], name)>> : i \in DOMAIN t.items} : h[2].ok}, No)

MemberRow(f, left, name) ==
    [s \in Ids |-> IF left = 0 THEN No ELSE AmongIn(f[left - 1], Type(Resolve(s)), name)]

LEMMA ShiftedIs ==
    ASSUME NEW m \in Members, NEW base \in Nat
    PROVE  Shifted(m, base) \in Members
  <1>1. CASE m = No
    BY <1>1 DEF Shifted, No, Members
  <1>2. CASE m # No
    <2>1. m \in [ok : {TRUE}, type : Ids, off : Nat, width : Nat]
      BY <1>2 DEF Members
    <2>2. Shifted(m, base) = [m EXCEPT !.off = @ + base]
      BY <2>1 DEF Shifted
    <2>3. [m EXCEPT !.off = @ + base] \in [ok : {TRUE}, type : Ids, off : Nat, width : Nat]
      <3> DEFINE o == m.off + base
      <3>1. o \in Nat
        BY <2>1
      <3> HIDE DEF o
      <3>2. [m EXCEPT !.off = o] \in [ok : {TRUE}, type : Ids, off : Nat, width : Nat]
        BY <2>1, <3>1
      <3> QED
        BY <3>2 DEF o
    <2> QED
      BY <2>2, <2>3 DEF Members
  <1> QED
    BY <1>1, <1>2

LEMMA HitIs ==
    ASSUME Typed, NEW p \in [Ids -> Members], NEW id \in Ids, Type(id).kind \in Composite,
           NEW k \in DOMAIN Type(id).items, NEW name
    PROVE  HitIn(p, Type(id), Type(id).items[k], name) \in Members
  <1> DEFINE t == Type(id)
             m == t.items[k]
             mt == Type(Resolve(m.type))
  <1>1. m.type \in Ids /\ m.off \in Nat /\ m.width \in Nat
    BY TypeIs
  <1>3. Resolve(m.type) \in Ids
    BY <1>1, ResolveIs
  <1>4. mt.kind = "int" => mt.boff \in Nat /\ mt.bits \in Nat
    BY <1>3, TypeIs
  <1> HIDE DEF t, m, mt
  <1>6. Declared(t, m, mt) \in Members
    BY <1>1, <1>4 DEF Declared, Narrow, Members
  <1>7. No \in Members
    BY DEF Members
  <1>8. Shifted(p[m.type], m.off) \in Members
    BY <1>1, ShiftedIs
  <1>9. HitIn(p, t, m, name) \in Members
    BY <1>6, <1>7, <1>8 DEF HitIn, mt
  <1> QED
    BY <1>9 DEF t, m

LEMMA AmongIs ==
    ASSUME Typed, NEW p \in [Ids -> Members], NEW id \in Ids, NEW name
    PROVE  AmongIn(p, Type(id), name) \in Members
  <1> DEFINE t == Type(id)
             All == {<<i, HitIn(p, t, t.items[i], name)>> : i \in DOMAIN t.items}
             Found == {h \in All : h[2].ok}
  <1>1. No \in Members
    BY DEF Members
  <1>2. CASE t.kind \notin Composite
    BY <1>1, <1>2 DEF AmongIn
  <1>3. CASE t.kind \in Composite
    <2>1. AmongIn(p, t, name) = Earliest(Found, No)
      BY <1>3 DEF AmongIn
    <2>2. \A i \in DOMAIN t.items : i \in Nat /\ HitIn(p, t, t.items[i], name) \in Members
      BY <1>3, TypeIs, HitIs
    <2>3. \A h \in Found : h[1] \in Nat /\ h[2] \in Members
      <3> HIDE DEF t
      <3> QED
        BY <2>2
    <2> HIDE DEF Found, t
    <2>4. CASE Found = {}
      BY <1>1, <2>1, <2>4 DEF Earliest, t
    <2>5. CASE Found # {}
      BY <2>1, <2>3, <2>5, EarliestIs DEF t
    <2> QED
      BY <2>4, <2>5
  <1> QED
    BY <1>2, <1>3

MemberRows(f, name) ==
    /\ f \in [0..(MaxDepth + 1) -> [Ids -> Members]]
    /\ \A left \in 0..(MaxDepth + 1) : f[left] = MemberRow(f, left, name)
    /\ \A id \in Ids : FindMember(id, name) = f[MaxDepth + 1][id]

LEMMA FindsBy ==
    ASSUME Typed, NEW name
    PROVE  \E f : MemberRows(f, name)
  <1> DEFINE n == MaxDepth + 1
             X == [Ids -> Members]
             x == [s \in Ids |-> No]
             h == [p \in X |-> [s \in Ids |-> AmongIn(p, Type(Resolve(s)), name)]]
             Eq(f) == f = [left \in 0..n |-> MemberRow(f, left, name)]
  <1>1. x \in X
    BY DEF Members
  <1>2. ASSUME NEW p \in X PROVE [s \in Ids |-> AmongIn(p, Type(Resolve(s)), name)] \in X
    BY ResolveIs, AmongIs
  <1>3. h \in [X -> X]
    BY <1>2
  <1>4. n \in Nat
    BY TypeBounds
  <1>5. ASSUME NEW f, NEW left \in 1..n, f[left - 1] \in X
        PROVE  MemberRow(f, left, name) = h[f[left - 1]]
    <2>1. left # 0
      BY <1>4
    <2> QED
      BY <1>5, <2>1 DEF MemberRow
  <1>6. ASSUME NEW f PROVE MemberRow(f, 0, name) = x
    BY DEF MemberRow
  <1>7. \A id \in Ids : FindMember(id, name) = (CHOOSE f : Eq(f))[n][id]
    BY DEF FindMember, MemberRow, AmongIn, HitIn
  <1>8. PICK e : LevelsOf(X, h, x, n, e)
    <2> HIDE DEF X, h, x, n
    <2> QED
      BY <1>1, <1>3, <1>4, LevelsExist
  <1> HIDE DEF X, h, x, n
  <1>9. Eq(e)
    <2>1. ASSUME NEW left \in 0..n PROVE e[left] = MemberRow(e, left, name)
      <3>1. CASE left = 0
        BY <1>6, <1>8, <3>1 DEF LevelsOf
      <3>2. CASE left # 0
        <4>1. left \in 1..n /\ left - 1 \in 0..n
          BY <1>4, <3>2
        <4>2. e[left - 1] \in X /\ e[left] = h[e[left - 1]]
          BY <1>8, <4>1 DEF LevelsOf
        <4> QED
          BY <1>5, <4>1, <4>2
      <3> QED
        BY <3>1, <3>2
    <2>2. e = [left \in 0..n |-> e[left]]
      BY <1>8 DEF LevelsOf
    <2> QED
      BY <2>1, <2>2
  <1>10. PICK f : Eq(f) /\ \A id \in Ids : FindMember(id, name) = f[n][id]
    BY <1>7, <1>9
  <1>11. \A left \in 0..n : f[left] = MemberRow(f, left, name)
    BY <1>10
  <1>12. f[0] = x /\ \A left \in 1..n : f[left - 1] \in X => f[left] = h[f[left - 1]]
    BY <1>4, <1>5, <1>6, <1>11
  <1>13. \A left \in 0..n : f[left] \in X
    BY <1>1, <1>3, <1>4, <1>12, LevelsStay
  <1>14. f \in [0..n -> X]
    <2>1. f = [left \in 0..n |-> MemberRow(f, left, name)]
      BY <1>10
    <2> QED
      BY <1>11, <1>13, <2>1
  <1> QED
    BY <1>10, <1>11, <1>14 DEF MemberRows, X, n

LEMMA FindMemberIs ==
    ASSUME Typed, NEW id \in Ids, NEW name
    PROVE  FindMember(id, name) \in Members
  <1>1. PICK f : MemberRows(f, name)
    BY FindsBy
  <1>2. MaxDepth + 1 \in 0..(MaxDepth + 1)
    BY TypeBounds
  <1> QED
    BY <1>1, <1>2 DEF MemberRows

(* A dotted path is taken name by name.                                     *)
Outset(id) == [ok |-> TRUE, type |-> id, off |-> 0, width |-> 0]

LEMMA MemberInIs ==
    ASSUME Typed, NEW up \in Members, NEW name
    PROVE  MemberIn(up, name) \in Members
  <1>1. No \in Members
    BY DEF Members
  <1>2. CASE name = NoName \/ ~up.ok \/ up.width # 0
    BY <1>1, <1>2 DEF MemberIn
  <1>3. CASE ~(name = NoName \/ ~up.ok \/ up.width # 0)
    <2>1. up.type \in Ids /\ up.off \in Nat
      <3>1. up # No
        <4>1. up.ok
          BY <1>3, Zenon
        <4> QED
          BY <4>1 DEF No
      <3>2. up \in [ok : {TRUE}, type : Ids, off : Nat, width : Nat]
        BY <3>1 DEF Members
      <3> QED
        BY <3>2
    <2>2. FindMember(up.type, name) \in Members
      BY <2>1, FindMemberIs
    <2>3. Shifted(FindMember(up.type, name), up.off) \in Members
      BY <2>1, <2>2, ShiftedIs
    <2> QED
      BY <1>3, <2>3 DEF MemberIn
  <1> QED
    BY <1>2, <1>3

LEMMA MemberIs ==
    ASSUME Typed, NEW id \in Ids, NEW path, Len(path) \in Nat
    PROVE  \E f \in [0..Len(path) -> Members] :
               /\ f[0] = Outset(id)
               /\ \A k \in 1..Len(path) : f[k] = MemberIn(f[k - 1], path[k])
               /\ Member(id, path) = f[Len(path)]
  <1> DEFINE n == Len(path)
             h == [k \in 1..n |-> [up \in Members |-> MemberIn(up, path[k])]]
             Row(f, k) == IF k = 0 THEN Outset(id) ELSE MemberIn(f[k - 1], path[k])
             Eq(f) == f = [k \in 0..n |-> Row(f, k)]
  <1>1. Outset(id) \in Members
    BY DEF Outset, Members
  <1>2. h \in [1..n -> [Members -> Members]]
    BY MemberInIs
  <1>3. ASSUME NEW k \in 1..n, NEW up \in Members PROVE h[k][up] = MemberIn(up, path[k])
    OBVIOUS
  <1> HIDE DEF h
  <1>4. PICK e : RowsOf(Members, h, Outset(id), n, e)
    BY <1>1, <1>2, RowsExist
  <1>5. ASSUME NEW k \in 0..n PROVE e[k] = Row(e, k)
    <2>1. CASE k = 0
      BY <1>4, <2>1 DEF RowsOf
    <2>2. CASE k # 0
      <3>1. k \in 1..n /\ k - 1 \in 0..n
        BY <2>2
      <3>2. e[k] = h[k][e[k - 1]] /\ e[k - 1] \in Members
        BY <1>4, <3>1 DEF RowsOf
      <3> QED
        BY <1>3, <2>2, <3>1, <3>2
    <2> QED
      BY <2>1, <2>2
  <1>6. e = [k \in 0..n |-> e[k]]
    BY <1>4 DEF RowsOf
  <1>7. Eq(e)
    BY <1>5, <1>6
  <1>8. Member(id, path) = (CHOOSE f : Eq(f))[n]
    BY DEF Member, Outset
  <1>9. PICK f : Eq(f) /\ Member(id, path) = f[n]
    BY <1>7, <1>8
  <1>10. \A k \in 0..n : f[k] = Row(f, k)
    BY <1>9
  <1>11. f[0] = Outset(id) /\ \A k \in 1..n : f[k] = MemberIn(f[k - 1], path[k])
    BY <1>10
  <1> DEFINE S == {k \in Nat : k <= n => f[k] \in Members}
  <1>12. \A k \in Nat : k \in S
    <2>1. 0 \in S
      BY <1>1, <1>11
    <2>2. ASSUME NEW k \in S PROVE k + 1 \in S
      <3> SUFFICES ASSUME k + 1 <= n PROVE f[k + 1] \in Members
        OBVIOUS
      <3>1. f[k] \in Members /\ k + 1 \in 1..n /\ (k + 1) - 1 = k
        OBVIOUS
      <3>2. f[k + 1] = MemberIn(f[k], path[k + 1])
        BY <1>11, <3>1
      <3> QED
        BY <3>1, <3>2, MemberInIs
    <2>3. S \subseteq Nat
      OBVIOUS
    <2> HIDE DEF S
    <2> QED
      BY <2>1, <2>2, <2>3, NatInduct
  <1>13. f \in [0..n -> Members]
    <2>1. \A k \in 0..n : f[k] \in Members
      BY <1>12
    <2>2. f = [k \in 0..n |-> Row(f, k)]
      BY <1>9
    <2> HIDE DEF Row
    <2> QED
      BY <1>10, <2>1, <2>2
  <1> QED
    BY <1>9, <1>11, <1>13

-----------------------------------------------------------------------------
(* The offsets lists are walked by are numbers.                             *)
LEMMA FindIs ==
    ASSUME Typed, NEW name, NEW kind
    PROVE  Find(name, kind) \in Ids
  <1> DEFINE Named == {id \in Ids \ {0} : NameOf(btf.types[id]) = name /\ kind \in {"any", Kind(id)}}
             Defs  == {id \in Named : kind # "any" \/ Kind(id) # "fwd"}
             These == IF Defs # {} THEN Defs ELSE Named
  <1>1. Find(name, kind) = IF name = NoName \/ Named = {} THEN 0 ELSE Min(These)
    BY DEF Find
  <1>2. These \subseteq Ids /\ (Named # {} => These # {}) /\ Ids \subseteq Nat
    BY DEF Ids, Typed, BtfIn
  <1> HIDE DEF Named, These
  <1>3. ASSUME Named # {} PROVE Min(These) \in These
    BY <1>2, <1>3, MinIs
  <1> QED
    BY <1>1, <1>2, <1>3, ZeroIsId

LEMMA FieldTypeIs ==
    ASSUME Typed, NEW tag, NEW name
    PROVE  FieldType(tag, name) \in Ids
  BY FindIs, ZeroIsId DEF FieldType

LEMMA RvEnumIs ==
    ASSUME Typed, NEW name
    PROVE  RvEnum(name) \in Ids
  BY FindIs, ZeroIsId DEF RvEnum, RvFindType

LEMMA MemberOffset ==
    ASSUME Typed, NEW type, NEW member, NEW want
    PROVE  LinkMember(type, member, want) \in Int \cup {NoMember}
  <1> DEFINE id == FieldType(NoName, type)
             m == IF id = 0 THEN No ELSE Member(id, <<member>>)
             f == FieldOf(m)
  <1>1. id \in Ids
    BY FieldTypeIs
  <1> HIDE DEF id
  <1>2. Len(<<member>>) = 1
    OBVIOUS
  <1>3. Member(id, <<member>>) \in Members
    BY <1>1, <1>2, MemberIs
  <1>4. m \in Members
    BY <1>3 DEF Members
  <1> HIDE DEF m
  <1>5. f.ok => f.offset \in Int
    <2>1. CASE f = No
      BY <2>1 DEF No
    <2>2. CASE f # No
      <3>1. m.ok /\ f.offset = m.off \div ByteBits
        BY <2>2 DEF FieldOf, FieldAt
      <3>2. m.off \in Nat
        <4>1. m # No
          BY <3>1 DEF No
        <4>2. m \in [ok : {TRUE}, type : Ids, off : Nat, width : Nat]
          BY <1>4, <4>1 DEF Members
        <4> QED
          BY <4>2
      <3>3. ByteBits \in Nat \ {0}
        BY TypeBounds
      <3> QED
        BY <3>1, <3>2, <3>3
    <2> QED
      BY <2>1, <2>2
  <1>6. LinkMember(type, member, want) = OffsetOf(f, want)
    BY DEF LinkMember, FieldNamed, Field, m, id
  <1> HIDE DEF f
  <1> QED
    BY <1>5, <1>6 DEF OffsetOf

LEMMA OffsetsAreNumbers ==
    ASSUME Typed, NEW want
    PROVE  OffsetsOf(want) \subseteq Int \cup {NoMember}
  BY MemberOffset, GuestAsks DEF OffsetsOf

-----------------------------------------------------------------------------
(* The answers of lookups in a table that is believed.                      *)
SymAtTrue(q, a) ==
    LET Low == {i \in DOMAIN sym : sym[i].addr <= q.va}
    IN  /\ a.ok <=> q.va >= img.start /\ q.va < img.end
        /\ a.ok => a.sym = sym[Max(Low)]

SymTrue(q, a) ==
    LET Named == {s \in ToSet(sym) : s.name = q.name}
    IN  /\ a.ok <=> Named # {}
        /\ a.ok => \E s \in Named : s.addr = a.addr

LEMMA LookupByAddress ==
    ASSUME Believed(sym, img.start), img.start \in Nat, img.end \in Nat, NEW q, q.va \in Int
    PROVE  SymAtTrue(q, RvSymAt(img, q.va))
  <1> DEFINE va == q.va
             i == IF va \in img.start..(img.end - 1) THEN ByAddr(sym, va) ELSE 0
             Low == {k \in DOMAIN sym : sym[k].addr <= va}
  <1>1. RvSymAt(img, va) = IF i = 0 THEN No ELSE [ok |-> TRUE, sym |-> sym[i]]
    BY DEF RvSymAt
  <1>2. ByAddr(sym, va) = LastBelow(sym, va)
    BY HalvingFinds DEF Believed
  <1>3. AtOrBelow(sym, va) = Low
    BY DEF AtOrBelow
  <1>4. PICK t \in DOMAIN sym : sym[t].addr = img.start
    BY DEF Believed, HasText
  <1>5. CASE va \in img.start..(img.end - 1)
    <2>1. t \in Low
      BY <1>4, <1>5
    <2>2. i = Max(Low)
      BY <1>2, <1>3, <1>5, <2>1 DEF LastBelow
    <2>3. i # 0
      <3>1. DOMAIN sym = 1..Len(sym) /\ Len(sym) \in Nat
        BY DEF Believed, Rises
      <3>2. Low \in SUBSET (0..Len(sym)) /\ Low # {}
        BY <2>1, <3>1
      <3>3. Max(Low) \in Low
        <4> HIDE DEF Low
        <4> QED
          BY <3>1, <3>2, MaxIs
      <3> QED
        BY <2>2, <3>1, <3>3
    <2> HIDE DEF i, Low
    <2>4. RvSymAt(img, va).ok /\ RvSymAt(img, va).sym = sym[Max(Low)]
      BY <1>1, <2>2, <2>3
    <2>5. va >= img.start /\ va < img.end
      BY <1>5
    <2> QED
      BY <2>4, <2>5 DEF SymAtTrue, Low
  <1>6. CASE va \notin img.start..(img.end - 1)
    <2>1. ~RvSymAt(img, va).ok
      BY <1>1, <1>6 DEF No
    <2>2. ~(va >= img.start /\ va < img.end)
      BY <1>6
    <2> QED
      BY <2>1, <2>2 DEF SymAtTrue
  <1> QED
    BY <1>5, <1>6

LEMMA LookupByName ==
    ASSUME Believed(sym, img.start), NEW q
    PROVE  SymTrue(q, RvSym(q.name))
  <1> DEFINE i == ByName(sym, q.name)
             Named == {s \in ToSet(sym) : s.name = q.name}
  <1>1. DOMAIN sym \in SUBSET Nat /\ 0 \notin DOMAIN sym
    BY DEF Believed, Rises
  <1>2. RvSym(q.name) = IF i = 0 THEN No ELSE [ok |-> TRUE, addr |-> sym[i].addr]
    BY DEF RvSym
  <1>3. CASE \E k \in DOMAIN sym : sym[k].name = q.name
    <2>1. i \in DOMAIN sym /\ sym[i].name = q.name
      BY <1>1, <1>3, ByNameIs
    <2> HIDE DEF i
    <2>2. sym[i] \in Named /\ i # 0
      BY <1>1, <2>1 DEF ToSet
    <2>3. RvSym(q.name).ok /\ RvSym(q.name).addr = sym[i].addr
      BY <1>2, <2>2
    <2> QED
      BY <2>2, <2>3 DEF SymTrue
  <1>4. CASE ~ \E k \in DOMAIN sym : sym[k].name = q.name
    <2>1. i = 0
      BY <1>1, <1>4, ByNameIs
    <2>2. Named = {}
      BY <1>4 DEF ToSet
    <2>3. ~RvSym(q.name).ok
      BY <1>2, <2>1 DEF No
    <2> QED
      BY <2>2, <2>3 DEF SymTrue
  <1> QED
    BY <1>3, <1>4

-----------------------------------------------------------------------------
(* The bits of a number: read from its bytes, or one by one.                *)
LEMMA PowerIs == \A n \in Nat : Pow2[n] \in Nat \ {0} /\ Pow2[n + 1] = 2 * Pow2[n]
  BY Pow2Positive, Pow2Def

LEMMA DividesFurther ==
    ASSUME NEW x \in Nat, NEW P \in Nat \ {0}, NEW C \in Nat \ {0}
    PROVE  (x \div P) \div C = x \div (P * C)
  <1> DEFINE a == x \div P
             v == x % P
             q == a \div C
             u == a % C
  <1>1. a \in Nat /\ v \in Nat /\ v < P /\ x = P * a + v
    BY Divides
  <1>2. q \in Nat /\ u \in Nat /\ u < C /\ a = C * q + u
    BY <1>1, Divides
  <1> HIDE DEF a, v, q, u
  <1>3. x = (P * C) * q + (P * u + v)
    <2>1. P * (C * q + u) = (P * C) * q + P * u /\ P * u \in Nat /\ (P * C) * q \in Nat
      BY <1>2
    <2> QED
      BY <1>1, <1>2, <2>1
  <1>4. P * u + v \in Nat /\ P * u + v < P * C /\ P * C \in Nat \ {0}
    <2>1. (u + 1) * P <= C * P
      <3>1. u + 1 \in Nat /\ u + 1 <= C
        BY <1>2
      <3> QED
        BY <3>1, Product
    <2>2. (u + 1) * P = P * u + P /\ C * P = P * C /\ P * u \in Nat /\ P * C \in Nat \ {0}
      BY <1>2
    <2> QED
      BY <1>1, <2>1, <2>2
  <1>5. ((P * C) * q + (P * u + v)) \div (P * C) = q
    <2> DEFINE W == P * C
               r == P * u + v
    <2>1. W \in Nat \ {0} /\ r \in Nat /\ r < W
      BY <1>4
    <2> HIDE DEF W, r
    <2>2. (W * q + r) \div W = q
      BY <1>2, <2>1, DividesOnce
    <2> QED
      BY <2>2 DEF W, r
  <1> QED
    BY <1>3, <1>5 DEF q, a

LEMMA OneMoreBit ==
    ASSUME NEW x \in Nat, NEW w \in Nat
    PROVE  x % Pow2[w + 1] = (x % Pow2[w]) + ((x \div Pow2[w]) % 2) * Pow2[w]
  <1> DEFINE P == Pow2[w]
             y == x % (2 * P)
  <1>1. P \in Nat \ {0} /\ Pow2[w + 1] = 2 * P
    BY PowerIs
  <1> HIDE DEF P
  <1>2. Twice(x, 2, P) /\ 2 * P \in Nat \ {0}
    BY <1>1, DividesTwice
  <1>3. y % P = x % P /\ y \div P = (x \div P) % 2
    BY <1>2 DEF Twice
  <1>4. y \in Nat
    BY <1>2, Divides
  <1> HIDE DEF y
  <1>5. y = P * (y \div P) + (y % P) /\ y \div P \in Nat /\ y % P \in Nat
    BY <1>1, <1>4, Divides
  <1>6. y = (x % P) + ((x \div P) % 2) * P
    <2>1. P * (y \div P) = (y \div P) * P
      BY <1>1, <1>5
    <2> QED
      BY <1>1, <1>3, <1>5, <2>1
  <1> QED
    BY <1>1, <1>6 DEF P, y

LEMMA BitsAre ==
    ASSUME NEW object, NEW off \in Nat, NEW width \in Nat, NEW x \in Nat,
           \A k \in 0..(width - 1) : Bit(object, off + k) = (x \div Pow2[k]) % 2
    PROVE  BitsAt(object, off, width) = x % Pow2[width]
  <1> DEFINE Row(f, k) == IF k = 0 THEN 0
                          ELSE f[k - 1] + Bit(object, off + k - 1) * Pow2[k - 1]
             Eq(f) == f = [k \in 0..width |-> Row(f, k)]
             e == [k \in 0..width |-> x % Pow2[k]]
  <1>1. x % Pow2[0] = 0
    BY Pow2Def
  <1>2. ASSUME NEW k \in 1..width
        PROVE  x % Pow2[k] = (x % Pow2[k - 1]) + Bit(object, off + k - 1) * Pow2[k - 1]
    <2>1. k - 1 \in Nat /\ k - 1 \in 0..(width - 1) /\ (k - 1) + 1 = k /\ off + (k - 1) = off + k - 1
      OBVIOUS
    <2>2. Bit(object, off + k - 1) = (x \div Pow2[k - 1]) % 2
      BY <2>1
    <2> QED
      BY <2>1, <2>2, OneMoreBit
  <1>3. Eq(e)
    <2>1. ASSUME NEW k \in 0..width PROVE e[k] = Row(e, k)
      <3>1. CASE k = 0
        BY <1>1, <3>1
      <3>2. CASE k # 0
        <4>1. k \in 1..width /\ k - 1 \in 0..width
          BY <3>2
        <4>2. e[k - 1] = x % Pow2[k - 1] /\ e[k] = x % Pow2[k]
          BY <4>1
        <4> HIDE DEF e
        <4> QED
          BY <1>2, <3>2, <4>1, <4>2
      <3> QED
        BY <3>1, <3>2
    <2>2. e = [k \in 0..width |-> e[k]]
      OBVIOUS
    <2> HIDE DEF e, Row
    <2> QED
      BY <2>1, <2>2
  <1> HIDE DEF e
  <1>4. BitsAt(object, off, width) = (CHOOSE f : Eq(f))[width]
    BY DEF BitsAt
  <1>5. PICK f : Eq(f) /\ BitsAt(object, off, width) = f[width]
    BY <1>3, <1>4
  <1>6. \A k \in 0..width : f[k] = Row(f, k)
    BY <1>5
  <1> DEFINE S == {k \in Nat : k <= width => f[k] = x % Pow2[k]}
  <1>7. 0 \in S
    BY <1>1, <1>6
  <1>8. ASSUME NEW k \in S PROVE k + 1 \in S
    <2> SUFFICES ASSUME k + 1 <= width PROVE f[k + 1] = x % Pow2[k + 1]
      OBVIOUS
    <2>1. k + 1 \in 1..width /\ k + 1 \in 0..width /\ (k + 1) - 1 = k /\ f[k] = x % Pow2[k]
          /\ k + 1 # 0
      OBVIOUS
    <2>2. f[k + 1] = f[k] + Bit(object, off + (k + 1) - 1) * Pow2[k]
      BY <1>6, <2>1
    <2>3. x % Pow2[k + 1] = (x % Pow2[k]) + Bit(object, off + (k + 1) - 1) * Pow2[k]
      BY <1>2, <2>1
    <2> QED
      BY <2>1, <2>2, <2>3
  <1>9. width \in S
    <2>1. S \in SUBSET Nat
      OBVIOUS
    <2> HIDE DEF S
    <2> QED
      BY <1>7, <1>8, <2>1, NatInduct
  <1> QED
    BY <1>5, <1>9

(* What has been read of the bytes, from the last to the first.             *)
Bytes == 0..(Pow2[ByteBits] - 1)

ReadsAs(p, n, f) ==
    /\ f \in [0..n -> Nat] /\ f[0] = 0
    /\ \A k \in 1..n : f[k] = f[k - 1] * Pow2[ByteBits] + p[n - k + 1]
    /\ Little(p) = f[n]

LEMMA LittleIs ==
    ASSUME NEW p, NEW n \in Nat, n = Len(p), \A i \in 1..n : p[i] \in Bytes
    PROVE  \E f : ReadsAs(p, n, f)
  <1> DEFINE M == Pow2[ByteBits]
             h == [k \in 1..n |-> [v \in Nat |-> v * M + p[n - k + 1]]]
             Row(f, k) == IF k = 0 THEN 0 ELSE f[k - 1] * M + p[n - k + 1]
             Eq(f) == f = [k \in 0..n |-> Row(f, k)]
  <1>0. M \in Nat \ {0}
    BY TypeBounds, PowerIs
  <1>1. ASSUME NEW k \in 1..n, NEW v \in Nat PROVE v * M + p[n - k + 1] \in Nat
    <2>1. n - k + 1 \in 1..n
      OBVIOUS
    <2>2. p[n - k + 1] \in Nat
      BY <1>0, <2>1 DEF Bytes
    <2> HIDE DEF M
    <2>3. v * M \in Nat
      BY <1>0
    <2> QED
      BY <2>2, <2>3
  <1>2. h \in [1..n -> [Nat -> Nat]]
    BY <1>1
  <1>3. ASSUME NEW k \in 1..n, NEW v \in Nat PROVE h[k][v] = v * M + p[n - k + 1]
    OBVIOUS
  <1> HIDE DEF h, M
  <1>4. PICK e : RowsOf(Nat, h, 0, n, e)
    BY <1>2, RowsExist
  <1>5. ASSUME NEW k \in 0..n PROVE e[k] = Row(e, k)
    <2>1. CASE k = 0
      BY <1>4, <2>1 DEF RowsOf
    <2>2. CASE k # 0
      <3>1. k \in 1..n /\ k - 1 \in 0..n
        BY <2>2
      <3>2. e[k] = h[k][e[k - 1]] /\ e[k - 1] \in Nat
        BY <1>4, <3>1 DEF RowsOf
      <3> QED
        BY <1>3, <2>2, <3>1, <3>2
    <2> QED
      BY <2>1, <2>2
  <1>6. e = [k \in 0..n |-> e[k]]
    BY <1>4 DEF RowsOf
  <1>7. Eq(e)
    BY <1>5, <1>6
  <1>8. Little(p) = (CHOOSE f : Eq(f))[n]
    BY DEF Little, M
  <1>9. PICK f : Eq(f) /\ Little(p) = f[n]
    BY <1>7, <1>8
  <1>10. \A k \in 0..n : f[k] = Row(f, k)
    BY <1>9
  <1>11. f[0] = 0 /\ \A k \in 1..n : f[k] = f[k - 1] * M + p[n - k + 1]
    BY <1>10
  <1> DEFINE S == {k \in Nat : k <= n => f[k] \in Nat}
  <1>12. 0 \in S
    BY <1>11
  <1>13. ASSUME NEW k \in S PROVE k + 1 \in S
    <2> SUFFICES ASSUME k + 1 <= n PROVE f[k + 1] \in Nat
      OBVIOUS
    <2>1. k + 1 \in 1..n /\ (k + 1) - 1 = k /\ f[k] \in Nat
      OBVIOUS
    <2>2. f[k + 1] = f[k] * M + p[n - (k + 1) + 1]
      BY <1>11, <2>1
    <2> QED
      BY <1>1, <2>1, <2>2
  <1>14. S = Nat
    <2>1. S \in SUBSET Nat
      OBVIOUS
    <2> HIDE DEF S
    <2> QED
      BY <1>12, <1>13, <2>1, NatInduct
  <1>15. f \in [0..n -> Nat]
    <2>1. \A k \in 0..n : f[k] \in Nat
      BY <1>14
    <2>2. f = [k \in 0..n |-> Row(f, k)]
      BY <1>9
    <2> HIDE DEF Row, S
    <2> QED
      BY <1>10, <2>1, <2>2
  <1> QED
    BY <1>9, <1>11, <1>15 DEF ReadsAs, M

LEMMA ScaleIs ==
    ASSUME NEW j \in Nat
    PROVE  ByteBits * j \in Nat /\ ByteBits * (j + 1) = ByteBits * j + ByteBits
  BY TypeBounds

LEMMA BytesBelow ==
    ASSUME NEW p, NEW n \in Nat, NEW f, ReadsAs(p, n, f), \A i \in 1..n : p[i] \in Bytes
    PROVE  \A j \in 0..n : Little(p) \div Pow2[ByteBits * j] = f[n - j]
  <1> DEFINE M == Pow2[ByteBits]
             S == {j \in Nat : j <= n => Little(p) \div Pow2[ByteBits * j] = f[n - j]}
  <1>1. Little(p) = f[n] /\ Little(p) \in Nat
    BY DEF ReadsAs
  <1>2. M \in Nat \ {0} /\ ByteBits \in Nat
    BY TypeBounds, PowerIs
  <1>3. 0 \in S
    <2>1. ByteBits * 0 = 0 /\ Pow2[0] = 1 /\ n - 0 = n
      BY <1>2, Pow2Def
    <2>2. Little(p) \div 1 = Little(p)
      BY <1>1
    <2> QED
      BY <1>1, <2>1, <2>2
  <1>4. ASSUME NEW j \in S PROVE j + 1 \in S
    <2> SUFFICES ASSUME j + 1 <= n
                 PROVE  Little(p) \div Pow2[ByteBits * (j + 1)] = f[n - (j + 1)]
      OBVIOUS
    <2>1. j \in Nat /\ Little(p) \div Pow2[ByteBits * j] = f[n - j]
      OBVIOUS
    <2> DEFINE P == Pow2[ByteBits * j]
               g == f[n - (j + 1)]
               b == p[j + 1]
    <2>2. ByteBits * j \in Nat /\ ByteBits * (j + 1) = ByteBits * j + ByteBits
      BY <2>1, ScaleIs
    <2>3. P \in Nat \ {0} /\ Pow2[ByteBits * (j + 1)] = P * M
      BY <1>2, <2>2, PowerIs, Pow2Sum
    <2>4. n - j \in 1..n /\ (n - j) - 1 = n - (j + 1) /\ n - (n - j) + 1 = j + 1
          /\ n - (j + 1) \in 0..n /\ j + 1 \in 1..n
      BY <2>1
    <2>5. f[n - j] = g * M + b
      BY <2>4 DEF ReadsAs
    <2>6. g \in Nat /\ b \in Nat /\ b < M
      <3>1. g \in Nat
        BY <2>4 DEF ReadsAs
      <3>2. b \in 0..(M - 1)
        BY <2>4 DEF Bytes
      <3> HIDE DEF g, b, M
      <3> QED
        BY <1>2, <3>1, <3>2
    <2> HIDE DEF g, b, P, M, S
    <2>7. (M * g + b) \div M = g
      BY <1>2, <2>6, DividesOnce
    <2>8. f[n - j] \div M = g
      BY <1>2, <2>5, <2>6, <2>7
    <2>9. (Little(p) \div P) \div M = Little(p) \div (P * M)
      BY <1>1, <1>2, <2>3, DividesFurther
    <2> QED
      BY <2>1, <2>3, <2>8, <2>9 DEF P, g
  <1>5. S = Nat
    <2>1. S \in SUBSET Nat
      OBVIOUS
    <2> HIDE DEF S
    <2> QED
      BY <1>3, <1>4, <2>1, NatInduct
  <1> QED
    BY <1>5

(* A bit of that number is the bit of the byte it lies in.                  *)
LEMMA BitIs ==
    ASSUME NEW p, NEW n \in Nat, NEW f, ReadsAs(p, n, f), \A i \in 1..n : p[i] \in Bytes,
           NEW i \in Nat, i < ByteBits * n
    PROVE  Bit(p, i) = (Little(p) \div Pow2[i]) % 2
  <1> DEFINE j == i \div ByteBits
             k == i % ByteBits
             N == Little(p)
             P == Pow2[k]
             c == Pow2[ByteBits - k - 1]
             M == Pow2[ByteBits]
             g == f[n - (j + 1)]
             b == p[j + 1]
  <1>1. j \in Nat /\ k \in Nat /\ k < ByteBits /\ i = ByteBits * j + k /\ ByteBits \in Nat
    BY TypeBounds, Divides
  <1>2. N \in Nat
    BY DEF ReadsAs
  <1> HIDE DEF j, k
  <1>3. j < n
    <2> SUFFICES ASSUME n <= j PROVE FALSE
      BY <1>1
    <2>1. n * ByteBits <= j * ByteBits
      BY <1>1, Product
    <2>2. n * ByteBits = ByteBits * n /\ j * ByteBits = ByteBits * j
      BY <1>1
    <2>3. ByteBits * n \in Nat /\ ByteBits * j \in Nat
      BY <1>1
    <2> QED
      BY <1>1, <2>1, <2>2, <2>3
  <1>4. P \in Nat \ {0} /\ c \in Nat \ {0} /\ M \in Nat \ {0}
    BY <1>1, PowerIs
  <1>5. M = P * (2 * c)
    <2>1. k + 1 \in Nat /\ ByteBits - k - 1 \in Nat /\ (k + 1) + (ByteBits - k - 1) = ByteBits
      BY <1>1
    <2>2. Pow2[k + 1] = 2 * P
      BY <1>1, PowerIs
    <2>3. M = (2 * P) * c
      <3> DEFINE a == k + 1
                 d == ByteBits - k - 1
      <3>1. a \in Nat /\ d \in Nat /\ a + d = ByteBits
        BY <2>1
      <3>2. Pow2[a] = 2 * P
        BY <2>2
      <3> HIDE DEF a
      <3>3. Pow2[a + d] = Pow2[a] * Pow2[d]
        BY <3>1, Pow2Sum
      <3> QED
        BY <3>1, <3>2, <3>3
    <2> HIDE DEF P, c, M
    <2> QED
      BY <1>4, <2>3
  <1>6. N \div Pow2[ByteBits * j] = f[n - j]
    BY <1>1, <1>3, BytesBelow
  <1>7. f[n - j] = g * M + b /\ g \in Nat /\ b \in 0..(M - 1)
    <2>1. n - j \in 1..n /\ (n - j) - 1 = n - (j + 1) /\ n - (n - j) + 1 = j + 1
          /\ n - (j + 1) \in 0..n /\ j + 1 \in 1..n
      BY <1>1, <1>3
    <2>2. f[n - j] = g * M + b
      BY <2>1 DEF ReadsAs
    <2>3. g \in Nat
      BY <2>1 DEF ReadsAs
    <2>4. b \in 0..(M - 1)
      BY <2>1 DEF Bytes
    <2> QED
      BY <2>2, <2>3, <2>4
  <1>8. N \div Pow2[i] = f[n - j] \div P
    <2> DEFINE Q == Pow2[ByteBits * j]
    <2>1. ByteBits * j \in Nat
      BY <1>1
    <2>2. Q \in Nat \ {0} /\ Pow2[i] = Q * P
      BY <1>1, <2>1, PowerIs, Pow2Sum
    <2>3. (N \div Q) \div P = N \div (Q * P)
      BY <1>2, <1>4, <2>2, DividesFurther
    <2> QED
      BY <1>6, <2>2, <2>3
  <1> DEFINE u == b \div P
             v == b % P
  <1>9. b \in Nat
    BY <1>4, <1>7
  <1> HIDE DEF N, P, c, M, g, b
  <1>10. u \in Nat /\ v \in Nat /\ v < P /\ b = P * u + v
    BY <1>4, <1>9, Divides
  <1> HIDE DEF u, v
  <1>11. f[n - j] = P * (2 * (c * g) + u) + v /\ c * g \in Nat
    <2>1. g * (P * (2 * c)) = P * (2 * (c * g)) /\ c * g \in Nat
      BY <1>4, <1>7
    <2>2. P * (2 * (c * g) + u) = P * (2 * (c * g)) + P * u
      BY <1>4, <1>10, <2>1
    <2>3. P * u \in Nat /\ P * (2 * (c * g)) \in Nat
      BY <1>4, <1>10, <2>1
    <2> QED
      BY <1>5, <1>7, <1>10, <2>1, <2>2, <2>3
  <1>12. f[n - j] \div P = 2 * (c * g) + u
    <2> DEFINE w == 2 * (c * g) + u
    <2>1. w \in Nat
      BY <1>10, <1>11
    <2> HIDE DEF w
    <2>2. (P * w + v) \div P = w
      BY <1>4, <1>10, <2>1, DividesOnce
    <2> QED
      BY <1>11, <2>2 DEF w
  <1>13. (2 * (c * g) + u) % 2 = u % 2
    <2> DEFINE w == c * g
    <2>1. w \in Nat
      BY <1>11
    <2> HIDE DEF w
    <2>2. (2 * w + u) % 2 = u % 2
      BY <1>10, <2>1
    <2> QED
      BY <2>2 DEF w
  <1>14. Bit(p, i) = u % 2
    BY DEF Bit, j, k, u, b, P
  <1> QED
    BY <1>8, <1>12, <1>13, <1>14 DEF N

(* The bits of a field, taken out of the number its bytes are, are the bits *)
(* of the object at its place.                                              *)
LEMMA FieldBits ==
    ASSUME NEW object \in Seq(Bytes), NEW o \in Nat, NEW s \in Nat, o + s <= Len(object),
           NEW r \in Nat, NEW bits \in Nat, r + bits <= ByteBits * s
    PROVE  LET p == SubSeq(object, o + 1, o + s)
           IN  /\ (Little(p) \div Pow2[r]) % Pow2[bits] = BitsAt(object, ByteBits * o + r, bits)
               /\ Little(p) \in Nat
  <1> DEFINE p == SubSeq(object, o + 1, o + s)
             N == Little(p)
             x == N \div Pow2[r]
  <1>1. Len(p) = s /\ \A i \in 1..s : p[i] = object[o + i] /\ p[i] \in Bytes
    <2>1. Len(object) \in Nat
      OBVIOUS
    <2> HIDE DEF Bytes
    <2> QED
      BY <2>1
  <1> HIDE DEF p
  <1>2. PICK f : ReadsAs(p, s, f)
    BY <1>1, LittleIs
  <1>3. N \in Nat
    BY <1>2 DEF ReadsAs
  <1>4. Pow2[r] \in Nat \ {0}
    BY PowerIs
  <1> HIDE DEF N
  <1>5. x \in Nat
    BY <1>3, <1>4, Divides
  <1>6. ByteBits * o \in Nat /\ ByteBits * o + r \in Nat /\ ByteBits \in Nat \ {0}
    BY TypeBounds
  <1>7. ASSUME NEW k \in 0..(bits - 1)
        PROVE  Bit(object, (ByteBits * o + r) + k) = (x \div Pow2[k]) % 2
    <2> DEFINE i == r + k
    <2>0. ByteBits * s \in Nat
      BY <1>6
    <2>1. i \in Nat /\ i < ByteBits * s /\ k \in Nat
      BY <2>0
    <2>2. Bit(p, i) = (N \div Pow2[i]) % 2
      BY <1>1, <1>2, <2>1, BitIs DEF N
    <2>3. x \div Pow2[k] = N \div Pow2[i]
      <3>1. Pow2[k] \in Nat \ {0} /\ Pow2[i] = Pow2[r] * Pow2[k]
        BY <2>1, PowerIs, Pow2Sum
      <3> DEFINE P == Pow2[r]
                 C == Pow2[k]
      <3>2. P \in Nat \ {0} /\ C \in Nat \ {0} /\ x = N \div P /\ Pow2[i] = P * C
        BY <1>4, <3>1
      <3> HIDE DEF P, C, x
      <3>3. (N \div P) \div C = N \div (P * C)
        BY <1>3, <3>2, DividesFurther
      <3> QED
        BY <3>2, <3>3 DEF C
    <2>4. (ByteBits * o + r) + k = ByteBits * o + i
      BY <1>6, <2>1
    <2> DEFINE j == i \div ByteBits
               b == i % ByteBits
    <2> HIDE DEF i
    <2>5. j \in Nat /\ b \in Nat /\ b < ByteBits /\ i = ByteBits * j + b
      BY <1>6, <2>1, Divides
    <2> HIDE DEF j, b
    <2>6. ByteBits * o + i = ByteBits * (o + j) + b
      BY <1>6, <2>5
    <2>7. (ByteBits * o + i) \div ByteBits = o + j /\ (ByteBits * o + i) % ByteBits = b
      <3> DEFINE w == o + j
      <3>1. w \in Nat
        BY <2>5
      <3> HIDE DEF w
      <3>2. (ByteBits * w + b) \div ByteBits = w /\ (ByteBits * w + b) % ByteBits = b
        BY <1>6, <2>5, <3>1, DividesOnce
      <3> QED
        BY <2>6, <3>2 DEF w
    <2>8. j < s
      <3> SUFFICES ASSUME s <= j PROVE FALSE
        BY <2>5
      <3>1. s * ByteBits <= j * ByteBits
        BY <1>6, <2>5, Product
      <3>2. s * ByteBits = ByteBits * s /\ j * ByteBits = ByteBits * j /\ ByteBits * j \in Nat
        BY <1>6, <2>5
      <3> QED
        BY <2>0, <2>1, <2>5, <3>1, <3>2
    <2>9. p[j + 1] = object[(o + j) + 1]
      <3>1. j + 1 \in 1..s /\ o + (j + 1) = (o + j) + 1
        BY <2>5, <2>8
      <3> QED
        BY <1>1, <3>1
    <2>10. Bit(object, ByteBits * o + i) = (object[(o + j) + 1] \div Pow2[b]) % 2
      BY <2>7 DEF Bit
    <2>11. Bit(p, i) = (p[j + 1] \div Pow2[b]) % 2
      BY DEF Bit, j, b
    <2> QED
      BY <2>2, <2>3, <2>4, <2>9, <2>10, <2>11
  <1> HIDE DEF x
  <1>8. BitsAt(object, ByteBits * o + r, bits) = x % Pow2[bits]
    BY <1>5, <1>6, <1>7, BitsAre
  <1> QED
    BY <1>3, <1>8 DEF p, N, x

-----------------------------------------------------------------------------
(* The end of a chain of typedefs: what a search of bounded depth finds.    *)
ChainTo(id, t, k, c) ==
    /\ c \in [1..k -> Ids] /\ c[1] = id /\ c[k] = t
    /\ \A j \in 1..(k - 1) : Kind(c[j]) \in Modifiers /\ c[j + 1] = Type(c[j]).st

LEMMA ChainsLead ==
    ASSUME NEW id, NEW t, NEW most
    PROVE  LeadsTo(id, t, most) <=> \E k \in 1..most : \E c : ChainTo(id, t, k, c)
  BY DEF LeadsTo, ChainTo

LEMMA ChainTail ==
    ASSUME Typed, NEW id \in Ids, NEW t, NEW n \in Nat, NEW k \in 1..(n + 1), NEW c, ChainTo(id, t, k, c)
    PROVE  \/ k = 1 /\ t = id
           \/ Kind(id) \in Modifiers /\ LeadsTo(Type(id).st, t, n)
  <1>1. CASE k = 1
    BY <1>1 DEF ChainTo
  <1>2. CASE k # 1
    <2>1. k - 1 \in 1..n /\ 1 \in 1..(k - 1) /\ k \in Nat
      BY <1>2
    <2>2. Kind(id) \in Modifiers /\ c[2] = Type(id).st
      BY <2>1 DEF ChainTo
    <2> DEFINE d == [i \in 1..(k - 1) |-> c[i + 1]]
    <2>3. d \in [1..(k - 1) -> Ids]
      <3>1. \A i \in 1..(k - 1) : i + 1 \in 1..k
        BY <2>1
      <3> QED
        BY <3>1 DEF ChainTo
    <2>4. d[1] = Type(id).st /\ d[k - 1] = t
      BY <2>1, <2>2 DEF ChainTo
    <2>5. ASSUME NEW j \in 1..((k - 1) - 1) PROVE Kind(d[j]) \in Modifiers /\ d[j + 1] = Type(d[j]).st
      <3>1. j + 1 \in 1..(k - 1) /\ j \in 1..(k - 1)
        BY <2>1
      <3>2. d[j] = c[j + 1] /\ d[j + 1] = c[(j + 1) + 1]
        BY <3>1
      <3> HIDE DEF d
      <3> QED
        BY <3>1, <3>2 DEF ChainTo
    <2> HIDE DEF d
    <2>6. ChainTo(Type(id).st, t, k - 1, d)
      BY <2>3, <2>4, <2>5 DEF ChainTo
    <2>7. LeadsTo(Type(id).st, t, n)
      BY <2>1, <2>6, ChainsLead
    <2> QED
      BY <2>2, <2>7
  <1> QED
    BY <1>1, <1>2

LEMMA ChainHead ==
    ASSUME Typed, NEW id \in Ids, Kind(id) \in Modifiers, NEW t, NEW n \in Nat,
           LeadsTo(Type(id).st, t, n)
    PROVE  LeadsTo(id, t, n + 1)
  <1>0. PICK k \in 1..n : \E c : ChainTo(Type(id).st, t, k, c)
    BY ChainsLead
  <1>1. PICK c : ChainTo(Type(id).st, t, k, c)
    BY <1>0
  <1> DEFINE d == [i \in 1..(k + 1) |-> IF i = 1 THEN id ELSE c[i - 1]]
  <1>2. k \in Nat /\ k >= 1
    OBVIOUS
  <1>3. d \in [1..(k + 1) -> Ids]
    <2>1. ASSUME NEW i \in 1..(k + 1), i # 1 PROVE c[i - 1] \in Ids
      <3>1. i - 1 \in 1..k
        BY <1>2, <2>1
      <3> QED
        BY <1>1, <3>1 DEF ChainTo
    <2> QED
      BY <2>1
  <1>4. d[1] = id /\ d[2] = Type(id).st /\ d[k + 1] = t
    BY <1>1, <1>2 DEF ChainTo
  <1>5. ASSUME NEW j \in 1..((k + 1) - 1) PROVE Kind(d[j]) \in Modifiers /\ d[j + 1] = Type(d[j]).st
    <2>1. CASE j = 1
      BY <1>4, <2>1
    <2>2. CASE j # 1
      <3>1. j - 1 \in 1..(k - 1) /\ j \in 1..(k + 1) /\ j + 1 \in 1..(k + 1) /\ j + 1 # 1
            /\ (j + 1) - 1 = (j - 1) + 1
        BY <1>2, <2>2
      <3>2. d[j] = c[j - 1] /\ d[j + 1] = c[(j - 1) + 1]
        BY <2>2, <3>1
      <3> HIDE DEF d
      <3> QED
        BY <1>1, <3>1, <3>2 DEF ChainTo
    <2> QED
      BY <2>1, <2>2
  <1> HIDE DEF d
  <1>6. ChainTo(id, t, k + 1, d)
    BY <1>3, <1>4, <1>5 DEF ChainTo
  <1>7. k + 1 \in 1..(n + 1)
    BY <1>2
  <1> QED
    BY <1>6, <1>7, ChainsLead

LEMMA LeadsHere ==
    ASSUME NEW id \in Ids, NEW n \in Nat
    PROVE  LeadsTo(id, id, n + 1)
  <1> DEFINE c == [i \in 1..1 |-> id]
  <1>1. ChainTo(id, id, 1, c)
    BY DEF ChainTo
  <1>2. 1 \in 1..(n + 1)
    OBVIOUS
  <1> QED
    BY <1>1, <1>2, ChainsLead

(* At each depth, the end that is led to is the end that is found.          *)
EndsAre(f, n) ==
    \A id \in Ids :
        /\ \A t \in Ids : Kind(t) \notin Modifiers /\ LeadsTo(id, t, n) => f[n][id] = t
        /\ f[n][id] # 0 => Kind(f[n][id]) \notin Modifiers /\ LeadsTo(id, f[n][id], n)

LEMMA EndsAtDepth ==
    ASSUME Typed, NEW f, ResolveRows(f)
    PROVE  \A n \in 0..MaxDepth : EndsAre(f, n)
  <1> DEFINE S == {n \in Nat : n <= MaxDepth => EndsAre(f, n)}
  <1>0. MaxDepth \in Nat
    BY TypeBounds
  <1>1. 0 \in S
    <2>1. ASSUME NEW id, NEW t PROVE ~LeadsTo(id, t, 0)
      BY DEF LeadsTo
    <2>2. 0 \in 0..MaxDepth
      BY <1>0
    <2>3. \A id \in Ids : f[0][id] = 0
      BY <2>2 DEF ResolveRows, ResolveRow
    <2> QED
      BY <2>1, <2>3 DEF EndsAre
  <1>2. ASSUME NEW n \in S PROVE n + 1 \in S
    <2> SUFFICES ASSUME n + 1 <= MaxDepth, NEW id \in Ids
                 PROVE  /\ \A t \in Ids : Kind(t) \notin Modifiers /\ LeadsTo(id, t, n + 1) => f[n + 1][id] = t
                        /\ f[n + 1][id] # 0 => /\ Kind(f[n + 1][id]) \notin Modifiers
                                               /\ LeadsTo(id, f[n + 1][id], n + 1)
      BY DEF EndsAre
    <2>1. n \in Nat /\ EndsAre(f, n) /\ n + 1 \in 0..MaxDepth /\ n \in 0..MaxDepth /\ (n + 1) - 1 = n
      BY <1>0
    <2>2. f[n + 1][id] = IF Kind(id) \in Modifiers THEN f[n][Type(id).st] ELSE id
      BY <2>1 DEF ResolveRows, ResolveRow
    <2>3. CASE Kind(id) \in Modifiers
      <3>1. Type(id).st \in Ids /\ f[n + 1][id] = f[n][Type(id).st]
        BY <2>2, <2>3, TypeIs DEF Kind
      <3>2. ASSUME NEW t \in Ids, Kind(t) \notin Modifiers, LeadsTo(id, t, n + 1) PROVE f[n + 1][id] = t
        <4>0. PICK k \in 1..(n + 1) : \E c : ChainTo(id, t, k, c)
          BY <3>2, ChainsLead
        <4>1. PICK c : ChainTo(id, t, k, c)
          BY <4>0
        <4>2. LeadsTo(Type(id).st, t, n)
          BY <2>1, <2>3, <3>2, <4>1, ChainTail
        <4> QED
          BY <2>1, <3>1, <3>2, <4>2 DEF EndsAre
      <3>3. ASSUME f[n + 1][id] # 0
            PROVE  Kind(f[n + 1][id]) \notin Modifiers /\ LeadsTo(id, f[n + 1][id], n + 1)
        BY <2>1, <2>3, <3>1, <3>3, ChainHead DEF EndsAre
      <3> QED
        BY <3>2, <3>3
    <2>4. CASE Kind(id) \notin Modifiers
      <3>1. f[n + 1][id] = id
        BY <2>2, <2>4
      <3>2. ASSUME NEW t \in Ids, LeadsTo(id, t, n + 1) PROVE t = id
        <4>0. PICK k \in 1..(n + 1) : \E c : ChainTo(id, t, k, c)
          BY <3>2, ChainsLead
        <4>1. PICK c : ChainTo(id, t, k, c)
          BY <4>0
        <4> QED
          BY <2>1, <2>4, <4>1, ChainTail
      <3> QED
        BY <2>1, <2>4, <3>1, <3>2, LeadsHere
    <2> QED
      BY <2>3, <2>4
  <1>3. S = Nat
    <2>1. S \in SUBSET Nat
      OBVIOUS
    <2> HIDE DEF S
    <2> QED
      BY <1>1, <1>2, <2>1, NatInduct
  <1> QED
    BY <1>0, <1>3

LEMMA EndIs ==
    ASSUME Typed, NEW id \in Ids
    PROVE  /\ EndOf(id) = Resolve(id)
           /\ Resolve(id) # 0 => Kind(Resolve(id)) \notin Modifiers
  <1> DEFINE Ends == {t \in Ids : Kind(t) \notin Modifiers /\ LeadsTo(id, t, MaxDepth)}
  <1>1. PICK f : ResolveRows(f)
    BY ResolvesBy
  <1>2. MaxDepth \in 0..MaxDepth
    BY TypeBounds
  <1>3. EndsAre(f, MaxDepth) /\ Resolve(id) = f[MaxDepth][id]
    BY <1>1, <1>2, EndsAtDepth DEF ResolveRows
  <1>4. Resolve(id) \in Ids
    BY ResolveIs
  <1>5. Resolve(id) # 0 => Resolve(id) \in Ends
    BY <1>3, <1>4 DEF EndsAre
  <1>6. \A t \in Ends : Resolve(id) = t
    BY <1>3 DEF EndsAre
  <1>7. EndOf(id) = IF Ends = {} THEN 0 ELSE CHOOSE t \in Ends : TRUE
    BY DEF EndOf
  <1>8. Resolve(id) # 0 => Kind(Resolve(id)) \notin Modifiers
    BY <1>5
  <1> HIDE DEF Ends
  <1> QED
    BY <1>5, <1>6, <1>7, <1>8

-----------------------------------------------------------------------------
(* The size of a type is a number, and that of one type through typedefs is *)
(* its own.                                                                 *)
SizeRow(g, left) == [t \in Ids |-> IF left = 0 THEN -1 ELSE SizeFrom(g[left - 1], t)]

SizeRows(g) ==
    /\ \A left \in 0..(MaxDepth + 1) : g[left] \in [Ids -> Int] /\ g[left] = SizeRow(g, left)
    /\ \A id \in Ids : Size(id) = g[MaxDepth + 1][id]

LEMMA KindsApart ==
    ASSUME NEW kind
    PROVE  /\ kind \in Sized => kind # "ptr" /\ kind # "array" /\ kind \notin Modifiers \cup {"var"}
           /\ kind = "ptr" => kind # "array" /\ kind \notin Modifiers \cup {"var"}
           /\ kind = "array" => kind \notin Modifiers \cup {"var"}
  BY DEF Sized, Modifiers, Composite, Enums

LEMMA SizeFromIs ==
    ASSUME Typed, NEW p \in [Ids -> Int], NEW t \in Ids
    PROVE  /\ SizeFrom(p, t) \in Int
           /\ Kind(t) \in Sized => SizeFrom(p, t) = Type(t).st
           /\ Kind(t) = "ptr" => SizeFrom(p, t) = 8
           /\ Kind(t) \in Modifiers => SizeFrom(p, t) = p[Type(t).st]
  <1> DEFINE kind == Kind(t)
             y == Type(t)
  <1>1. CASE kind \in Sized
    <2>1. SizeFrom(p, t) = y.st
      BY <1>1, KindsApart DEF SizeFrom
    <2>2. y.st \in Nat
      BY TypeIs DEF TypeIn
    <2> QED
      BY <1>1, <2>1, <2>2, KindsApart
  <1>2. CASE kind = "ptr"
    <2>1. SizeFrom(p, t) = 8
      BY <1>2, KindsApart DEF SizeFrom
    <2> QED
      BY <1>2, <2>1, KindsApart
  <1>3. CASE kind = "array"
    <2> DEFINE es == p[y.elem]
    <2>1. SizeFrom(p, t) = ArraySize(es, y.nelems)
      BY <1>3, KindsApart DEF SizeFrom
    <2>2. y.elem \in Ids /\ y.nelems \in Nat
      BY <1>3, TypeIs DEF TypeIn, Kind
    <2>3. es \in Int
      BY <2>2
    <2> HIDE DEF es, y, kind
    <2>4. es * y.nelems \in Int
      BY <2>2, <2>3
    <2>5. ArraySize(es, y.nelems) \in Int
      BY <2>4 DEF ArraySize
    <2> QED
      BY <1>3, <2>1, <2>5, KindsApart DEF kind
  <1>4. CASE kind \in Modifiers \cup {"var"}
    <2>1. SizeFrom(p, t) = p[y.st]
      BY <1>4, KindsApart DEF SizeFrom
    <2>2. y.st \in Ids
      BY <1>4, TypeIs DEF Kind
    <2> QED
      BY <1>4, <2>1, <2>2, KindsApart
  <1>5. CASE kind \notin Sized \cup {"ptr", "array", "var"} \cup Modifiers
    <2>1. SizeFrom(p, t) = -1
      BY <1>5 DEF SizeFrom
    <2> QED
      BY <1>5, <2>1
  <1> QED
    BY <1>1, <1>2, <1>3, <1>4, <1>5

LEMMA SizesBy == Typed => \E g : SizeRows(g)
  <1> SUFFICES ASSUME Typed PROVE \E g : SizeRows(g)
    OBVIOUS
  <1> DEFINE n == MaxDepth + 1
             X == [Ids -> Int]
             x == [t \in Ids |-> -1]
             h == [p \in X |-> [t \in Ids |-> SizeFrom(p, t)]]
             Eq(g) == g = [left \in 0..n |-> SizeRow(g, left)]
  <1>1. x \in X
    OBVIOUS
  <1>2. ASSUME NEW p \in X PROVE [t \in Ids |-> SizeFrom(p, t)] \in X
    BY SizeFromIs
  <1>3. h \in [X -> X]
    BY <1>2
  <1>4. n \in Nat
    BY TypeBounds
  <1>5. ASSUME NEW g, NEW left \in 1..n, g[left - 1] \in X
        PROVE  SizeRow(g, left) = h[g[left - 1]]
    <2>1. left # 0
      BY <1>4
    <2> QED
      BY <1>5, <2>1 DEF SizeRow
  <1>6. ASSUME NEW g PROVE SizeRow(g, 0) = x
    BY DEF SizeRow
  <1>7. \A id \in Ids : Size(id) = (CHOOSE g : Eq(g))[n][id]
    BY DEF Size, SizeRow
  <1>8. PICK e : LevelsOf(X, h, x, n, e)
    <2> HIDE DEF X, h, x, n
    <2> QED
      BY <1>1, <1>3, <1>4, LevelsExist
  <1> HIDE DEF X, h, x, n
  <1>9. Eq(e)
    <2>1. ASSUME NEW left \in 0..n PROVE e[left] = SizeRow(e, left)
      <3>1. CASE left = 0
        BY <1>6, <1>8, <3>1 DEF LevelsOf
      <3>2. CASE left # 0
        <4>1. left \in 1..n /\ left - 1 \in 0..n
          BY <1>4, <3>2
        <4>2. e[left - 1] \in X /\ e[left] = h[e[left - 1]]
          BY <1>8, <4>1 DEF LevelsOf
        <4> QED
          BY <1>5, <4>1, <4>2
      <3> QED
        BY <3>1, <3>2
    <2>2. e = [left \in 0..n |-> e[left]]
      BY <1>8 DEF LevelsOf
    <2> QED
      BY <2>1, <2>2
  <1>10. PICK g : Eq(g) /\ \A id \in Ids : Size(id) = g[n][id]
    BY <1>7, <1>9
  <1>11. \A left \in 0..n : g[left] = SizeRow(g, left)
    BY <1>10
  <1>12. g[0] = x /\ \A left \in 1..n : g[left - 1] \in X => g[left] = h[g[left - 1]]
    BY <1>4, <1>5, <1>6, <1>11
  <1>13. \A left \in 0..n : g[left] \in X
    BY <1>1, <1>3, <1>4, <1>12, LevelsStay
  <1> QED
    BY <1>10, <1>11, <1>13 DEF SizeRows, X, n

SizedAs(f, g, n) ==
    \A id \in Ids :
        LET e == f[n][id]
        IN  e # 0 => /\ Kind(e) \in Sized => g[n + 1][id] = Type(e).st
                     /\ Kind(e) = "ptr" => g[n + 1][id] = 8

LEMMA SizesAtDepth ==
    ASSUME Typed, NEW f, ResolveRows(f), NEW g, SizeRows(g)
    PROVE  \A n \in 0..MaxDepth : SizedAs(f, g, n)
  <1> DEFINE S == {n \in Nat : n <= MaxDepth => SizedAs(f, g, n)}
  <1>0. MaxDepth \in Nat
    BY TypeBounds
  <1>1. 0 \in S
    <2>1. 0 \in 0..MaxDepth
      BY <1>0
    <2>2. \A id \in Ids : f[0][id] = 0
      BY <2>1 DEF ResolveRows, ResolveRow
    <2> QED
      BY <2>2 DEF SizedAs
  <1>2. ASSUME NEW n \in S PROVE n + 1 \in S
    <2> SUFFICES ASSUME n + 1 <= MaxDepth, NEW id \in Ids, f[n + 1][id] # 0
                 PROVE  /\ Kind(f[n + 1][id]) \in Sized => g[(n + 1) + 1][id] = Type(f[n + 1][id]).st
                        /\ Kind(f[n + 1][id]) = "ptr" => g[(n + 1) + 1][id] = 8
      BY DEF SizedAs
    <2>1. /\ n \in Nat /\ SizedAs(f, g, n) /\ n + 1 \in 0..MaxDepth /\ n \in 0..MaxDepth
          /\ (n + 1) - 1 = n /\ (n + 1) + 1 \in 0..(MaxDepth + 1) /\ ((n + 1) + 1) - 1 = n + 1
          /\ n + 1 \in 0..(MaxDepth + 1)
      BY <1>0
    <2>2. f[n + 1][id] = IF Kind(id) \in Modifiers THEN f[n][Type(id).st] ELSE id
      BY <2>1 DEF ResolveRows, ResolveRow
    <2>3. g[(n + 1) + 1][id] = SizeFrom(g[n + 1], id) /\ g[n + 1] \in [Ids -> Int]
      <3>1. g[n + 1] \in [Ids -> Int] /\ g[(n + 1) + 1] = SizeRow(g, (n + 1) + 1)
        BY <2>1 DEF SizeRows
      <3>2. (n + 1) + 1 # 0
        BY <2>1
      <3> QED
        BY <2>1, <3>1, <3>2 DEF SizeRow
    <2>4. CASE Kind(id) \in Modifiers
      <3>1. Type(id).st \in Ids /\ f[n + 1][id] = f[n][Type(id).st]
        BY <2>2, <2>4, TypeIs DEF Kind
      <3>2. g[(n + 1) + 1][id] = g[n + 1][Type(id).st]
        BY <2>3, <2>4, SizeFromIs
      <3> QED
        BY <2>1, <3>1, <3>2 DEF SizedAs
    <2>5. CASE Kind(id) \notin Modifiers
      BY <2>2, <2>3, <2>5, SizeFromIs
    <2> QED
      BY <2>4, <2>5
  <1>3. S = Nat
    <2>1. S \in SUBSET Nat
      OBVIOUS
    <2> HIDE DEF S
    <2> QED
      BY <1>1, <1>2, <2>1, NatInduct
  <1> QED
    BY <1>0, <1>3

LEMMA SizeIs ==
    ASSUME Typed, NEW id \in Ids
    PROVE  /\ Size(id) \in Int
           /\ LET e == Resolve(id)
              IN  e # 0 => /\ Kind(e) \in Sized => Size(id) = Type(e).st
                           /\ Kind(e) = "ptr" => Size(id) = 8
  <1>1. PICK f : ResolveRows(f)
    BY ResolvesBy
  <1>2. PICK g : SizeRows(g)
    BY SizesBy
  <1>3. MaxDepth \in 0..MaxDepth /\ MaxDepth + 1 \in 0..(MaxDepth + 1)
    BY TypeBounds
  <1>4. SizedAs(f, g, MaxDepth)
    BY <1>1, <1>2, <1>3, SizesAtDepth
  <1>5. Size(id) = g[MaxDepth + 1][id] /\ g[MaxDepth + 1] \in [Ids -> Int]
    BY <1>2, <1>3 DEF SizeRows
  <1>6. Resolve(id) = f[MaxDepth][id]
    BY <1>1 DEF ResolveRows
  <1> QED
    BY <1>4, <1>5, <1>6 DEF SizedAs

LEMMA RowsStay ==
    ASSUME NEW X, NEW m \in Nat, NEW h \in [1..m -> [X -> X]], NEW f,
           f[0] \in X, \A k \in 1..m : f[k - 1] \in X => f[k] = h[k][f[k - 1]]
    PROVE  \A k \in 0..m : f[k] \in X
  <1> DEFINE S == {k \in Nat : k \in 0..m => f[k] \in X}
  <1>1. 0 \in S
    OBVIOUS
  <1>2. ASSUME NEW k \in S PROVE k + 1 \in S
    <2> SUFFICES ASSUME k + 1 \in 0..m PROVE f[k + 1] \in X
      OBVIOUS
    <2>1. k + 1 \in 1..m /\ (k + 1) - 1 = k /\ k \in 0..m
      OBVIOUS
    <2>2. f[k] \in X
      BY <2>1
    <2> QED
      BY <2>1, <2>2
  <1>3. S = Nat
    <2>1. S \in SUBSET Nat
      OBVIOUS
    <2> HIDE DEF S
    <2> QED
      BY <1>1, <1>2, <2>1, NatInduct
  <1> QED
    BY <1>3

-----------------------------------------------------------------------------
(* A route is followed index by index.                                      *)
NamesOf(t) == {NameOf(t.items[k]) : k \in DOMAIN t.items}
ItemNames == {NoName} \cup UNION {NamesOf(Type(id)) : id \in Ids}
Spots == [id : Ids, off : Nat, open : BOOLEAN, name : ItemNames, width : Nat, old : BOOLEAN]
Start(id) == [id |-> id, off |-> 0, open |-> TRUE, name |-> NoName, width |-> 0, old |-> FALSE]
Reaches(at, i) == LET t == Type(Resolve(at.id)) IN at.open /\ t.kind \in Composite /\ i \in DOMAIN t.items

LEMMA StepIs ==
    ASSUME Typed, NEW at \in Spots, NEW i
    PROVE  /\ Step(at, i) \in Spots
           /\ ~Reaches(at, i) => ~Step(at, i).open /\ Step(at, i).name = NoName
           /\ Reaches(at, i) =>
                 LET t == Type(Resolve(at.id))
                     m == t.items[i]
                 IN  /\ m.type \in Ids /\ m.off \in Nat /\ t.kflag \in BOOLEAN
                     /\ Step(at, i) = [id |-> m.type, off |-> at.off + m.off, open |-> NameOf(m) = NoName,
                                       name |-> NameOf(m), width |-> IF t.kflag THEN m.width ELSE 0,
                                       old |-> ~t.kflag]
  <1> DEFINE e == Resolve(at.id)
             t == Type(e)
             m == t.items[i]
  <1>1. at.id \in Ids /\ e \in Ids /\ EndOf(at.id) = e
    BY ResolveIs, EndIs DEF Spots
  <1>2. Reaches(at, i) <=> at.open /\ t.kind \in Composite /\ i \in DOMAIN t.items
    BY DEF Reaches
  <1>3. CASE ~Reaches(at, i)
    <2>1. Step(at, i) = [at EXCEPT !.open = FALSE, !.name = NoName]
      BY <1>1, <1>2, <1>3 DEF Step
    <2>2. NoName \in ItemNames
      BY DEF ItemNames
    <2> QED
      BY <1>3, <2>1, <2>2 DEF Spots
  <1>4. CASE Reaches(at, i)
    <2> DEFINE new == [id |-> m.type, off |-> at.off + m.off, open |-> NameOf(m) = NoName,
                       name |-> NameOf(m), width |-> IF t.kflag THEN m.width ELSE 0,
                       old |-> ~t.kflag]
    <2>1. Step(at, i) = new
      BY <1>1, <1>2, <1>4 DEF Step
    <2>2. m.type \in Ids /\ m.off \in Nat
      BY <1>1, <1>2, <1>4, TypeIs
    <2>3. t.kflag \in BOOLEAN
      BY <1>1, TypeIs DEF TypeIn
    <2>4. m.width \in Nat
      BY <1>1, <1>2, <1>4, TypeIs
    <2>5. NameOf(m) \in ItemNames
      <3>1. NameOf(m) \in NamesOf(t)
        BY <1>2, <1>4 DEF NamesOf
      <3> QED
        BY <1>1, <3>1 DEF ItemNames
    <2>6. at.off + m.off \in Nat
      BY <2>2 DEF Spots
    <2> HIDE DEF e, m, t
    <2>7. new \in Spots
      BY <2>2, <2>3, <2>4, <2>5, <2>6 DEF Spots
    <2> HIDE DEF new
    <2> QED
      BY <1>4, <2>1, <2>2, <2>3, <2>7 DEF e, m, t, new
  <1> QED
    BY <1>3, <1>4

Follows(f, id, route) ==
    /\ f \in [0..Len(route) -> Spots]
    /\ f[0] = Start(id)
    /\ \A k \in 1..Len(route) : f[k] = Step(f[k - 1], route[k])
    /\ Follow(id, route) = f[Len(route)]

LEMMA FollowsBy ==
    ASSUME Typed, NEW id \in Ids, NEW route, Len(route) \in Nat
    PROVE  \E f : Follows(f, id, route)
  <1> DEFINE n == Len(route)
             h == [k \in 1..n |-> [at \in Spots |-> Step(at, route[k])]]
             Row(f, k) == IF k > 0 THEN Step(f[k - 1], route[k]) ELSE Start(id)
             Eq(f) == f = [k \in 0..n |-> Row(f, k)]
  <1>1. Start(id) \in Spots
    BY DEF Start, Spots, ItemNames
  <1>2. h \in [1..n -> [Spots -> Spots]]
    BY StepIs
  <1>3. ASSUME NEW k \in 1..n, NEW at \in Spots PROVE h[k][at] = Step(at, route[k])
    OBVIOUS
  <1> HIDE DEF h
  <1>4. PICK e : RowsOf(Spots, h, Start(id), n, e)
    BY <1>1, <1>2, RowsExist
  <1>5. ASSUME NEW k \in 0..n PROVE e[k] = Row(e, k)
    <2>1. CASE k = 0
      BY <1>4, <2>1 DEF RowsOf
    <2>2. CASE k # 0
      <3>1. k \in 1..n /\ k - 1 \in 0..n /\ k > 0
        BY <2>2
      <3>2. e[k] = h[k][e[k - 1]] /\ e[k - 1] \in Spots
        BY <1>4, <3>1 DEF RowsOf
      <3> QED
        BY <1>3, <3>1, <3>2
    <2> QED
      BY <2>1, <2>2
  <1>6. e = [k \in 0..n |-> e[k]]
    BY <1>4 DEF RowsOf
  <1>7. Eq(e)
    BY <1>5, <1>6
  <1>8. Follow(id, route) = (CHOOSE f : Eq(f))[n]
    BY DEF Follow, Start
  <1>9. PICK f : Eq(f) /\ Follow(id, route) = f[n]
    BY <1>7, <1>8
  <1>10. \A k \in 0..n : f[k] = Row(f, k)
    BY <1>9
  <1>11. f[0] = Start(id) /\ \A k \in 1..n : f[k] = Step(f[k - 1], route[k])
    BY <1>10
  <1>12. \A k \in 0..n : f[k] \in Spots
    <2>1. \A k \in 1..n : f[k - 1] \in Spots => f[k] = h[k][f[k - 1]]
      BY <1>3, <1>11
    <2>2. n \in Nat
      OBVIOUS
    <2> HIDE DEF n
    <2> QED
      BY <1>1, <1>2, <1>11, <2>1, <2>2, RowsStay
  <1>13. f \in [0..n -> Spots]
    <2>1. f = [k \in 0..n |-> Row(f, k)]
      BY <1>9
    <2> HIDE DEF Row
    <2> QED
      BY <1>10, <1>12, <2>1
  <1> QED
    BY <1>9, <1>11, <1>13 DEF Follows

(* After its first index, a route through an anonymous member goes on as    *)
(* the rest of it does from the type of that member.                        *)
Rest(p) == [j \in 1..(Len(p) - 1) |-> p[j + 1]]

LEMMA LenOf ==
    ASSUME NEW k \in Nat, NEW S, NEW p \in [1..k -> S]
    PROVE  Len(p) = k /\ p \in Seq(S)
  <1>1. p \in Seq(S)
    BY SeqDef
  <1> QED
    BY <1>1, LenProperties

LEMMA RestIs ==
    ASSUME NEW k \in Nat, NEW S, NEW p \in [1..(k + 1) -> S]
    PROVE  Rest(p) \in [1..k -> S] /\ Len(Rest(p)) = k /\ Len(p) = k + 1
  <1>1. Len(p) = k + 1
    BY LenOf
  <1>2. Rest(p) = [j \in 1..k |-> p[j + 1]]
    BY <1>1 DEF Rest
  <1>3. \A j \in 1..k : j + 1 \in 1..(k + 1)
    OBVIOUS
  <1>4. Rest(p) \in [1..k -> S]
    BY <1>2, <1>3
  <1> QED
    BY <1>1, <1>4, LenOf

Same(a, b, base) ==
    /\ a.id = b.id /\ a.off = b.off + base /\ a.open = b.open /\ a.name = b.name
    /\ a.name # NoName => a.width = b.width /\ a.old = b.old

LEMMA StepsSame ==
    ASSUME Typed, NEW a \in Spots, NEW b \in Spots, NEW base \in Nat, Same(a, b, base), NEW i
    PROVE  Same(Step(a, i), Step(b, i), base)
  <1>1. a.id = b.id /\ a.open = b.open /\ a.off = b.off + base /\ a.off \in Nat /\ b.off \in Nat
    BY DEF Same, Spots
  <1>2. Reaches(a, i) <=> Reaches(b, i)
    BY <1>1 DEF Reaches
  <1>3. CASE Reaches(a, i)
    <2> DEFINE t == Type(Resolve(a.id))
               m == t.items[i]
    <2>1. /\ m.off \in Nat
          /\ Step(a, i) = [id |-> m.type, off |-> a.off + m.off, open |-> NameOf(m) = NoName,
                           name |-> NameOf(m), width |-> IF t.kflag THEN m.width ELSE 0, old |-> ~t.kflag]
      BY <1>3, StepIs
    <2>2. Step(b, i) = [id |-> m.type, off |-> b.off + m.off, open |-> NameOf(m) = NoName,
                        name |-> NameOf(m), width |-> IF t.kflag THEN m.width ELSE 0, old |-> ~t.kflag]
      BY <1>1, <1>2, <1>3, StepIs
    <2> HIDE DEF t, m
    <2>3. a.off + m.off = (b.off + m.off) + base
      BY <1>1, <2>1
    <2> QED
      BY <2>1, <2>2, <2>3 DEF Same
  <1>4. CASE ~Reaches(a, i)
    <2>1. EndOf(a.id) = Resolve(a.id) /\ EndOf(b.id) = Resolve(b.id)
      BY EndIs DEF Spots
    <2>2. Step(a, i) = [a EXCEPT !.open = FALSE, !.name = NoName]
      BY <1>4, <2>1 DEF Step, Reaches
    <2>3. Step(b, i) = [b EXCEPT !.open = FALSE, !.name = NoName]
      BY <1>2, <1>4, <2>1 DEF Step, Reaches
    <2> QED
      BY <1>1, <2>2, <2>3 DEF Same, Spots
  <1> QED
    BY <1>3, <1>4

LEMMA StaysShut ==
    ASSUME Typed, NEW id, NEW route, Len(route) \in Nat, NEW f, Follows(f, id, route),
           NEW k0 \in 0..Len(route), ~f[k0].open
    PROVE  \A k \in (k0 + 1)..Len(route) : f[k].name = NoName
  <1> DEFINE S == {d \in Nat : k0 + d <= Len(route) => ~f[k0 + d].open /\ (d # 0 => f[k0 + d].name = NoName)}
  <1>1. 0 \in S
    OBVIOUS
  <1>2. ASSUME NEW d \in S PROVE d + 1 \in S
    <2> SUFFICES ASSUME k0 + (d + 1) <= Len(route)
                 PROVE  ~f[k0 + (d + 1)].open /\ f[k0 + (d + 1)].name = NoName
      OBVIOUS
    <2> DEFINE k == k0 + (d + 1)
    <2>1. d \in Nat /\ k \in 1..Len(route) /\ k - 1 = k0 + d /\ k - 1 \in 0..Len(route) /\ k0 + d <= Len(route)
      OBVIOUS
    <2>2. f[k] = Step(f[k - 1], route[k]) /\ f[k - 1] \in Spots
      BY <2>1 DEF Follows
    <2>3. ~f[k - 1].open
      BY <2>1
    <2>4. ~Reaches(f[k - 1], route[k])
      BY <2>3 DEF Reaches
    <2> HIDE DEF k
    <2> QED
      BY <2>2, <2>4, StepIs DEF k
  <1>3. S = Nat
    <2>1. S \in SUBSET Nat
      OBVIOUS
    <2> HIDE DEF S
    <2> QED
      BY <1>1, <1>2, <2>1, NatInduct
  <1>4. ASSUME NEW k \in (k0 + 1)..Len(route) PROVE f[k].name = NoName
    <2>1. k - k0 \in Nat /\ k - k0 # 0 /\ k0 + (k - k0) = k /\ k <= Len(route)
      OBVIOUS
    <2>2. k - k0 \in S
      BY <1>3, <2>1
    <2> QED
      BY <2>1, <2>2
  <1> QED
    BY <1>4

LEMMA GoesOn ==
    ASSUME Typed, NEW k \in Nat, NEW p \in [1..(k + 1) -> Nat], NEW id \in Ids, NEW f, Follows(f, id, p),
           f[1].open, f[1].name = NoName, NEW g, Follows(g, f[1].id, Rest(p))
    PROVE  \A j \in 0..k : Same(f[j + 1], g[j], f[1].off)
  <1> DEFINE S == {j \in Nat : j <= k => Same(f[j + 1], g[j], f[1].off)}
  <1>0. Len(p) = k + 1 /\ Len(Rest(p)) = k
    BY RestIs
  <1>1. 0 \in S
    <2>1. 0 + 1 = 1 /\ 1 \in 0..(k + 1)
      OBVIOUS
    <2>2. g[0] = Start(f[1].id) /\ f[1] \in Spots
      BY <1>0, <2>1 DEF Follows
    <2>3. Same(f[1], g[0], f[1].off)
      BY <2>2 DEF Same, Start, Spots
    <2> QED
      BY <2>1, <2>3
  <1>2. ASSUME NEW j \in S PROVE j + 1 \in S
    <2> SUFFICES ASSUME j + 1 <= k PROVE Same(f[(j + 1) + 1], g[j + 1], f[1].off)
      OBVIOUS
    <2>1. /\ j \in Nat /\ j <= k /\ j + 1 \in 1..k /\ (j + 1) + 1 \in 1..(k + 1)
          /\ (j + 1) - 1 = j /\ ((j + 1) + 1) - 1 = j + 1 /\ j \in 0..k /\ j + 1 \in 0..(k + 1)
          /\ 1 \in 0..(k + 1)
      OBVIOUS
    <2>2. f[(j + 1) + 1] = Step(f[j + 1], p[(j + 1) + 1]) /\ f[j + 1] \in Spots /\ f[1].off \in Nat
      BY <1>0, <2>1 DEF Follows, Spots
    <2>3. g[j + 1] = Step(g[j], Rest(p)[j + 1]) /\ g[j] \in Spots
      BY <1>0, <2>1 DEF Follows
    <2>4. Rest(p)[j + 1] = p[(j + 1) + 1]
      BY <1>0, <2>1 DEF Rest
    <2>5. Same(f[j + 1], g[j], f[1].off)
      BY <2>1
    <2> QED
      BY <2>2, <2>3, <2>4, <2>5, StepsSame
  <1>3. S = Nat
    <2>1. S \in SUBSET Nat
      OBVIOUS
    <2> HIDE DEF S
    <2> QED
      BY <1>1, <1>2, <2>1, NatInduct
  <1> QED
    BY <1>3

(* Where the first index of a route gets to.                                *)
Enters(id, i) == LET t == Type(Resolve(id)) IN t.kind \in Composite /\ i \in DOMAIN t.items
ItemOf(id, i) == Type(Resolve(id)).items[i]
Landing(id, i) ==
    LET t == Type(Resolve(id))
        m == t.items[i]
    IN  [id |-> m.type, off |-> m.off, open |-> NameOf(m) = NoName,
         name |-> NameOf(m), width |-> IF t.kflag THEN m.width ELSE 0, old |-> ~t.kflag]

LEMMA LandingIs ==
    ASSUME Typed, NEW id \in Ids, NEW i, Enters(id, i)
    PROVE  /\ Landing(id, i) \in Spots
           /\ ItemOf(id, i).type \in Ids /\ ItemOf(id, i).off \in Nat
           /\ Landing(id, i).id = ItemOf(id, i).type
           /\ Landing(id, i).off = ItemOf(id, i).off
           /\ Landing(id, i).name = NameOf(ItemOf(id, i))
           /\ Landing(id, i).open <=> NameOf(ItemOf(id, i)) = NoName
           /\ Step(Start(id), i) = Landing(id, i)
  <1> DEFINE t == Type(Resolve(id))
             m == t.items[i]
  <1>1. Start(id) \in Spots /\ Start(id).id = id /\ Start(id).off = 0 /\ Start(id).open
    BY DEF Start, Spots, ItemNames
  <1>2. Reaches(Start(id), i)
    BY <1>1 DEF Reaches, Enters
  <1>3. /\ m.type \in Ids /\ m.off \in Nat /\ t.kflag \in BOOLEAN /\ Step(Start(id), i) \in Spots
        /\ Step(Start(id), i) =
               [id |-> m.type, off |-> 0 + m.off, open |-> NameOf(m) = NoName,
                name |-> NameOf(m), width |-> IF t.kflag THEN m.width ELSE 0, old |-> ~t.kflag]
    BY <1>1, <1>2, StepIs
  <1>4. 0 + m.off = m.off
    BY <1>3
  <1>5. Step(Start(id), i) = Landing(id, i)
    BY <1>3, <1>4 DEF Landing
  <1> QED
    BY <1>3, <1>5 DEF Landing, ItemOf

LEMMA FirstStep ==
    ASSUME Typed, NEW id \in Ids, NEW k \in Nat, NEW p \in [1..(k + 1) -> Nat], NEW f, Follows(f, id, p)
    PROVE  /\ f[1] \in Spots /\ f[k + 1] = Follow(id, p)
           /\ ~Enters(id, p[1]) => ~f[1].open /\ f[1].name = NoName
           /\ Enters(id, p[1]) => f[1] = Landing(id, p[1])
  <1>0. Len(p) = k + 1
    BY LenOf
  <1>1. 1 \in 1..(k + 1) /\ 1 - 1 = 0 /\ 1 \in 0..(k + 1)
    OBVIOUS
  <1>2. f[1] = Step(Start(id), p[1]) /\ f[1] \in Spots /\ f[k + 1] = Follow(id, p)
    BY <1>0, <1>1 DEF Follows
  <1>3. Start(id) \in Spots /\ Start(id).id = id
    BY DEF Start, Spots, ItemNames
  <1>4. CASE ~Enters(id, p[1])
    <2>1. ~Reaches(Start(id), p[1])
      BY <1>3, <1>4 DEF Reaches, Enters
    <2> QED
      BY <1>2, <1>3, <1>4, <2>1, StepIs
  <1>5. CASE Enters(id, p[1])
    BY <1>2, <1>5, LandingIs
  <1> QED
    BY <1>2, <1>4, <1>5

(* A route leads to a name by one member of that name, or through an        *)
(* anonymous one.                                                           *)
LEMMA HeadLeads ==
    ASSUME Typed, NEW id \in Ids, NEW k \in Nat, NEW p \in [1..(k + 1) -> Nat], NEW name, name # NoName,
           Follow(id, p).name = name
    PROVE  LET m == ItemOf(id, p[1])
           IN  /\ Enters(id, p[1])
               /\ \/ NameOf(m) = name /\ k = 0
                  \/ NameOf(m) = NoName /\ k # 0 /\ Follow(m.type, Rest(p)).name = name
  <1> DEFINE m == ItemOf(id, p[1])
  <1>0. Len(p) = k + 1 /\ Len(Rest(p)) = k
    BY RestIs
  <1>1. Len(p) \in Nat /\ Len(Rest(p)) \in Nat
    BY <1>0
  <1>2. PICK f : Follows(f, id, p)
    BY <1>1, FollowsBy
  <1>3. /\ f[1] \in Spots /\ f[k + 1].name = name
        /\ ~Enters(id, p[1]) => ~f[1].open /\ f[1].name = NoName
        /\ Enters(id, p[1]) => f[1] = Landing(id, p[1])
    BY <1>2, FirstStep
  <1>4. ASSUME k = 0 PROVE f[1].name = name
    <2>1. k + 1 = 1
      BY <1>4
    <2> QED
      BY <1>3, <2>1
  <1>5. CASE ~f[1].open
    <2>1. ASSUME k # 0 PROVE FALSE
      <3>1. k + 1 \in (1 + 1)..Len(p) /\ 1 \in 0..Len(p)
        BY <1>0, <2>1
      <3>2. f[k + 1].name = NoName
        BY <1>1, <1>2, <1>5, <3>1, StaysShut
      <3> QED
        BY <1>3, <3>2
    <2>2. f[1].name = name
      BY <1>4, <2>1
    <2>3. Enters(id, p[1])
      BY <1>3, <2>2
    <2>4. f[1].name = NameOf(m)
      BY <1>3, <2>3, LandingIs
    <2> QED
      BY <2>1, <2>2, <2>3, <2>4
  <1>6. CASE f[1].open
    <2>1. Enters(id, p[1])
      BY <1>3, <1>6
    <2>2. f[1] = Landing(id, p[1])
      BY <1>3, <2>1
    <2>3. NameOf(m) = NoName /\ f[1].name = NoName /\ f[1].id = m.type /\ m.type \in Ids
      BY <1>6, <2>1, <2>2, LandingIs
    <2>4. k # 0
      BY <1>4, <2>3
    <2>5. PICK g : Follows(g, m.type, Rest(p))
      BY <1>1, <2>3, FollowsBy
    <2>6. k \in 0..k
      OBVIOUS
    <2>7. Same(f[k + 1], g[k], f[1].off)
      BY <1>2, <1>6, <2>3, <2>5, <2>6, GoesOn
    <2>8. Follow(m.type, Rest(p)) = g[k]
      BY <1>0, <2>5 DEF Follows
    <2>9. Follow(m.type, Rest(p)).name = name
      BY <1>3, <2>7, <2>8 DEF Same
    <2> QED
      BY <2>1, <2>3, <2>4, <2>9
  <1> QED
    BY <1>5, <1>6

LEMMA OneIndex ==
    ASSUME Typed, NEW id \in Ids, NEW p \in [1..1 -> Nat], Enters(id, p[1])
    PROVE  Follow(id, p) = Landing(id, p[1])
  <1>1. 0 \in Nat /\ 0 + 1 = 1
    OBVIOUS
  <1>2. Len(p) = 1
    BY LenOf
  <1>3. Len(p) \in Nat
    BY <1>2
  <1>4. PICK f : Follows(f, id, p)
    BY <1>3, FollowsBy
  <1>5. f[0 + 1] = Follow(id, p) /\ f[1] = Landing(id, p[1])
    BY <1>1, <1>4, FirstStep
  <1> QED
    BY <1>1, <1>5

LEMMA MoreIndexes ==
    ASSUME Typed, NEW id \in Ids, NEW k \in Nat, NEW p \in [1..(k + 1) -> Nat],
           Enters(id, p[1]), NameOf(ItemOf(id, p[1])) = NoName
    PROVE  Same(Follow(id, p), Follow(ItemOf(id, p[1]).type, Rest(p)), ItemOf(id, p[1]).off)
  <1> DEFINE m == ItemOf(id, p[1])
  <1>0. Len(p) = k + 1 /\ Len(Rest(p)) = k
    BY RestIs
  <1>1. Len(p) \in Nat /\ Len(Rest(p)) \in Nat
    BY <1>0
  <1>2. PICK f : Follows(f, id, p)
    BY <1>1, FollowsBy
  <1>3. f[k + 1] = Follow(id, p) /\ f[1] = Landing(id, p[1])
    BY <1>2, FirstStep
  <1>4. f[1].id = m.type /\ m.type \in Ids /\ f[1].off = m.off /\ f[1].name = NoName /\ f[1].open
    BY <1>3, LandingIs
  <1>5. PICK g : Follows(g, m.type, Rest(p))
    BY <1>1, <1>4, FollowsBy
  <1>6. k \in 0..k
    OBVIOUS
  <1>7. Same(f[k + 1], g[k], f[1].off)
    BY <1>2, <1>4, <1>5, <1>6, GoesOn
  <1>8. g[k] = Follow(m.type, Rest(p))
    BY <1>0, <1>5 DEF Follows
  <1> QED
    BY <1>3, <1>4, <1>7, <1>8

(* Routes of bounded length, and those that lead to a name.                 *)
RoutesTo(n) == UNION {[1..k -> Indexes] : k \in 1..n}
Leading(id, name, n) == {p \in RoutesTo(n) : Follow(id, p).name = name}
Join(i, r) == [j \in 1..(Len(r) + 1) |-> IF j = 1 THEN i ELSE r[j - 1]]

LEMMA IndexesAre ==
    ASSUME Typed
    PROVE  /\ Indexes \subseteq Nat
           /\ \A id \in Ids : \A i : Enters(id, i) => i \in Indexes
  <1>1. ASSUME NEW id \in Ids \ {0} PROVE btf.types[id] = Type(id) /\ DOMAIN Type(id).items \subseteq Nat
    <2>1. btf.types[id] = Type(id)
      BY DEF Type
    <2>2. DOMAIN Type(id).items \subseteq Nat
      BY TypeIs DEF TypeIn
    <2> QED
      BY <2>1, <2>2
  <1>2. Indexes \subseteq Nat
    BY <1>1 DEF Indexes
  <1>3. ASSUME NEW id \in Ids, NEW i, Enters(id, i) PROVE i \in Indexes
    <2> DEFINE e == Resolve(id)
    <2>1. e \in Ids
      BY ResolveIs
    <2>2. Type(e).kind \in Composite /\ i \in DOMAIN Type(e).items
      BY <1>3 DEF Enters
    <2>3. e # 0
      <3>1. Type(0).kind \notin Composite
        BY DEF Type, Void, Composite
      <3> QED
        BY <2>2, <3>1
    <2> HIDE DEF e
    <2> QED
      BY <1>1, <2>1, <2>2, <2>3 DEF Indexes
  <1> QED
    BY <1>2, <1>3

LEMMA RouteIs ==
    ASSUME Typed, NEW n \in Nat, NEW p \in RoutesTo(n)
    PROVE  \E k \in Nat : k + 1 \in 1..n /\ p \in [1..(k + 1) -> Nat] /\ p \in [1..(k + 1) -> Indexes]
  <1>1. PICK j \in 1..n : p \in [1..j -> Indexes]
    BY DEF RoutesTo
  <1>2. j - 1 \in Nat /\ (j - 1) + 1 = j
    OBVIOUS
  <1>3. p \in [1..j -> Nat]
    BY <1>1, IndexesAre
  <1> QED
    BY <1>1, <1>2, <1>3

LEMMA RestLeads ==
    ASSUME Typed, NEW n \in Nat, NEW id \in Ids, NEW name, name # NoName, NEW p \in Leading(id, name, n + 1)
    PROVE  LET m == ItemOf(id, p[1])
           IN  /\ Enters(id, p[1]) /\ p[1] \in Nat
               /\ \/ NameOf(m) = name /\ p = Join(p[1], <<>>)
                  \/ NameOf(m) = NoName /\ Rest(p) \in Leading(m.type, name, n) /\ p = Join(p[1], Rest(p))
  <1> DEFINE m == ItemOf(id, p[1])
  <1>1. p \in RoutesTo(n + 1) /\ Follow(id, p).name = name
    BY DEF Leading
  <1>2. PICK k \in Nat : /\ k + 1 \in 1..(n + 1) /\ p \in [1..(k + 1) -> Nat]
                         /\ p \in [1..(k + 1) -> Indexes]
    BY <1>1, RouteIs
  <1>3. /\ Enters(id, p[1])
        /\ \/ NameOf(m) = name /\ k = 0
           \/ NameOf(m) = NoName /\ k # 0 /\ Follow(m.type, Rest(p)).name = name
    BY <1>1, <1>2, HeadLeads
  <1>4. p[1] \in Nat
    BY <1>2
  <1>5. CASE k = 0
    <2>1. p \in [1..1 -> Nat]
      BY <1>2, <1>5
    <2>2. Len(<<>>) = 0 /\ 0 + 1 = 1
      OBVIOUS
    <2>3. Join(p[1], <<>>) = [j \in 1..1 |-> IF j = 1 THEN p[1] ELSE <<>>[j - 1]]
      BY <2>2 DEF Join
    <2>4. p = Join(p[1], <<>>)
      BY <2>1, <2>3
    <2> QED
      BY <1>3, <1>4, <1>5, <2>4
  <1>6. CASE k # 0
    <2>1. Rest(p) \in [1..k -> Indexes] /\ Len(Rest(p)) = k /\ Len(p) = k + 1
      BY <1>2, RestIs
    <2>2. k \in 1..n
      BY <1>2, <1>6
    <2>3. Rest(p) \in RoutesTo(n)
      BY <2>1, <2>2 DEF RoutesTo
    <2>4. Rest(p) \in Leading(m.type, name, n)
      BY <1>3, <1>6, <2>3 DEF Leading
    <2>5. p = Join(p[1], Rest(p))
      <3>1. Join(p[1], Rest(p)) = [j \in 1..(k + 1) |-> IF j = 1 THEN p[1] ELSE Rest(p)[j - 1]]
        BY <2>1 DEF Join
      <3>2. ASSUME NEW j \in 1..(k + 1), j # 1 PROVE Rest(p)[j - 1] = p[j]
        <4>1. j - 1 \in 1..((k + 1) - 1) /\ (j - 1) + 1 = j
          BY <3>2
        <4> QED
          BY <2>1, <4>1 DEF Rest
      <3>3. p = [j \in 1..(k + 1) |-> p[j]]
        BY <1>2
      <3> QED
        BY <3>1, <3>2, <3>3
    <2> QED
      BY <1>3, <1>4, <1>6, <2>4, <2>5
  <1> QED
    BY <1>5, <1>6

LEMMA JoinIs ==
    ASSUME NEW k \in Nat, NEW S, NEW r \in [1..k -> S], NEW i \in S
    PROVE  /\ Join(i, r) \in [1..(k + 1) -> S] /\ Join(i, r)[1] = i
           /\ Rest(Join(i, r)) = r
           /\ \A j \in 1..k : Join(i, r)[j + 1] = r[j]
  <1> DEFINE p == Join(i, r)
  <1>1. p = [j \in 1..(k + 1) |-> IF j = 1 THEN i ELSE r[j - 1]]
    BY LenOf DEF Join
  <1>2. ASSUME NEW j \in 1..(k + 1), j # 1 PROVE r[j - 1] \in S
    <2>1. j - 1 \in 1..k
      BY <1>2
    <2> QED
      BY <2>1
  <1>3. ASSUME NEW j \in 1..k PROVE j + 1 \in 1..(k + 1) /\ j + 1 # 1 /\ (j + 1) - 1 = j
    OBVIOUS
  <1> HIDE DEF p
  <1>4. p \in [1..(k + 1) -> S] /\ p[1] = i
    BY <1>1, <1>2
  <1>5. ASSUME NEW j \in 1..k PROVE p[j + 1] = r[j]
    BY <1>1, <1>3
  <1>6. Rest(p) = [j \in 1..k |-> p[j + 1]]
    <2>1. Len(p) = k + 1
      BY <1>4, LenOf
    <2>2. Len(p) - 1 = k
      BY <2>1
    <2> QED
      BY <2>2 DEF Rest
  <1>7. Rest(p) = r
    BY <1>5, <1>6
  <1> QED
    BY <1>4, <1>5, <1>7 DEF p

(* The order of routes: by the first index they differ in.                  *)
LEMMA EarlierBy ==
    ASSUME NEW a \in Nat, NEW b \in Nat, NEW p \in [1..(a + 1) -> Nat], NEW q \in [1..(b + 1) -> Nat]
    PROVE  /\ p[1] < q[1] => Earlier(p, q)
           /\ p[1] = q[1] /\ Earlier(Rest(p), Rest(q)) => Earlier(p, q)
  <1>1. ASSUME p[1] < q[1] PROVE Earlier(p, q)
    <2>1. 1 \in DOMAIN p \cap DOMAIN q /\ \A j \in 1..(1 - 1) : p[j] = q[j]
      OBVIOUS
    <2> QED
      BY <1>1, <2>1 DEF Earlier
  <1>2. ASSUME p[1] = q[1], Earlier(Rest(p), Rest(q)) PROVE Earlier(p, q)
    <2>0. DOMAIN Rest(p) = 1..a /\ DOMAIN Rest(q) = 1..b /\ Len(p) = a + 1 /\ Len(q) = b + 1
      <3>1. Rest(p) \in [1..a -> Nat] /\ Len(p) = a + 1
        BY RestIs
      <3>2. Rest(q) \in [1..b -> Nat] /\ Len(q) = b + 1
        BY RestIs
      <3> QED
        BY <3>1, <3>2
    <2>1. PICK k \in (1..a) \cap (1..b) : /\ Rest(p)[k] < Rest(q)[k]
                                         /\ \A j \in 1..(k - 1) : Rest(p)[j] = Rest(q)[j]
      BY <1>2, <2>0 DEF Earlier
    <2>2. ASSUME NEW j \in (1..a) \cap (1..b) PROVE Rest(p)[j] = p[j + 1] /\ Rest(q)[j] = q[j + 1]
      BY <2>0 DEF Rest
    <2>3. k + 1 \in DOMAIN p \cap DOMAIN q
      OBVIOUS
    <2>4. p[k + 1] < q[k + 1]
      BY <2>1, <2>2
    <2>5. ASSUME NEW j \in 1..((k + 1) - 1) PROVE p[j] = q[j]
      <3>1. CASE j = 1
        BY <1>2, <3>1
      <3>2. CASE j # 1
        <4>1. j - 1 \in (1..a) \cap (1..b) /\ j - 1 \in 1..(k - 1) /\ (j - 1) + 1 = j
          BY <3>2
        <4> QED
          BY <2>1, <2>2, <4>1
      <3> QED
        BY <3>1, <3>2
    <2> QED
      BY <2>3, <2>4, <2>5 DEF Earlier
  <1> QED
    BY <1>1, <1>2

LEMMA EarliestAt ==
    ASSUME NEW Found, NEW none, Found # {}, \A f \in Found : f[1] \in Nat
    PROVE  \E f \in Found : Earliest(Found, none) = f[2] /\ \A g \in Found : f[1] <= g[1]
  <1> DEFINE Places == {f[1] : f \in Found}
  <1>1. Places \in SUBSET Nat /\ Places # {}
    OBVIOUS
  <1>2. PICK p \in Places : \A q \in Places : p <= q
    BY <1>1, LeastNat
  <1>3. PICK f \in Found : f[1] = p
    BY <1>2
  <1>4. \A g \in Found : f[1] <= g[1]
    BY <1>2, <1>3
  <1> QED
    BY <1>4 DEF Earliest

(* A member as the code gives it, of the spot a route leads to.             *)
MemberAt(at) ==
    LET b == Bitfield(at, Type(Resolve(at.id)))
    IN  [ok |-> TRUE, type |-> b.id, off |-> b.off, width |-> b.width]

Least(p, P) == p \in P /\ \A q \in P : q = p \/ Earlier(p, q)

LeadsFirst(p, i, P) == p \in P /\ p[1] = i /\ \A q \in P : q[1] = i => q = p \/ Earlier(p, q)

FoundAt(row, n, name) ==
    \A id \in Ids :
        LET P == Leading(id, name, n)
        IN  IF row[id].ok THEN \E p : Least(p, P) /\ row[id] = MemberAt(Follow(id, p))
            ELSE row[id] = No /\ P = {}

LEMMA PlacedHere ==
    ASSUME Typed, NEW id \in Ids, NEW i, Enters(id, i)
    PROVE  MemberAt(Landing(id, i)) =
               Declared(Type(Resolve(id)), ItemOf(id, i), Type(Resolve(ItemOf(id, i).type)))
  <1> DEFINE t == Type(Resolve(id))
             m == t.items[i]
             mt == Type(Resolve(m.type))
             at == Landing(id, i)
  <1>1. m.off \in Nat /\ m.type \in Ids
    BY LandingIs DEF ItemOf
  <1>2. t.kflag \in BOOLEAN
    BY ResolveIs, TypeIs DEF TypeIn
  <1>3. at.id = m.type /\ at.off = m.off /\ at.old = ~t.kflag /\ at.width = IF t.kflag THEN m.width ELSE 0
    BY DEF Landing
  <1> HIDE DEF t, m, mt, at
  <1>4. MemberAt(at) = [ok |-> TRUE, type |-> m.type,
                      off |-> m.off + (IF ~t.kflag /\ Narrow(mt) THEN mt.boff ELSE 0),
                      width |-> IF ~t.kflag /\ Narrow(mt) THEN mt.bits
                                ELSE IF t.kflag THEN m.width ELSE 0]
    BY <1>3 DEF MemberAt, Bitfield, mt
  <1>5. m.off + 0 = m.off
    BY <1>1
  <1>6. MemberAt(at) = Declared(t, m, mt)
    BY <1>4, <1>5 DEF Declared
  <1> QED
    BY <1>6 DEF t, m, mt, at, ItemOf

LEMMA PlacedFurther ==
    ASSUME Typed, NEW a \in Spots, NEW b \in Spots, NEW base \in Nat, Same(a, b, base), b.name # NoName
    PROVE  MemberAt(a) = Shifted(MemberAt(b), base)
  <1> DEFINE t == Type(Resolve(b.id))
             narrow == b.old /\ Narrow(t)
  <1>1. a.id = b.id /\ a.off = b.off + base /\ a.width = b.width /\ a.old = b.old /\ b.off \in Nat /\ b.id \in Ids
    BY DEF Same, Spots
  <1>2. Narrow(t) => t.boff \in Nat
    BY <1>1, ResolveIs, TypeIs DEF Narrow
  <1>3. MemberAt(a) = [ok |-> TRUE, type |-> b.id, off |-> (b.off + base) + (IF narrow THEN t.boff ELSE 0),
                     width |-> IF narrow THEN t.bits ELSE b.width]
    BY <1>1 DEF MemberAt, Bitfield
  <1>4. MemberAt(b) = [ok |-> TRUE, type |-> b.id, off |-> b.off + (IF narrow THEN t.boff ELSE 0),
                     width |-> IF narrow THEN t.bits ELSE b.width]
    BY DEF MemberAt, Bitfield
  <1>5. (b.off + base) + (IF narrow THEN t.boff ELSE 0) = (b.off + (IF narrow THEN t.boff ELSE 0)) + base
    <2> HIDE DEF t
    <2> QED
      BY <1>1, <1>2
  <1> HIDE DEF t, narrow
  <1>6. Shifted(MemberAt(b), base) = [MemberAt(b) EXCEPT !.off = @ + base]
    BY <1>4 DEF Shifted
  <1> DEFINE o == b.off + (IF narrow THEN t.boff ELSE 0)
             w == IF narrow THEN t.bits ELSE b.width
  <1>7. MemberAt(b) = [ok |-> TRUE, type |-> b.id, off |-> o, width |-> w]
    BY <1>4
  <1>8. MemberAt(a) = [ok |-> TRUE, type |-> b.id, off |-> o + base, width |-> w]
    BY <1>3, <1>5
  <1> HIDE DEF o, w
  <1> DEFINE new == o + base
  <1>9. [MemberAt(b) EXCEPT !.off = @ + base] = [MemberAt(b) EXCEPT !.off = new]
    BY <1>7
  <1>10. MemberAt(a) = [ok |-> TRUE, type |-> b.id, off |-> new, width |-> w]
    BY <1>8
  <1> HIDE DEF new
  <1>11. [MemberAt(b) EXCEPT !.off = new] = [ok |-> TRUE, type |-> b.id, off |-> new, width |-> w]
    <2> DEFINE y == TRUE
    <2>1. MemberAt(b) = [ok |-> y, type |-> b.id, off |-> o, width |-> w]
      BY <1>7
    <2> HIDE DEF y
    <2>2. [MemberAt(b) EXCEPT !.off = new] = [ok |-> y, type |-> b.id, off |-> new, width |-> w]
      BY <2>1
    <2> QED
      BY <2>2 DEF y
  <1> QED
    BY <1>6, <1>9, <1>10, <1>11

LEMMA FollowIn ==
    ASSUME Typed, NEW id \in Ids, NEW n \in Nat, NEW p \in RoutesTo(n)
    PROVE  Follow(id, p) \in Spots
  <1>1. PICK k \in Nat : p \in [1..(k + 1) -> Nat]
    BY RouteIs
  <1>2. Len(p) = k + 1
    BY <1>1, LenOf
  <1>3. Len(p) \in Nat /\ Len(p) \in 0..Len(p)
    BY <1>2
  <1>4. PICK f : Follows(f, id, p)
    BY <1>3, FollowsBy
  <1> QED
    BY <1>3, <1>4 DEF Follows

(* What one member gives is what the routes through it lead to.             *)
LEMMA HitLeads ==
    ASSUME Typed, NEW n \in Nat, NEW name, name # NoName, NEW row \in [Ids -> Members],
           FoundAt(row, n, name), NEW id \in Ids, NEW i, Enters(id, i)
    PROVE  LET P == Leading(id, name, n + 1)
               h == HitIn(row, Type(Resolve(id)), ItemOf(id, i), name)
           IN  IF h.ok THEN \E p : LeadsFirst(p, i, P) /\ h = MemberAt(Follow(id, p))
               ELSE \A q \in P : q[1] # i
  <1> DEFINE P == Leading(id, name, n + 1)
             m == ItemOf(id, i)
             h == HitIn(row, Type(Resolve(id)), m, name)
  <1>1. i \in Indexes /\ i \in Nat
    BY IndexesAre
  <1>2. m.type \in Ids /\ m.off \in Nat
    BY LandingIs
  <1>3. CASE NameOf(m) = NoName
    <2> DEFINE R == Leading(m.type, name, n)
    <2>1. h = Shifted(row[m.type], m.off)
      BY <1>3 DEF HitIn
    <2>2. ASSUME NEW q \in P, q[1] = i PROVE Rest(q) \in R /\ q = Join(i, Rest(q))
      BY <1>3, <2>2, RestLeads
    <2>3. CASE ~row[m.type].ok
      <3>1. row[m.type] = No /\ R = {}
        BY <1>2, <2>3 DEF FoundAt
      <3>2. ~h.ok
        BY <2>1, <3>1 DEF Shifted, No
      <3>3. \A q \in P : q[1] # i
        BY <2>2, <3>1
      <3> QED
        BY <3>2, <3>3
    <2>4. CASE row[m.type].ok
      <3>1. PICK r : Least(r, R) /\ row[m.type] = MemberAt(Follow(m.type, r))
        BY <1>2, <2>4 DEF FoundAt
      <3>2. r \in RoutesTo(n) /\ Follow(m.type, r).name = name /\ Follow(m.type, r) \in Spots
        BY <1>2, <3>1, FollowIn DEF Least, Leading
      <3>3. PICK k \in Nat : k + 1 \in 1..n /\ r \in [1..(k + 1) -> Nat] /\ r \in [1..(k + 1) -> Indexes]
        BY <3>2, RouteIs
      <3> DEFINE p == Join(i, r)
                 j == k + 1
      <3>4. j \in Nat /\ j + 1 \in 1..(n + 1)
        BY <3>3
      <3>5. p \in [1..(j + 1) -> Indexes] /\ p[1] = i /\ Rest(p) = r
        <4> HIDE DEF j
        <4>1. r \in [1..j -> Indexes]
          BY <3>3 DEF j
        <4>2. Join(i, r) \in [1..(j + 1) -> Indexes]
          BY <1>1, <3>4, <4>1, JoinIs
        <4>3. Join(i, r)[1] = i
          <5>1. Len(r) = j
            BY <3>4, <4>1, LenOf
          <5>2. 1 \in 1..(Len(r) + 1)
            BY <3>4, <5>1
          <5> QED
            BY <5>2 DEF Join
        <4>4. Rest(Join(i, r)) = r
          BY <1>1, <3>4, <4>1, JoinIs
        <4> QED
          BY <4>2, <4>3, <4>4
      <3>6. p \in [1..(j + 1) -> Nat]
        BY <3>5, IndexesAre
      <3>7. p \in RoutesTo(n + 1)
        BY <3>4, <3>5 DEF RoutesTo
      <3> HIDE DEF p, j
      <3>8. Same(Follow(id, p), Follow(m.type, r), m.off)
        BY <1>3, <3>4, <3>5, <3>6, MoreIndexes
      <3>9. Follow(id, p).name = name /\ Follow(id, p) \in Spots
        BY <3>2, <3>7, <3>8, FollowIn DEF Same
      <3>10. p \in P
        BY <3>7, <3>9 DEF Leading
      <3>11. MemberAt(Follow(id, p)) = h
        BY <1>2, <2>1, <3>1, <3>2, <3>8, <3>9, PlacedFurther
      <3>12. ASSUME NEW q \in P, q[1] = i PROVE q = p \/ Earlier(p, q)
        <4>1. Rest(q) \in R /\ q = Join(i, Rest(q))
          BY <2>2, <3>12
        <4>2. CASE Rest(q) = r
          BY <4>1, <4>2 DEF p
        <4>3. CASE Rest(q) # r
          <5>1. Earlier(r, Rest(q))
            BY <3>1, <4>1, <4>3 DEF Least
          <5>2. q \in RoutesTo(n + 1)
            BY DEF Leading
          <5>3. PICK b \in Nat : q \in [1..(b + 1) -> Nat]
            BY <5>2, RouteIs
          <5> QED
            BY <3>4, <3>5, <3>6, <3>12, <5>1, <5>3, EarlierBy
        <4> QED
          BY <4>2, <4>3
      <3>13. LeadsFirst(p, i, P)
        BY <3>5, <3>10, <3>12 DEF LeadsFirst
      <3>14. h.ok
        BY <3>11 DEF MemberAt
      <3> QED
        BY <3>11, <3>13, <3>14
    <2> QED
      BY <2>3, <2>4
  <1>4. CASE NameOf(m) # NoName /\ NameOf(m) = name
    <2>1. h = Declared(Type(Resolve(id)), m, Type(Resolve(m.type)))
      BY <1>4 DEF HitIn
    <2> DEFINE p == [j \in 1..1 |-> i]
    <2>2. p \in [1..1 -> Nat] /\ p \in [1..1 -> Indexes] /\ p[1] = i /\ p = Join(i, <<>>)
      <3>1. Len(<<>>) = 0 /\ 0 + 1 = 1
        OBVIOUS
      <3>2. Join(i, <<>>) = [j \in 1..1 |-> IF j = 1 THEN i ELSE <<>>[j - 1]]
        BY <3>1 DEF Join
      <3> QED
        BY <1>1, <3>2
    <2>3. p \in RoutesTo(n + 1)
      BY <2>2 DEF RoutesTo
    <2> HIDE DEF p
    <2>4. Follow(id, p) = Landing(id, i)
      BY <2>2, OneIndex
    <2>5. p \in P
      BY <1>4, <2>3, <2>4, LandingIs DEF Leading
    <2>6. h = MemberAt(Follow(id, p))
      BY <2>1, <2>4, PlacedHere
    <2>7. ASSUME NEW q \in P, q[1] = i PROVE q = p
      BY <1>4, <2>2, <2>7, RestLeads
    <2>8. LeadsFirst(p, i, P)
      BY <2>2, <2>5, <2>7 DEF LeadsFirst
    <2>9. h.ok
      BY <2>6 DEF MemberAt
    <2> QED
      BY <2>6, <2>8, <2>9
  <1>5. CASE NameOf(m) # NoName /\ NameOf(m) # name
    <2>1. h = No
      BY <1>5 DEF HitIn
    <2>2. ASSUME NEW q \in P, q[1] = i PROVE FALSE
      BY <1>5, <2>2, RestLeads
    <2>3. ~h.ok
      BY <2>1 DEF No
    <2> QED
      BY <2>2, <2>3
  <1> QED
    BY <1>3, <1>4, <1>5

LEMMA RowLeads ==
    ASSUME Typed, NEW n \in Nat, NEW name, name # NoName, NEW row \in [Ids -> Members],
           FoundAt(row, n, name), NEW id \in Ids, NEW got,
           got = AmongIn(row, Type(Resolve(id)), name)
    PROVE  LET P == Leading(id, name, n + 1)
           IN  IF got.ok THEN \E p : Least(p, P) /\ got = MemberAt(Follow(id, p))
               ELSE got = No /\ P = {}
  <1> DEFINE P == Leading(id, name, n + 1)
             t == Type(Resolve(id))
             Hit(i) == HitIn(row, t, t.items[i], name)
             Found == {h \in {<<i, Hit(i)>> : i \in DOMAIN t.items} : h[2].ok}
  <1>0. /\ ~No.ok
        /\ \A q \in P : Enters(id, q[1]) /\ q[1] \in Nat
    BY RestLeads DEF No
  <1>1. CASE t.kind \notin Composite
    <2>1. got = No
      BY <1>1 DEF AmongIn
    <2>2. \A i : ~Enters(id, i)
      BY <1>1 DEF Enters
    <2> QED
      BY <1>0, <2>1, <2>2
  <1>2. CASE t.kind \in Composite
    <2>1. got = Earliest(Found, No)
      BY <1>2 DEF AmongIn
    <2>2. \A i : Enters(id, i) <=> i \in DOMAIN t.items
      BY <1>2 DEF Enters
    <2>3. ASSUME NEW i, Enters(id, i)
          PROVE  IF Hit(i).ok THEN \E p : LeadsFirst(p, i, P) /\ Hit(i) = MemberAt(Follow(id, p))
                 ELSE \A q \in P : q[1] # i
      BY <2>3, HitLeads DEF ItemOf
    <2>4. \A i \in DOMAIN t.items : i \in Nat
      BY ResolveIs, TypeIs DEF TypeIn
    <2> HIDE DEF P, Hit, t
    <2>5. \A h \in Found : /\ h[1] \in DOMAIN t.items /\ h[2] = Hit(h[1]) /\ h[2].ok
      OBVIOUS
    <2>6. \A i \in DOMAIN t.items : Hit(i).ok => \E h \in Found : h[1] = i
      <3>1. ASSUME NEW i \in DOMAIN t.items, Hit(i).ok PROVE <<i, Hit(i)>> \in Found /\ <<i, Hit(i)>>[1] = i
        BY <3>1
      <3> HIDE DEF Found
      <3> QED
        BY <3>1
    <2> HIDE DEF Found
    <2>7. CASE Found = {}
      <3>1. got = No
        BY <2>1, <2>7 DEF Earliest
      <3>2. ASSUME NEW q \in P PROVE FALSE
        <4>1. Enters(id, q[1]) /\ ~Hit(q[1]).ok
          BY <1>0, <2>2, <2>6, <2>7
        <4> QED
          BY <2>3, <4>1
      <3> QED
        BY <1>0, <3>1, <3>2 DEF P
    <2>8. CASE Found # {}
      <3>1. PICK h \in Found : Earliest(Found, No) = h[2] /\ \A g \in Found : h[1] <= g[1]
        BY <2>4, <2>5, <2>8, EarliestAt
      <3> DEFINE i == h[1]
      <3>2. i \in DOMAIN t.items /\ i \in Nat /\ Enters(id, i) /\ got = Hit(i) /\ Hit(i).ok
        BY <2>1, <2>2, <2>4, <2>5, <3>1
      <3>3. PICK p : LeadsFirst(p, i, P) /\ Hit(i) = MemberAt(Follow(id, p))
        BY <2>3, <3>2
      <3>4. p \in P /\ p[1] = i
        BY <3>3 DEF LeadsFirst
      <3>5. ASSUME NEW q \in P, q[1] # i PROVE Earlier(p, q)
        <4>1. Enters(id, q[1]) /\ q[1] \in Nat
          BY <1>0
        <4>2. Hit(q[1]).ok
          BY <2>3, <4>1
        <4>3. i <= q[1]
          BY <2>2, <2>6, <3>1, <4>1, <4>2
        <4>4. p[1] < q[1]
          BY <3>2, <3>4, <3>5, <4>1, <4>3
        <4>5. p \in RoutesTo(n + 1) /\ q \in RoutesTo(n + 1) /\ n + 1 \in Nat
          BY <3>4 DEF P, Leading
        <4>6. PICK a \in Nat : p \in [1..(a + 1) -> Nat]
          BY <4>5, RouteIs
        <4>7. PICK b \in Nat : q \in [1..(b + 1) -> Nat]
          BY <4>5, RouteIs
        <4> QED
          BY <4>4, <4>6, <4>7, EarlierBy
      <3>6. Least(p, P)
        BY <3>3, <3>4, <3>5 DEF Least, LeadsFirst
      <3> QED
        BY <3>2, <3>3, <3>6 DEF P
    <2> QED
      BY <2>7, <2>8
  <1> QED
    BY <1>1, <1>2

LEMMA RowsLead ==
    ASSUME Typed, NEW name, name # NoName, NEW f, MemberRows(f, name)
    PROVE  \A n \in 0..(MaxDepth + 1) : FoundAt(f[n], n, name)
  <1> DEFINE S == {n \in Nat : n <= MaxDepth + 1 => FoundAt(f[n], n, name)}
  <1>0. MaxDepth + 1 \in Nat
    BY TypeBounds
  <1>1. 0 \in S
    <2>1. 0 \in 0..(MaxDepth + 1)
      BY <1>0
    <2>2. \A id \in Ids : f[0][id] = No
      BY <2>1 DEF MemberRows, MemberRow
    <2>3. ASSUME NEW id PROVE Leading(id, name, 0) = {}
      BY DEF Leading, RoutesTo
    <2>4. ~No.ok
      BY DEF No
    <2> QED
      BY <2>2, <2>3, <2>4 DEF FoundAt
  <1>2. ASSUME NEW n \in S PROVE n + 1 \in S
    <2> SUFFICES ASSUME n + 1 <= MaxDepth + 1 PROVE FoundAt(f[n + 1], n + 1, name)
      OBVIOUS
    <2>1. n \in Nat /\ FoundAt(f[n], n, name) /\ n \in 0..(MaxDepth + 1) /\ n + 1 \in 0..(MaxDepth + 1)
          /\ (n + 1) - 1 = n /\ n + 1 # 0
      BY <1>0
    <2>2. f[n] \in [Ids -> Members] /\ f[n + 1] = MemberRow(f, n + 1, name)
      BY <2>1 DEF MemberRows
    <2>3. ASSUME NEW id \in Ids PROVE f[n + 1][id] = AmongIn(f[n], Type(Resolve(id)), name)
      BY <2>1, <2>2 DEF MemberRow
    <2>4. ASSUME NEW id \in Ids
          PROVE  LET P == Leading(id, name, n + 1)
                 IN  IF f[n + 1][id].ok THEN \E p : Least(p, P) /\ f[n + 1][id] = MemberAt(Follow(id, p))
                     ELSE f[n + 1][id] = No /\ P = {}
      BY <2>1, <2>2, <2>3, RowLeads
    <2> QED
      BY <2>4 DEF FoundAt
  <1>3. S = Nat
    <2>1. S \in SUBSET Nat
      OBVIOUS
    <2> HIDE DEF S
    <2> QED
      BY <1>1, <1>2, <2>1, NatInduct
  <1> QED
    BY <1>0, <1>3

LEMMA NotBothEarlier ==
    ASSUME NEW a \in Nat, NEW b \in Nat, NEW p \in [1..(a + 1) -> Nat], NEW q \in [1..(b + 1) -> Nat],
           Earlier(p, q), Earlier(q, p)
    PROVE  FALSE
  <1>1. PICK k \in (1..(a + 1)) \cap (1..(b + 1)) : p[k] < q[k] /\ \A j \in 1..(k - 1) : p[j] = q[j]
    BY DEF Earlier
  <1>2. PICK l \in (1..(a + 1)) \cap (1..(b + 1)) : q[l] < p[l] /\ \A j \in 1..(l - 1) : q[j] = p[j]
    BY DEF Earlier
  <1>3. p[k] \in Nat /\ q[k] \in Nat /\ p[l] \in Nat /\ q[l] \in Nat /\ k \in Nat /\ l \in Nat
    OBVIOUS
  <1>4. CASE k = l
    BY <1>1, <1>2, <1>3, <1>4
  <1>5. CASE k < l
    <2>1. k \in 1..(l - 1)
      BY <1>5
    <2>2. q[k] = p[k]
      BY <1>2, <2>1
    <2> QED
      BY <1>1, <1>3, <2>2
  <1>6. CASE l < k
    <2>1. l \in 1..(k - 1)
      BY <1>6
    <2>2. q[l] = p[l]
      BY <1>1, <2>1
    <2> QED
      BY <1>2, <1>3, <2>2
  <1> QED
    BY <1>3, <1>4, <1>5, <1>6

(* The place of a member, as the layout has it and as the search finds it.  *)
PlaceFor(m) == IF m.ok THEN [ok |-> TRUE, id |-> m.type, off |-> m.off, width |-> m.width] ELSE No

LEMMA PlaceIs ==
    ASSUME Typed, NEW id \in Ids, NEW name, name # NoName
    PROVE  Place(id, name) = PlaceFor(FindMember(id, name))
  <1> DEFINE n == MaxDepth + 1
             P == Leading(id, name, n)
             m == FindMember(id, name)
  <1>1. PICK f : MemberRows(f, name)
    BY FindsBy
  <1>2. n \in 0..(MaxDepth + 1) /\ n \in Nat
    BY TypeBounds
  <1>3. FoundAt(f[n], n, name) /\ m = f[n][id]
    BY <1>1, <1>2, RowsLead DEF MemberRows
  <1>4. IF m.ok THEN \E p : Least(p, P) /\ m = MemberAt(Follow(id, p)) ELSE m = No /\ P = {}
    BY <1>3 DEF FoundAt
  <1>5. Place(id, name) = FirstOf(id, P)
    BY DEF Place, Leading, Routes, RoutesTo
  <1> HIDE DEF P, m, n
  <1>6. CASE ~m.ok
    BY <1>4, <1>5, <1>6 DEF FirstOf, PlaceFor, m
  <1>7. CASE m.ok
    <2>1. PICK p : Least(p, P) /\ m = MemberAt(Follow(id, p))
      BY <1>4, <1>7
    <2> DEFINE c == CHOOSE q \in P : Least(q, P)
    <2>2. \A q \in P : Least(q, P) => q = p
      <3> SUFFICES ASSUME NEW q \in P, Least(q, P), q # p PROVE FALSE
        OBVIOUS
      <3>1. p \in P /\ Earlier(p, q) /\ Earlier(q, p)
        BY <2>1 DEF Least
      <3>2. p \in RoutesTo(n) /\ q \in RoutesTo(n)
        BY <3>1 DEF P, Leading
      <3>3. PICK a \in Nat : p \in [1..(a + 1) -> Nat]
        BY <1>2, <3>2, RouteIs
      <3>4. PICK b \in Nat : q \in [1..(b + 1) -> Nat]
        BY <1>2, <3>2, RouteIs
      <3> QED
        BY <3>1, <3>3, <3>4, NotBothEarlier
    <2>3. p \in P /\ Least(p, P)
      BY <2>1 DEF Least
    <2>4. (CHOOSE q \in P : \A r \in P : r = q \/ Earlier(q, r)) = p
      <3>1. \A q \in P : Least(q, P) <=> \A r \in P : r = q \/ Earlier(q, r)
        BY DEF Least
      <3> QED
        BY <2>2, <2>3, <3>1
    <2> DEFINE at == Follow(id, p)
    <2>5. FirstOf(id, P) = Bitfield(at, Type(EndOf(at.id)))
      BY <2>3, <2>4 DEF FirstOf
    <2>6. at.id \in Ids
      <3>1. p \in RoutesTo(n)
        BY <2>3 DEF P, Leading
      <3> QED
        BY <1>2, <3>1, FollowIn DEF Spots
    <2>7. Place(id, name) = Bitfield(at, Type(Resolve(at.id)))
      BY <1>5, <2>5, <2>6, EndIs
    <2> HIDE DEF at
    <2>8. m.ok /\ m.type = Bitfield(at, Type(Resolve(at.id))).id
          /\ m.off = Bitfield(at, Type(Resolve(at.id))).off
          /\ m.width = Bitfield(at, Type(Resolve(at.id))).width
      BY <2>1 DEF MemberAt, at
    <2>9. PlaceFor(m) = Bitfield(at, Type(Resolve(at.id)))
      BY <2>8 DEF PlaceFor, Bitfield
    <2> QED
      BY <2>7, <2>9 DEF m
  <1> QED
    BY <1>6, <1>7

LEMMA InsideIs ==
    ASSUME Typed, NEW up \in Members, NEW name
    PROVE  Inside(PlaceFor(up), name) = PlaceFor(MemberIn(up, name))
  <1>1. ~No.ok /\ PlaceFor(No) = No
    BY DEF No, PlaceFor
  <1>2. PlaceFor(up).ok = up.ok /\ (up.ok => PlaceFor(up).id = up.type /\ PlaceFor(up).off = up.off
                                            /\ PlaceFor(up).width = up.width)
    BY DEF PlaceFor, No, Members
  <1>3. CASE name = NoName \/ ~up.ok \/ up.width # 0
    <2>1. MemberIn(up, name) = No
      BY <1>3 DEF MemberIn
    <2>2. Inside(PlaceFor(up), name) = No
      BY <1>2, <1>3 DEF Inside
    <2> QED
      BY <1>1, <2>1, <2>2
  <1>4. CASE name # NoName /\ up.ok /\ up.width = 0
    <2> DEFINE m == FindMember(up.type, name)
    <2>1. MemberIn(up, name) = Shifted(m, up.off)
      BY <1>4 DEF MemberIn
    <2>2. Inside(PlaceFor(up), name) = Shifted(Place(up.type, name), up.off)
      BY <1>2, <1>4 DEF Inside
    <2>3. up.type \in Ids /\ up.off \in Nat
      <3>1. up # No
        BY <1>1, <1>4
      <3> QED
        BY <3>1 DEF Members
    <2>4. Place(up.type, name) = PlaceFor(m) /\ m \in Members
      BY <1>4, <2>3, PlaceIs, FindMemberIs
    <2> HIDE DEF m
    <2>5. Shifted(PlaceFor(m), up.off) = PlaceFor(Shifted(m, up.off))
      <3>1. CASE m = No
        BY <1>1, <3>1 DEF Shifted
      <3>2. CASE m # No
        <4>1. m \in [ok : {TRUE}, type : Ids, off : Nat, width : Nat] /\ m.ok
          BY <2>4, <3>2 DEF Members
        <4> DEFINE o == m.off + up.off
        <4>2. PlaceFor(m) = [ok |-> TRUE, id |-> m.type, off |-> m.off, width |-> m.width]
          BY <4>1 DEF PlaceFor
        <4>3. Shifted(m, up.off) = [m EXCEPT !.off = o]
          BY <4>1 DEF Shifted
        <4>4. Shifted(PlaceFor(m), up.off) = [PlaceFor(m) EXCEPT !.off = o]
          BY <4>2 DEF Shifted
        <4> HIDE DEF o
        <4>5. /\ [m EXCEPT !.off = o].ok /\ [m EXCEPT !.off = o].type = m.type
              /\ [m EXCEPT !.off = o].off = o /\ [m EXCEPT !.off = o].width = m.width
          BY <4>1
        <4>6. PlaceFor(Shifted(m, up.off)) = [ok |-> TRUE, id |-> m.type, off |-> o, width |-> m.width]
          BY <4>3, <4>5 DEF PlaceFor
        <4> DEFINE y == TRUE
        <4>7. PlaceFor(m) = [ok |-> y, id |-> m.type, off |-> m.off, width |-> m.width]
          BY <4>2
        <4> HIDE DEF y
        <4>8. [PlaceFor(m) EXCEPT !.off = o] = [ok |-> y, id |-> m.type, off |-> o, width |-> m.width]
          BY <4>7
        <4> QED
          BY <4>4, <4>6, <4>8 DEF y
      <3> QED
        BY <3>1, <3>2
    <2> QED
      BY <2>1, <2>2, <2>4, <2>5
  <1> QED
    BY <1>3, <1>4

LEMMA PlaceOfIs ==
    ASSUME Typed, NEW id \in Ids, NEW path, Len(path) \in Nat
    PROVE  PlaceOf(id, path) = PlaceFor(Member(id, path)) /\ Member(id, path) \in Members
  <1> DEFINE n == Len(path)
             Row(f, k) == IF k = 0 THEN [ok |-> TRUE, id |-> id, off |-> 0, width |-> 0]
                          ELSE Inside(f[k - 1], path[k])
             Eq(f) == f = [k \in 0..n |-> Row(f, k)]
  <1>1. PICK f \in [0..n -> Members] :
               /\ f[0] = Outset(id)
               /\ \A k \in 1..n : f[k] = MemberIn(f[k - 1], path[k])
               /\ Member(id, path) = f[n]
    BY MemberIs
  <1> DEFINE e == [k \in 0..n |-> PlaceFor(f[k])]
  <1>2. PlaceFor(f[0]) = [ok |-> TRUE, id |-> id, off |-> 0, width |-> 0]
    BY <1>1 DEF Outset, PlaceFor
  <1>3. ASSUME NEW k \in 1..n PROVE PlaceFor(f[k]) = Inside(PlaceFor(f[k - 1]), path[k])
    <2>1. k - 1 \in 0..n
      OBVIOUS
    <2> QED
      BY <1>1, <2>1, InsideIs
  <1>4. Eq(e)
    <2>1. ASSUME NEW k \in 0..n PROVE e[k] = Row(e, k)
      <3>1. CASE k = 0
        BY <1>2, <3>1
      <3>2. CASE k # 0
        <4>1. k \in 1..n /\ k - 1 \in 0..n
          BY <3>2
        <4> QED
          BY <1>3, <3>2, <4>1
      <3> QED
        BY <3>1, <3>2
    <2>2. e = [k \in 0..n |-> e[k]]
      OBVIOUS
    <2> HIDE DEF e
    <2> QED
      BY <2>1, <2>2
  <1>5. PlaceOf(id, path) = (CHOOSE g : Eq(g))[n]
    BY DEF PlaceOf
  <1> HIDE DEF e
  <1>6. PICK g : Eq(g) /\ PlaceOf(id, path) = g[n]
    BY <1>4, <1>5
  <1>7. \A k \in 0..n : g[k] = Row(g, k)
    BY <1>6
  <1> DEFINE S == {k \in Nat : k <= n => g[k] = PlaceFor(f[k])}
  <1>8. 0 \in S
    <2>1. 0 \in 0..n
      OBVIOUS
    <2>2. g[0] = PlaceFor(f[0])
      BY <1>2, <1>7, <2>1
    <2> QED
      BY <2>2
  <1>9. ASSUME NEW k \in S PROVE k + 1 \in S
    <2> SUFFICES ASSUME k + 1 <= n PROVE g[k + 1] = PlaceFor(f[k + 1])
      OBVIOUS
    <2>1. k + 1 \in 1..n /\ (k + 1) - 1 = k /\ k + 1 # 0 /\ k + 1 \in 0..n /\ g[k] = PlaceFor(f[k])
      OBVIOUS
    <2>2. g[k + 1] = Inside(g[k], path[k + 1])
      BY <1>7, <2>1
    <2>3. PlaceFor(f[k + 1]) = Inside(PlaceFor(f[k]), path[k + 1])
      BY <1>3, <2>1
    <2> QED
      BY <2>1, <2>2, <2>3
  <1>10. S = Nat
    <2>1. S \in SUBSET Nat
      OBVIOUS
    <2> HIDE DEF S
    <2> QED
      BY <1>8, <1>9, <2>1, NatInduct
  <1>11. n \in 0..n /\ n \in S
    <2> HIDE DEF S
    <2> QED
      BY <1>10
  <1>12. g[n] = PlaceFor(f[n])
    BY <1>11
  <1>13. f[n] \in Members
    BY <1>1, <1>11
  <1> HIDE DEF Eq
  <1> QED
    BY <1>1, <1>6, <1>12, <1>13

(* Bits and bytes: how many bytes a run of bits takes.                      *)
LEMMA BitsOrder ==
    ASSUME NEW a \in Int, NEW b \in Int
    PROVE  /\ Bits(a) \in Int /\ Bits(a) = ByteBits * a
           /\ Bits(a) <= Bits(b) => a <= b
           /\ Bits(a) >= 1 => a >= 1
           /\ a >= 1 => Bits(a) >= 1
  <1>1. ByteBits \in Nat \ {0}
    BY TypeBounds
  <1>2. a * ByteBits \in Int /\ b * ByteBits \in Int /\ a * ByteBits = ByteBits * a
    BY <1>1
  <1>3. a * ByteBits <= b * ByteBits => a <= b
    BY <1>1
  <1>4. a * ByteBits >= 1 => a >= 1
    BY <1>1
  <1>5. a >= 1 => a * ByteBits >= 1
    BY <1>1
  <1> QED
    BY <1>2, <1>3, <1>4, <1>5 DEF Bits

BytesFor(bits) == (bits + ByteBits - 1) \div ByteBits

LEMMA BytesForIs ==
    ASSUME NEW bits \in Nat
    PROVE  /\ BytesFor(bits) \in Nat /\ bits <= ByteBits * BytesFor(bits)
           /\ \A most \in Nat : bits <= ByteBits * most => BytesFor(bits) <= most
  <1> DEFINE x == bits + ByteBits - 1
             s == x \div ByteBits
             v == x % ByteBits
  <1>1. ByteBits \in Nat \ {0}
    BY TypeBounds
  <1>2. x \in Nat
    BY <1>1
  <1>3. s \in Nat /\ v \in Nat /\ v < ByteBits /\ x = ByteBits * s + v
    BY <1>1, <1>2, Divides
  <1>4. ByteBits * s \in Nat
    BY <1>1, <1>3, Product
  <1> HIDE DEF s, v
  <1>5. bits <= ByteBits * s
    BY <1>1, <1>3, <1>4
  <1>6. ASSUME NEW most \in Nat, bits <= ByteBits * most, most < s PROVE FALSE
    <2>1. most * ByteBits + ByteBits <= s * ByteBits
      BY <1>1, <1>3, <1>6, Product
    <2>2. ByteBits * most \in Nat /\ most * ByteBits = ByteBits * most /\ s * ByteBits = ByteBits * s
      BY <1>1, <1>3
    <2> QED
      BY <1>1, <1>3, <1>4, <1>6, <2>1, <2>2
  <1>7. BytesFor(bits) = s
    BY DEF BytesFor, s
  <1> QED
    BY <1>3, <1>5, <1>6, <1>7

(* The bytes a field is read from are those its bits lie in.                *)
WidthOf(m) == IF m.width # 0 THEN m.width ELSE Bits(Size(m.type))

Spans(f, off, width) ==
    /\ f.offset \in Nat /\ f.size \in Nat /\ f.bitOff \in Nat /\ width \in Nat
    /\ off = ByteBits * f.offset + f.bitOff
    /\ width = IF f.bitSize # 0 THEN f.bitSize ELSE Bits(f.size)
    /\ f.bitOff + width <= ByteBits * f.size
    /\ \A n \in Nat : off + width <= Bits(n) => f.offset + f.size <= n
    /\ width <= Bits(8) => f.size <= 9

LEMMA FieldSpans ==
    ASSUME Typed, NEW m \in Members, m.ok, FieldOf(m).ok
    PROVE  Spans(FieldOf(m), m.off, WidthOf(m))
  <1> DEFINE f == FieldOf(m)
             r == m.off % ByteBits
             o == m.off \div ByteBits
             size == IF m.width = 0 THEN Size(m.type) ELSE (r + m.width + ByteBits - 1) \div ByteBits
  <1>0. ByteBits \in Nat \ {0}
    BY TypeBounds
  <1>1. m.type \in Ids /\ m.off \in Nat /\ m.width \in Nat
    <2>1. m # No
      BY DEF No
    <2> QED
      BY <2>1 DEF Members
  <1>2. o \in Nat /\ r \in Nat /\ r < ByteBits /\ m.off = ByteBits * o + r
    BY <1>0, <1>1, Divides
  <1>3. f = FieldAt(m, Resolve(m.type), Type(Resolve(m.type)), size)
    BY DEF FieldOf
  <1>4. f # No
    BY DEF No
  <1>5. /\ f.offset = o /\ f.size = size /\ f.bitOff = r /\ f.bitSize = m.width
        /\ m.width = 0 => r = 0 /\ ~(size < 0)
    BY <1>3, <1>4 DEF FieldAt
  <1>6. Size(m.type) \in Int
    BY <1>1, SizeIs
  <1> HIDE DEF f, r, o
  <1>7. CASE m.width = 0
    <2>1. size = Size(m.type) /\ size \in Nat /\ r = 0
      BY <1>5, <1>6, <1>7
    <2> HIDE DEF size
    <2>2. WidthOf(m) = Bits(size)
      BY <1>7, <2>1 DEF WidthOf
    <2>3. Bits(size) = ByteBits * size /\ Bits(size) \in Nat /\ ByteBits * o \in Nat
      BY <1>0, <1>2, <2>1, BitsOrder, Product
    <2>4. ASSUME NEW n \in Nat, m.off + Bits(size) <= Bits(n) PROVE o + size <= n
      <3>1. ByteBits * (o + size) = ByteBits * o + ByteBits * size
        BY <1>0, <1>2, <2>1
      <3>2. Bits(o + size) <= Bits(n)
        <4>1. Bits(o + size) = ByteBits * (o + size)
          BY <1>2, <2>1, BitsOrder
        <4> QED
          BY <1>2, <2>1, <2>3, <2>4, <3>1, <4>1
      <3> QED
        BY <1>2, <2>1, <3>2, BitsOrder
    <2>5. Bits(size) <= Bits(8) => size <= 9
      <3>1. Bits(size) <= Bits(8) => size <= 8
        BY <2>1, BitsOrder
      <3> QED
        BY <2>1, <3>1
    <2> QED
      BY <1>2, <1>5, <1>7, <2>1, <2>2, <2>3, <2>4, <2>5 DEF Spans, f
  <1>8. CASE m.width # 0
    <2>1. size = BytesFor(r + m.width)
      BY <1>8 DEF BytesFor
    <2>2. r + m.width \in Nat
      BY <1>1, <1>2
    <2>3. /\ size \in Nat /\ r + m.width <= ByteBits * size
          /\ \A most \in Nat : r + m.width <= ByteBits * most => size <= most
      BY <2>1, <2>2, BytesForIs
    <2> HIDE DEF size
    <2>4. WidthOf(m) = m.width
      BY <1>8 DEF WidthOf
    <2>5. ASSUME NEW n \in Nat, m.off + m.width <= Bits(n) PROVE o + size <= n
      <3>1. Bits(n) = ByteBits * n /\ ByteBits * n \in Nat /\ ByteBits * o \in Nat
        BY <1>0, <1>2, BitsOrder, Product
      <3>2. Bits(o) <= Bits(n)
        <4>1. Bits(o) = ByteBits * o
          BY <1>2, BitsOrder
        <4> QED
          BY <1>1, <1>2, <2>5, <3>1, <4>1
      <3>3. o <= n
        BY <1>2, <3>2, BitsOrder
      <3>4. n - o \in Nat /\ ByteBits * n = ByteBits * o + ByteBits * (n - o)
        BY <1>0, <1>2, <3>3
      <3>5. r + m.width <= ByteBits * (n - o)
        <4>1. ByteBits * (n - o) \in Int
          BY <1>0, <3>4
        <4> QED
          BY <1>1, <1>2, <2>5, <3>1, <3>4, <4>1
      <3>6. size <= n - o
        BY <2>3, <3>4, <3>5
      <3> QED
        BY <1>2, <2>3, <3>4, <3>6
    <2>6. m.width <= Bits(8) => size <= 9
      <3>1. ByteBits * 9 = Bits(8) + ByteBits /\ Bits(8) \in Int
        BY <1>0 DEF Bits
      <3> QED
        BY <1>0, <1>1, <1>2, <2>3, <3>1
    <2> QED
      BY <1>1, <1>2, <1>5, <1>8, <2>3, <2>4, <2>5, <2>6 DEF Spans, f
  <1> QED
    BY <1>7, <1>8

LEMMA EndsThere ==
    ASSUME Typed, NEW id \in Ids, Resolve(id) # 0
    PROVE  Resolve(id) \in Ids /\ Resolve(Resolve(id)) = Resolve(id)
  <1>1. PICK f : ResolveRows(f)
    BY ResolvesBy
  <1>2. MaxDepth \in 0..MaxDepth /\ 0 \in 0..MaxDepth
    BY TypeBounds
  <1>3. Resolve(id) \in Ids /\ Kind(Resolve(id)) \notin Modifiers
    BY ResolveIs, EndIs
  <1>4. MaxDepth # 0
    <2>1. ASSUME MaxDepth = 0 PROVE FALSE
      <3>1. f[0][id] = 0
        BY <1>1, <1>2 DEF ResolveRows, ResolveRow
      <3>2. Resolve(id) = f[0][id]
        BY <1>1, <2>1 DEF ResolveRows
      <3> QED
        BY <3>1, <3>2
    <2> QED
      BY <2>1
  <1>5. f[MaxDepth][Resolve(id)] = Resolve(id)
    BY <1>1, <1>2, <1>3, <1>4 DEF ResolveRows, ResolveRow
  <1> QED
    BY <1>1, <1>3, <1>5 DEF ResolveRows

EndType(m) == Type(Resolve(m.type))
IsScalar(m) == EndType(m).kind \in {"int", "ptr"} \cup Enums /\ WidthOf(m) \in 1..Bits(8)
ReadsSigned(t) == IF t.kind = "int" THEN t.signed ELSE t.kflag
Reading(m, u) == IF ReadsSigned(EndType(m)) \/ WidthOf(m) = Bits(8) THEN Signed(u, WidthOf(m)) ELSE u

LEMMA FieldKindIs ==
    ASSUME NEW t, NEW width
    PROVE  /\ t.kind = "int" /\ ~(width = 0 /\ t.st > 8) => FieldKind(t, width) \in {"s", "u"}
           /\ t.kind \in Enums => FieldKind(t, width) = "enum"
           /\ t.kind = "ptr" => FieldKind(t, width) = "ptr"
  <1> DEFINE k == t.kind
             x == t.st > 8
             y == t.signed
             z == IsChar(t.elem)
  <1>1. FieldKind(t, width) =
            CASE k = "int" -> IF width = 0 /\ x THEN "bytes" ELSE IF y THEN "s" ELSE "u"
              [] k \in Enums -> "enum"
              [] k = "ptr" -> "ptr"
              [] k = "array" -> IF z THEN "cstr" ELSE "bytes"
              [] OTHER -> "bytes"
    BY DEF FieldKind
  <1> HIDE DEF k, x, y, z
  <1>2. k = "int" /\ ~(width = 0 /\ x) => FieldKind(t, width) \in {"s", "u"}
    BY <1>1 DEF Enums
  <1>3. k \in Enums => FieldKind(t, width) = "enum"
    BY <1>1 DEF Enums
  <1>4. k = "ptr" => FieldKind(t, width) = "ptr"
    BY <1>1 DEF Enums
  <1> QED
    BY <1>2, <1>3, <1>4 DEF k, x

LEMMA MembersAre ==
    ASSUME NEW m \in Members, m.ok
    PROVE  m.type \in Ids /\ m.off \in Nat /\ m.width \in Nat
  <1>1. m # No
    BY DEF No
  <1> QED
    BY <1>1 DEF Members

(* A member that is a number is decoded as one.                             *)
LEMMA ScalarField ==
    ASSUME Typed, NEW m \in Members, m.ok, IsScalar(m)
    PROVE  LET f == FieldOf(m)
               t == EndType(m)
           IN  /\ Resolve(m.type) # 0
               /\ (m.width # 0 => t.kind # "ptr") /\ (m.width = 0 => m.off % ByteBits = 0) => f.ok
               /\ f.ok => /\ f.kind \notin {"bytes", "cstr"}
                          /\ f.kind = "enum" <=> t.kind \in Enums
                          /\ t.kind \in Enums => f.ref = Resolve(m.type)
                          /\ t.kind # "ptr" => (f.signed <=> ReadsSigned(t))
                          /\ t.kind = "ptr" => WidthOf(m) = Bits(8)
  <1> DEFINE f == FieldOf(m)
             e == Resolve(m.type)
             t == Type(e)
             size == IF m.width = 0 THEN Size(m.type)
                     ELSE ((m.off % ByteBits) + m.width + ByteBits - 1) \div ByteBits
  <1>1. m.type \in Ids /\ m.off \in Nat /\ m.width \in Nat
    BY MembersAre
  <1>2. t.kind \in {"int", "ptr"} \cup Enums /\ WidthOf(m) \in 1..Bits(8)
    BY DEF IsScalar, EndType
  <1>3. e # 0 /\ e \in Ids
    <2>1. Type(0).kind \notin {"int", "ptr"} \cup Enums
      BY DEF Type, Void, Enums
    <2> QED
      BY <1>1, <1>2, <2>1, ResolveIs
  <1>4. Size(m.type) \in Int /\ (t.kind \in Sized => Size(m.type) = t.st) /\ (t.kind = "ptr" => Size(m.type) = 8)
    BY <1>1, <1>3, SizeIs DEF Kind
  <1>5. t.kind \in Enums \cup {"int"} => t.kind # "ptr" /\ t.kind \in Sized
    BY DEF Enums, Sized
  <1>6. f = FieldAt(m, e, t, size)
    BY DEF FieldOf
  <1>7. m.width = 0 => size = Size(m.type) /\ size >= 1 /\ size <= 8
    <2> SUFFICES ASSUME m.width = 0 PROVE Size(m.type) >= 1 /\ Size(m.type) <= 8
      OBVIOUS
    <2>1. WidthOf(m) = Bits(Size(m.type))
      BY DEF WidthOf
    <2>2. Bits(8) \in Int /\ Bits(Size(m.type)) \in Int
      BY <1>4, BitsOrder
    <2>3. Bits(Size(m.type)) >= 1 /\ Bits(Size(m.type)) <= Bits(8)
      BY <1>2, <2>1, <2>2
    <2> QED
      BY <1>4, <2>3, BitsOrder
  <1>8. m.width # 0 => WidthOf(m) = m.width /\ m.width <= Bits(8)
    <2>1. Bits(8) \in Int
      BY BitsOrder
    <2> QED
      BY <1>1, <1>2, <2>1 DEF WidthOf
  <1>9. /\ t.kind = "int" => FieldKind(t, m.width) \in {"s", "u"}
        /\ t.kind \in Enums => FieldKind(t, m.width) = "enum"
        /\ t.kind = "ptr" => FieldKind(t, m.width) = "ptr"
    <2>1. t.kind = "int" => ~(m.width = 0 /\ t.st > 8)
      BY <1>4, <1>5, <1>7
    <2> HIDE DEF t, size
    <2> QED
      BY <2>1, FieldKindIs
  <1>10. MaxField \in Nat /\ MaxField >= 8
    BY TypeBounds
  <1>11. ASSUME m.width # 0 => t.kind # "ptr", m.width = 0 => m.off % ByteBits = 0
         PROVE  f.ok
    <2>1. ~(m.width # 0 /\ (t.kind \notin {"int"} \cup Enums \/ m.width > Bits(8)))
      <3>1. Bits(8) \in Int
        BY BitsOrder
      <3> QED
        BY <1>1, <1>2, <1>8, <1>11, <3>1
    <2>2. ~(m.width = 0 /\ (m.off % ByteBits # 0 \/ size < 0 \/ size > MaxField))
      <3>1. m.width = 0 => size \in Int
        BY <1>4
      <3> HIDE DEF size
      <3> QED
        BY <1>7, <1>10, <1>11, <3>1
    <2> HIDE DEF size, e, t
    <2> QED
      BY <1>3, <1>6, <2>1, <2>2 DEF FieldAt
  <1>12. ASSUME f.ok
         PROVE  /\ f.kind = FieldKind(t, m.width)
                /\ f.signed = (\/ t.kind = "int" /\ FieldKind(t, m.width) # "bytes" /\ t.signed
                               \/ t.kind \in Enums /\ t.kflag)
                /\ t.kind \in Enums => f.ref = e
                /\ m.width # 0 => t.kind # "ptr"
    <2>1. f # No
      BY <1>12 DEF No
    <2> DEFINE kind == FieldKind(t, m.width)
               signed == \/ t.kind = "int" /\ kind # "bytes" /\ t.signed
                         \/ t.kind \in Enums /\ t.kflag
               enum == t.kind \in Enums
               ref == IF enum THEN e ELSE Pointee(e)
               found == [ok |-> TRUE, type |-> m.type, offset |-> m.off \div ByteBits, size |-> size,
                         bitOff |-> m.off % ByteBits, bitSize |-> m.width, kind |-> kind,
                         signed |-> signed, ref |-> ref]
    <2>2. f = found /\ (m.width # 0 => t.kind # "ptr")
      <3>1. m.width # 0 => t.kind \in {"int"} \cup Enums
        BY <1>6, <2>1 DEF FieldAt
      <3>2. f = found
        BY <1>6, <2>1 DEF FieldAt
      <3> QED
        BY <1>5, <3>1, <3>2
    <2> DEFINE off == m.off \div ByteBits
               bit == m.off % ByteBits
    <2>3. f = [ok |-> TRUE, type |-> m.type, offset |-> off, size |-> size,
               bitOff |-> bit, bitSize |-> m.width, kind |-> kind, signed |-> signed, ref |-> ref]
      BY <2>2
    <2> HIDE DEF size, e, t, kind, signed, ref, f, off, bit
    <2>4. f.kind = kind /\ f.ref = ref
      BY <2>3
    <2>5. f.signed = signed
      BY <2>3, Zenon
    <2>6. enum => ref = e
      BY DEF ref
    <2> QED
      BY <2>2, <2>4, <2>5, <2>6 DEF kind, signed
  <1> HIDE DEF f, size
  <1>13. ASSUME f.ok, t.kind # "ptr" PROVE f.signed <=> ReadsSigned(t)
    BY <1>2, <1>9, <1>12, <1>13 DEF ReadsSigned, Enums
  <1>14. ASSUME f.ok, t.kind = "ptr" PROVE WidthOf(m) = Bits(8)
    BY <1>4, <1>12, <1>14 DEF WidthOf
  <1>15. ASSUME f.ok PROVE f.kind \notin {"bytes", "cstr"} /\ (f.kind = "enum" <=> t.kind \in Enums)
    BY <1>2, <1>9, <1>12, <1>15 DEF Enums
  <1> QED
    BY <1>3, <1>11, <1>12, <1>13, <1>14, <1>15 DEF EndType, f

LEMMA ScalarRead ==
    ASSUME Typed, NEW m \in Members, m.ok, IsScalar(m), NEW object \in Seq(Bytes)
    PROVE  LET f == FieldOf(m)
               a == FieldRead(f, object)
               u == BitsAt(object, m.off, WidthOf(m))
           IN  /\ a.ok <=> f.ok /\ f.size <= MaxStruct /\ f.offset + f.size <= Len(object)
               /\ a.ok => a.u = u /\ a.s = Reading(m, u) /\ u \in Nat
                          /\ a.name = IF f.kind = "enum" THEN EnumName(f.ref, IF f.signed THEN a.s ELSE a.u)
                                      ELSE NoName
  <1> DEFINE f == FieldOf(m)
             a == FieldRead(f, object)
             u == BitsAt(object, m.off, WidthOf(m))
             p == SubSeq(object, f.offset + 1, f.offset + f.size)
             w == WidthOf(m)
  <1>0. ~No.ok
    BY DEF No
  <1>1. CASE ~f.ok
    BY <1>0, <1>1 DEF FieldRead
  <1>2. CASE f.ok
    <2>1. Spans(f, m.off, w)
      BY <1>2, FieldSpans
    <2>2. MaxStruct \in Nat /\ Len(object) \in Nat
      BY TypeBounds
    <2>3. CASE f.size > MaxStruct \/ f.offset + f.size > Len(object)
      <3>1. a = No
        BY <1>2, <2>3 DEF FieldRead
      <3>2. ~(f.size <= MaxStruct /\ f.offset + f.size <= Len(object))
        BY <2>1, <2>2, <2>3 DEF Spans
      <3> QED
        BY <1>0, <3>1, <3>2
    <2>4. CASE ~(f.size > MaxStruct \/ f.offset + f.size > Len(object))
      <3> DEFINE v == (Little(p) \div Pow2[f.bitOff]) % Pow2[w]
      <3>1. a = Decode(f, p) /\ f.size <= MaxStruct /\ f.offset + f.size <= Len(object)
        BY <1>2, <2>1, <2>2, <2>4 DEF FieldRead, Spans
      <3>2. f.kind \notin {"bytes", "cstr"}
        BY <1>2, ScalarField
      <3>3. w \in 1..Bits(8) /\ w = IF f.bitSize # 0 THEN f.bitSize ELSE Bits(f.size)
        BY <2>1 DEF IsScalar, Spans
      <3>4. w # 0 /\ ~(w > Bits(8))
        <4>1. Bits(8) \in Int
          BY BitsOrder
        <4> HIDE DEF w
        <4> QED
          BY <3>3, <4>1
      <3>5. a = Value(f, v, IF f.signed \/ w = Bits(8) THEN Signed(v, w) ELSE v)
        <4> HIDE DEF f, p, w
        <4> QED
          BY <3>1, <3>2, <3>3, <3>4 DEF Decode
      <3>6. v = u /\ Little(p) \in Nat
        <4>1. /\ f.offset \in Nat /\ f.size \in Nat /\ f.bitOff \in Nat /\ w \in Nat
              /\ m.off = ByteBits * f.offset + f.bitOff /\ f.bitOff + w <= ByteBits * f.size
          BY <2>1 DEF Spans
        <4>2. u = BitsAt(object, m.off, w) /\ p = SubSeq(object, f.offset + 1, f.offset + f.size)
          OBVIOUS
        <4> HIDE DEF f, w, u, p
        <4>3. u = BitsAt(object, ByteBits * f.offset + f.bitOff, w)
          BY <4>1, <4>2
        <4> DEFINE o == f.offset
                   n == f.size
                   r == f.bitOff
        <4>4. /\ o \in Nat /\ n \in Nat /\ r \in Nat /\ w \in Nat /\ o + n <= Len(object)
              /\ r + w <= ByteBits * n
              /\ u = BitsAt(object, ByteBits * o + r, w) /\ p = SubSeq(object, o + 1, o + n)
          BY <3>1, <4>1, <4>2, <4>3
        <4> HIDE DEF o, n, r
        <4>5. LET q == SubSeq(object, o + 1, o + n)
              IN  /\ (Little(q) \div Pow2[r]) % Pow2[w] = BitsAt(object, ByteBits * o + r, w)
                  /\ Little(q) \in Nat
          BY <4>4, FieldBits
        <4> QED
          BY <4>4, <4>5 DEF r
      <3>7. v \in Nat
        <4>1. Pow2[f.bitOff] \in Nat \ {0} /\ Pow2[w] \in Nat \ {0}
          BY <2>1, PowerIs DEF Spans
        <4>2. Little(p) \div Pow2[f.bitOff] \in Nat
          BY <3>6, <4>1, Divides
        <4> QED
          BY <4>1, <4>2, Divides
      <3>8. (f.signed \/ w = Bits(8)) <=> (ReadsSigned(EndType(m)) \/ w = Bits(8))
        BY <1>2, ScalarField
      <3> HIDE DEF f, u, w, v
      <3>9. /\ a.ok /\ a.u = v /\ a.s = IF f.signed \/ w = Bits(8) THEN Signed(v, w) ELSE v
            /\ a.name = IF f.kind = "enum" THEN EnumName(f.ref, IF f.signed THEN a.s ELSE a.u) ELSE NoName
        BY <3>5 DEF Value
      <3>10. a.s = Reading(m, v)
        BY <3>8, <3>9 DEF Reading, w
      <3> QED
        BY <1>2, <3>1, <3>6, <3>7, <3>9, <3>10 DEF f, u, w
    <2> QED
      BY <2>3, <2>4
  <1> QED
    BY <1>1, <1>2

-----------------------------------------------------------------------------
(* The bits a whole number has, of a word of P.                             *)
LEMMA WholeRest ==
    ASSUME NEW v \in Int, NEW P \in Nat \ {0}
    PROVE  v % P \in 0..(P - 1) /\ \E q \in Int : v = P * q + (v % P)
  <1>1. v % P \in 0..(P - 1) /\ v \div P \in Int /\ v = P * (v \div P) + (v % P)
    OBVIOUS
  <1> QED
    BY <1>1

LEMMA RestOnce ==
    ASSUME NEW q \in Int, NEW P \in Nat \ {0}, NEW r \in 0..(P - 1)
    PROVE  (P * q + r) % P = r
  <1> DEFINE v == P * q + r
             u == v % P
  <1>1. v \in Int
    OBVIOUS
  <1>2. PICK k \in Int : v = P * k + u
    BY <1>1, WholeRest
  <1>3. u \in 0..(P - 1)
    BY <1>1, WholeRest
  <1> HIDE DEF u
  <1>4. u - r = P * (q - k)
    <2>1. P * (q - k) = P * q - P * k
      BY <1>2
    <2>2. P * q \in Int /\ P * k \in Int
      BY <1>2
    <2> QED
      BY <1>2, <1>3, <2>1, <2>2
  <1> DEFINE d == q - k
  <1>5. d \in Int
    BY <1>2
  <1>6. ASSUME d >= 1 PROVE FALSE
    <2>1. d * P >= 1 * P
      BY <1>5, <1>6, Product
    <2> QED
      BY <1>3, <1>4, <1>5, <2>1
  <1>7. ASSUME d <= -1 PROVE FALSE
    <2>1. (-d) \in Nat /\ (-d) * P >= 1 * P
      BY <1>5, <1>7, Product
    <2>2. (-d) * P = -(P * d) /\ P * d \in Int
      BY <1>5
    <2> QED
      BY <1>3, <1>4, <2>1, <2>2
  <1>8. d = 0
    BY <1>5, <1>6, <1>7
  <1> QED
    BY <1>3, <1>4, <1>8 DEF u

(* A word read as a signed number has the same bits.                        *)
LEMMA SignedRest ==
    ASSUME NEW v \in Int, NEW bits \in Nat \ {0}, NEW raw, raw = v % Pow2[bits]
    PROVE  /\ raw \in Int /\ Signed(raw, bits) \in Int
           /\ (raw - v) % Pow2[bits] = 0 /\ (Signed(raw, bits) - v) % Pow2[bits] = 0
  <1> DEFINE P == Pow2[bits]
  <1>1. P \in Nat \ {0}
    BY PowerIs
  <1>2. raw \in 0..(P - 1) /\ Signed(raw, bits) \in {raw, raw - P}
    BY <1>1, WholeRest DEF Signed
  <1> HIDE DEF P
  <1>3. PICK q \in Int : v = P * q + raw
    BY <1>1, WholeRest DEF P
  <1>4. raw - v = P * (-q) + 0 /\ raw - P - v = P * (-q - 1) + 0
    <2>1. P * (-q) = -(P * q) /\ P * (-q - 1) = -(P * q) - P /\ P * q \in Int
      BY <1>1, <1>3
    <2> QED
      BY <1>1, <1>2, <1>3, <2>1
  <1>5. \A k \in Int : (P * k + 0) % P = 0
    <2>1. 0 \in 0..(P - 1)
      BY <1>1
    <2> QED
      BY <1>1, <2>1, RestOnce
  <1>6. -q \in Int /\ -q - 1 \in Int
    BY <1>3
  <1>7. (raw - v) % P = 0 /\ (raw - P - v) % P = 0
    BY <1>4, <1>5, <1>6
  <1>8. raw \in Int /\ raw - P \in Int
    BY <1>1, <1>2
  <1> QED
    BY <1>2, <1>7, <1>8 DEF P

LEMMA SignedWord ==
    ASSUME NEW bits \in Nat \ {0}, NEW raw \in 0..(Pow2[bits] - 1)
    PROVE  /\ raw % Pow2[bits] = raw /\ Signed(raw, bits) % Pow2[bits] = raw
           /\ raw \in Int /\ Signed(raw, bits) \in Int
  <1> DEFINE P == Pow2[bits]
  <1>1. P \in Nat \ {0}
    BY PowerIs
  <1>2. raw \in 0..(P - 1) /\ Signed(raw, bits) \in {raw, raw - P}
    BY DEF Signed
  <1> HIDE DEF P
  <1>3. raw = P * 0 + raw /\ raw - P = P * (-1) + raw
    BY <1>1, <1>2
  <1>4. (P * 0 + raw) % P = raw /\ (P * (-1) + raw) % P = raw
    BY <1>1, <1>2, RestOnce
  <1> QED
    BY <1>1, <1>2, <1>3, <1>4 DEF P

(* An enum whose enumerators have names of their own: the name of a value   *)
(* has that value, in the bits of an enumerator.                            *)
LEMMA EnumBitsAre == \A kind : EnumBits(kind) \in Nat \ {0}
  BY TypeBounds DEF EnumBits, Bits

LEMMA EnumItemsAre ==
    ASSUME Typed, NEW id \in Ids
    PROVE  LET t == Type(Resolve(id))
           IN  /\ DOMAIN t.items \in SUBSET Nat
               /\ t.kind \in Enums =>
                     \A i \in DOMAIN t.items : t.items[i].val \in 0..(Pow2[EnumBits(t.kind)] - 1)
  <1>1. TypeIn(Type(Resolve(id)), btf.n)
    BY ResolveIs, TypeIs
  <1> QED
    BY <1>1 DEF TypeIn, ItemIn

Worth(t, raw) == IF t.kind = "enum64" \/ t.kflag THEN Signed(raw, EnumBits(t.kind)) ELSE raw

(* The one enumerator of a name.                                            *)
LEMMA NamedOnce ==
    ASSUME Typed, NEW id \in Ids, Type(Resolve(id)).kind \in Enums, OwnNames(Type(Resolve(id))),
           NEW i \in DOMAIN Type(Resolve(id)).items
    PROVE  LET t == Type(Resolve(id))
           IN  EnumValue(id, NameOf(t.items[i])).val = Worth(t, t.items[i].val)
  <1> DEFINE t == Type(Resolve(id))
             name == NameOf(t.items[i])
             Hits == {j \in DOMAIN t.items : NameOf(t.items[j]) = name}
  <1>1. Hits = {i}
    BY DEF OwnNames
  <1>2. Min({i}) = i
    <2>1. i \in Nat
      BY EnumItemsAre
    <2> QED
      BY <2>1, MinIs
  <1> DEFINE raw == t.items[Min(Hits)].val
             k == t.kind
             given == Worth(t, raw)
  <1>3. EnumValue(id, name) = IF k \notin Enums \/ Hits = {} THEN No ELSE [ok |-> TRUE, val |-> given]
    BY DEF EnumValue, Worth
  <1>4. raw = t.items[i].val
    BY <1>1, <1>2
  <1>5. k \in Enums /\ Hits # {}
    BY <1>1
  <1> HIDE DEF given, Hits, k
  <1>6. EnumValue(id, name).val = given
    BY <1>3, <1>5
  <1> QED
    BY <1>4, <1>6 DEF given

(* The name of a value stands for that value, in the bits of an enumerator. *)
LEMMA NameHasValue ==
    ASSUME Typed, NEW id \in Ids, Type(Resolve(id)).kind \in Enums, OwnNames(Type(Resolve(id))),
           NEW v \in Int, EnumName(id, v) # NoName
    PROVE  (EnumValue(id, EnumName(id, v)).val - v) % Pow2[EnumBits(Type(Resolve(id)).kind)] = 0
  <1> DEFINE t == Type(Resolve(id))
             b == EnumBits(t.kind)
             Hits == {j \in DOMAIN t.items : t.items[j].val = v % Pow2[b]}
             i == Min(Hits)
  <1>1. Hits # {} /\ EnumName(id, v) = NameOf(t.items[i])
    BY DEF EnumName
  <1>2. i \in Hits
    <2>1. Hits \in SUBSET Nat
      BY EnumItemsAre
    <2> HIDE DEF Hits
    <2> QED
      BY <1>1, <2>1, MinIs
  <1> HIDE DEF i
  <1>3. i \in DOMAIN t.items /\ t.items[i].val = v % Pow2[b]
    BY <1>2
  <1> DEFINE raw == t.items[i].val
  <1>4. EnumValue(id, EnumName(id, v)).val \in {raw, Signed(raw, b)}
    BY <1>1, <1>3, NamedOnce DEF Worth
  <1>5. b \in Nat \ {0}
    BY EnumBitsAre
  <1>6. raw = v % Pow2[b]
    BY <1>3
  <1> HIDE DEF raw, b
  <1>7. (raw - v) % Pow2[b] = 0 /\ (Signed(raw, b) - v) % Pow2[b] = 0
    BY <1>5, <1>6, SignedRest
  <1> QED
    BY <1>4, <1>7 DEF b

(* The value of an enumerator has a name, and the name that value.          *)
LEMMA ValueHasName ==
    ASSUME Typed, NEW id \in Ids, OwnNames(Type(Resolve(id))), NEW name, EnumValue(id, name).ok
    PROVE  LET v == EnumValue(id, name).val
           IN  EnumName(id, v) # NoName /\ EnumValue(id, EnumName(id, v)).val = v
  <1> DEFINE t == Type(Resolve(id))
             b == EnumBits(t.kind)
             Named == {j \in DOMAIN t.items : NameOf(t.items[j]) = name}
             i == Min(Named)
             v == EnumValue(id, name).val
             Hits == {j \in DOMAIN t.items : t.items[j].val = v % Pow2[b]}
             h == Min(Hits)
  <1>1. t.kind \in Enums /\ Named # {}
    BY DEF EnumValue, No
  <1>2. i \in Named
    <2>1. Named \in SUBSET Nat
      BY EnumItemsAre
    <2> HIDE DEF Named
    <2> QED
      BY <1>1, <2>1, MinIs
  <1> HIDE DEF i
  <1>3. i \in DOMAIN t.items /\ NameOf(t.items[i]) = name
    BY <1>2
  <1> DEFINE raw == t.items[i].val
  <1>4. \A j \in DOMAIN t.items : EnumValue(id, NameOf(t.items[j])).val = Worth(t, t.items[j].val)
    BY <1>1, NamedOnce
  <1>5. v = Worth(t, raw)
    BY <1>3, <1>4
  <1>6. b \in Nat \ {0} /\ raw \in 0..(Pow2[b] - 1)
    BY <1>1, <1>3, EnumBitsAre, EnumItemsAre
  <1>7. v % Pow2[b] = raw
    <2>1. v \in {raw, Signed(raw, b)}
      BY <1>5 DEF Worth
    <2> HIDE DEF raw, b, v
    <2> QED
      BY <1>6, <2>1, SignedWord
  <1>8. i \in Hits
    BY <1>3, <1>7
  <1>9. h \in Hits
    <2>1. Hits \in SUBSET Nat
      BY EnumItemsAre
    <2> HIDE DEF Hits
    <2> QED
      BY <1>8, <2>1, MinIs
  <1> HIDE DEF h
  <1>10. h \in DOMAIN t.items /\ t.items[h].val = raw
    BY <1>7, <1>9
  <1>11. EnumName(id, v) = NameOf(t.items[h])
    <2>1. Hits # {}
      BY <1>8
    <2> QED
      BY <1>1, <2>1 DEF EnumName, h
  <1>12. NameOf(t.items[h]) # NoName
    BY <1>10 DEF OwnNames
  <1>13. EnumValue(id, NameOf(t.items[h])).val = v
    BY <1>4, <1>5, <1>10
  <1> QED
    BY <1>11, <1>12, <1>13

(* What is read of a member is what its place says.                         *)
LEMMA ReadingIsTrue ==
    ASSUME Typed, NEW m \in Members, NEW q, q.object \in Seq(Bytes)
    PROVE  FieldTrue(q, FieldRead(FieldOf(m), q.object), PlaceFor(m))
  <1> DEFINE f == FieldOf(m)
             a == FieldRead(f, q.object)
             p == PlaceFor(m)
             e == Resolve(m.type)
             t == EndType(m)
             w == WidthOf(m)
             u == BitsAt(q.object, m.off, w)
             v == IF ReadsSigned(t) THEN a.s ELSE a.u
  <1> SUFFICES FieldTrue(q, a, p)
    OBVIOUS
  <1>1. CASE ~m.ok
    <2>1. ~No.ok
      BY DEF No
    <2>2. f = No
      BY <1>1 DEF FieldOf
    <2>3. a = No
      BY <2>1, <2>2 DEF FieldRead
    <2>4. p = No
      BY <1>1 DEF PlaceFor
    <2> HIDE DEF a, p
    <2> QED
      BY <2>1, <2>3, <2>4 DEF FieldTrue
  <1>2. CASE m.ok
    <2>1. p.ok /\ p.id = m.type /\ p.off = m.off /\ p.width = m.width
      BY <1>2 DEF PlaceFor
    <2>2. m.type \in Ids /\ m.off \in Nat /\ m.width \in Nat
      BY <1>2, MembersAre
    <2>3. EndOf(p.id) = e /\ t = Type(e)
      BY <2>1, <2>2, EndIs DEF EndType
    <2>4. (IF p.width # 0 THEN p.width ELSE Bits(Size(p.id))) = w
      BY <2>1 DEF WidthOf
    <2>5. Len(q.object) \in Nat
      OBVIOUS
    <2>6. ASSUME IsScalar(m), m.off + w <= Bits(Len(q.object)), m.width # 0 => t.kind # "ptr",
                 m.width = 0 => m.off % ByteBits = 0
          PROVE  a.ok
      <3>1. f.ok
        BY <1>2, <2>6, ScalarField
      <3>2. Spans(f, m.off, w)
        BY <1>2, <3>1, FieldSpans
      <3>3. f.offset + f.size <= Len(q.object)
        BY <2>5, <2>6, <3>2 DEF Spans
      <3>4. f.size <= MaxStruct
        <4>1. w <= Bits(8)
          <5>1. Bits(8) \in Int
            BY BitsOrder
          <5> HIDE DEF w
          <5> QED
            BY <2>6, <5>1 DEF IsScalar, w
        <4>2. f.size <= 9 /\ f.size \in Nat
          BY <3>2, <4>1 DEF Spans
        <4> QED
          BY <4>2, TypeBounds
      <3> QED
        BY <1>2, <2>6, <3>1, <3>3, <3>4, ScalarRead
    <2>7. ASSUME IsScalar(m), a.ok
          PROVE  a.u = u /\ a.s = Reading(m, u) /\ u \in Nat
      BY <1>2, <2>7, ScalarRead
    <2>8. ASSUME IsScalar(m), a.ok, a.name # NoName, OwnNames(t)
          PROVE  (EnumValue(e, a.name).val - v) % Pow2[EnumBits(t.kind)] = 0
      <3>1. f.ok
        BY <1>2, <2>8, ScalarRead
      <3>2. a.name = IF f.kind = "enum" THEN EnumName(f.ref, IF f.signed THEN a.s ELSE a.u) ELSE NoName
        BY <1>2, <2>8, ScalarRead
      <3>3. f.kind = "enum" /\ a.name = EnumName(f.ref, IF f.signed THEN a.s ELSE a.u)
        BY <2>8, <3>2
      <3>4. t.kind \in Enums
        BY <1>2, <2>8, <3>1, <3>3, ScalarField
      <3>5. f.ref = e /\ e # 0
        BY <1>2, <2>8, <3>1, <3>4, ScalarField
      <3>6. f.signed <=> ReadsSigned(t)
        <4>1. t.kind # "ptr"
          BY <3>4 DEF Enums
        <4> QED
          BY <1>2, <2>8, <3>1, <4>1, ScalarField
      <3>7. a.name = EnumName(e, v)
        BY <3>3, <3>5, <3>6
      <3>8. e \in Ids /\ Resolve(e) = e
        BY <2>2, <3>5, EndsThere
      <3>9. v \in Int
        <4>1. w \in Nat
          BY <1>2, <3>1, FieldSpans DEF Spans
        <4>2. Pow2[w] \in Nat
          BY <4>1, PowerIs
        <4>3. Signed(u, w) \in Int
          BY <2>7, <2>8, <4>2 DEF Signed
        <4>4. Reading(m, u) \in Int
          BY <2>7, <2>8, <4>3 DEF Reading
        <4> QED
          BY <2>7, <2>8, <4>4
      <3> HIDE DEF v, a, e, f
      <3>10. Type(Resolve(e)) = t
        BY <2>3, <3>8
      <3> QED
        BY <2>8, <3>4, <3>7, <3>8, <3>9, <3>10, NameHasValue
    <2> DEFINE below == IF t.kind = "int" THEN t.signed ELSE t.kflag
    <2>9. below = ReadsSigned(t)
      BY DEF ReadsSigned
    <2>10. IsAt(q, a, p, t, w)
      <3>1. IsScalar(m) <=> t.kind \in {"int", "ptr"} \cup Enums /\ w \in 1..Bits(8)
        BY DEF IsScalar
      <3>2. ASSUME IsScalar(m), a.ok
            PROVE  a.s = IF below \/ w = Bits(8) THEN Signed(a.u, w) ELSE a.u
        BY <2>7, <2>9, <3>2 DEF Reading
      <3> HIDE DEF a, p, t, w, u, e
      <3>3. ASSUME t.kind \in {"int", "ptr"} \cup Enums, w \in 1..Bits(8),
                   p.off + w <= Bits(Len(q.object)), p.width # 0 => t.kind # "ptr",
                   p.width = 0 => p.off % ByteBits = 0
            PROVE  a.ok
        BY <2>1, <2>6, <3>1, <3>3
      <3>4. ASSUME a.ok, t.kind \in {"int", "ptr"} \cup Enums, w \in 1..Bits(8)
            PROVE  /\ a.u = BitsAt(q.object, p.off, w)
                   /\ a.s = IF below \/ w = Bits(8) THEN Signed(a.u, w) ELSE a.u
                   /\ a.name # NoName /\ OwnNames(t) =>
                         (EnumValue(EndOf(p.id), a.name).val - (IF below THEN a.s ELSE a.u))
                             % Pow2[EnumBits(t.kind)] = 0
        <4>1. a.u = BitsAt(q.object, p.off, w)
          BY <2>1, <2>7, <3>1, <3>4 DEF u
        <4>2. ASSUME a.name # NoName, OwnNames(t)
              PROVE  (EnumValue(EndOf(p.id), a.name).val - (IF below THEN a.s ELSE a.u))
                         % Pow2[EnumBits(t.kind)] = 0
          <5>1. v = IF below THEN a.s ELSE a.u
            BY <2>9
          <5> HIDE DEF v, below
          <5> QED
            BY <2>3, <2>8, <3>1, <3>4, <4>2, <5>1
        <4> HIDE DEF below
        <4> QED
          BY <3>1, <3>2, <3>4, <4>1, <4>2
      <3> QED
        BY <3>3, <3>4 DEF IsAt
    <2> HIDE DEF a, p, t, w, e
    <2> QED
      BY <2>1, <2>3, <2>4, <2>10 DEF FieldTrue
  <1> QED
    BY <1>1, <1>2

(* What a question of a field is answered is what the layout has there.     *)
LEMMA FieldIsTrue ==
    ASSUME Typed, NEW q, Len(q.path) \in Nat, q.object \in Seq(Bytes)
    PROVE  LET id == FieldType(q.tag, q.name)
           IN  FieldTrue(q, FieldRead(Field(id, q.path), q.object),
                         IF id = 0 THEN No ELSE PlaceOf(id, q.path))
  <1> DEFINE id == FieldType(q.tag, q.name)
             m == IF id = 0 THEN No ELSE Member(id, q.path)
  <1>1. id \in Ids
    BY FieldTypeIs
  <1> HIDE DEF id
  <1>2. PlaceFor(No) = No /\ No \in Members
    BY DEF PlaceFor, Members, No
  <1>3. m \in Members /\ PlaceFor(m) = IF id = 0 THEN No ELSE PlaceOf(id, q.path)
    BY <1>1, <1>2, PlaceOfIs
  <1>4. FieldRead(Field(id, q.path), q.object) = FieldRead(FieldOf(m), q.object)
    BY DEF Field
  <1> HIDE DEF m
  <1>5. FieldTrue(q, FieldRead(FieldOf(m), q.object), PlaceFor(m))
    BY <1>3, ReadingIsTrue
  <1> QED
    BY <1>3, <1>4, <1>5 DEF id

-----------------------------------------------------------------------------
(* An answer about types depends on them alone.                             *)
LEMMA SameKinds ==
    ASSUME btf' = btf
    PROVE  /\ Ids' = Ids
           /\ \A id : Type(id)' = Type(id)
           /\ \A id : Kind(id)' = Kind(id)
           /\ \A t : NameOf(t)' = NameOf(t)
  BY DEF Ids, Type, Kind, NameOf

LEMMA SameResolve == ASSUME btf' = btf PROVE \A id : Resolve(id)' = Resolve(id)
  BY DEF Resolve, Ids, Type, Kind

LEMMA SameSize == ASSUME btf' = btf PROVE \A id : Size(id)' = Size(id)
  BY DEF Size, SizeFrom, Ids, Type, Kind

LEMMA SameFind == ASSUME btf' = btf PROVE \A name, kind : Find(name, kind)' = Find(name, kind)
  BY SameKinds DEF Find

LEMMA SameEnums ==
    ASSUME btf' = btf
    PROVE  /\ \A id, v : EnumName(id, v)' = EnumName(id, v)
           /\ \A id, name : EnumValue(id, name)' = EnumValue(id, name)
  BY SameKinds, SameResolve DEF EnumName, EnumValue

LEMMA SameMembers ==
    ASSUME btf' = btf, NEW id, NEW name
    PROVE  FindMember(id, name)' = FindMember(id, name)
  <1> DEFINE n == MaxDepth + 1
             Eq(f) == f = [left \in 0..n |-> MemberRow(f, left, name)]
  <1>1. ASSUME NEW p, NEW t, NEW m PROVE HitIn(p, t, m, name)' = HitIn(p, t, m, name)
    <2>1. NameOf(m)' = NameOf(m) /\ Type(Resolve(m.type))' = Type(Resolve(m.type))
      BY SameKinds, SameResolve DEF Type
    <2> QED
      BY <2>1 DEF HitIn
  <1>2. ASSUME NEW p, NEW t PROVE AmongIn(p, t, name)' = AmongIn(p, t, name)
    BY <1>1 DEF AmongIn
  <1>3. ASSUME NEW f, NEW left PROVE MemberRow(f, left, name)' = MemberRow(f, left, name)
    <2>1. \A s : Type(Resolve(s))' = Type(Resolve(s))
      BY SameKinds, SameResolve DEF Type
    <2>2. \A s : AmongIn(f[left - 1], Type(Resolve(s)), name)' = AmongIn(f[left - 1], Type(Resolve(s)), name)
      BY <1>2, <2>1
    <2> QED
      BY <2>2, SameKinds DEF MemberRow
  <1>4. \A f : Eq(f)' <=> Eq(f)
    BY <1>3
  <1>5. FindMember(id, name) = (CHOOSE f : Eq(f))[n][id]
    BY DEF FindMember, MemberRow, AmongIn, HitIn
  <1>6. FindMember(id, name)' = (CHOOSE f : Eq(f))'[n][id]
    BY DEF FindMember, MemberRow, AmongIn, HitIn
  <1>7. (CHOOSE f : Eq(f))' = CHOOSE f : Eq(f)
    BY <1>4
  <1> QED
    BY <1>5, <1>6, <1>7

LEMMA SamePaths ==
    ASSUME btf' = btf, NEW id, NEW path
    PROVE  Member(id, path)' = Member(id, path)
  <1> DEFINE First == [ok |-> TRUE, type |-> id, off |-> 0, width |-> 0]
             Eq(f) == f = [k \in 0..Len(path) |-> IF k = 0 THEN First ELSE MemberIn(f[k - 1], path[k])]
  <1>1. ASSUME NEW up, NEW name PROVE MemberIn(up, name)' = MemberIn(up, name)
    <2>1. FindMember(up.type, name)' = FindMember(up.type, name)
      BY SameMembers
    <2> QED
      BY <2>1 DEF MemberIn
  <1>2. Member(id, path) = (CHOOSE f : Eq(f))[Len(path)]
    BY DEF Member
  <1>3. Member(id, path)' = (CHOOSE f : Eq(f))'[Len(path)]
    BY DEF Member
  <1>4. \A f : Eq(f)' <=> Eq(f)
    <2> HIDE DEF First
    <2> QED
      BY <1>1 DEF First
  <1>5. (CHOOSE f : Eq(f))' = CHOOSE f : Eq(f)
    BY <1>4
  <1> QED
    BY <1>2, <1>3, <1>5

LEMMA SameFields ==
    ASSUME btf' = btf
    PROVE  /\ \A m : FieldOf(m)' = FieldOf(m)
           /\ \A tag, name : FieldType(tag, name)' = FieldType(tag, name)
  <1>0. \A id : Type(Resolve(id))' = Type(Resolve(id))
    BY SameKinds, SameResolve DEF Type
  <1>1. \A id : Pointee(id)' = Pointee(id) /\ IsChar(id)' = IsChar(id)
    BY <1>0, SameKinds, SameResolve DEF Pointee, IsChar
  <1>2. \A t, width : FieldKind(t, width)' = FieldKind(t, width)
    BY <1>1 DEF FieldKind
  <1>3. ASSUME NEW m, NEW rid, NEW t, NEW size
        PROVE  FieldAt(m, rid, t, size)' = FieldAt(m, rid, t, size)
    <2>1. Pointee(rid)' = Pointee(rid) /\ FieldKind(t, m.width)' = FieldKind(t, m.width)
      BY <1>1, <1>2
    <2> QED
      BY <2>1 DEF FieldAt, IsChar, FieldKind, Pointee
  <1>4. ASSUME NEW m PROVE FieldOf(m)' = FieldOf(m)
    <2> DEFINE Span(s) == IF m.width = 0 THEN s ELSE ((m.off % ByteBits) + m.width + ByteBits - 1) \div ByteBits
    <2>1. FieldOf(m) = IF ~m.ok THEN No
                       ELSE FieldAt(m, Resolve(m.type), Type(Resolve(m.type)), Span(Size(m.type)))
      BY DEF FieldOf
    <2>2. FieldOf(m)' = IF ~m.ok THEN No
                        ELSE FieldAt(m, Resolve(m.type), Type(Resolve(m.type)), Span(Size(m.type)))'
      BY DEF FieldOf
    <2> QED
      BY <1>0, <1>3, <2>1, <2>2, SameResolve, SameSize
  <1>5. ASSUME NEW tag, NEW name PROVE FieldType(tag, name)' = FieldType(tag, name)
    <2>1. \A id : Kind(Resolve(id))' = Kind(Resolve(id))
      BY <1>0 DEF Kind
    <2> QED
      BY <2>1, SameFind DEF FieldType
  <1> QED
    BY <1>4, <1>5

LEMMA SameAnswers ==
    ASSUME btf' = btf, NEW q, q.fn \in {"field", "value"}
    PROVE  Answered(q)' = Answered(q)
  <1>1. CASE q.fn = "field"
    <2>1. ASSUME NEW f, NEW u, NEW s PROVE Value(f, u, s)' = Value(f, u, s)
      <3>1. \A v : EnumName(f.ref, v)' = EnumName(f.ref, v)
        BY SameEnums
      <3> DEFINE n == IF f.kind = "enum" THEN EnumName(f.ref, IF f.signed THEN s ELSE u) ELSE NoName
      <3>2. n' = n
        BY <3>1
      <3>3. Value(f, u, s) = [ok |-> TRUE, u |-> u, s |-> s, name |-> n]
        BY DEF Value
      <3>4. Value(f, u, s)' = [ok |-> TRUE, u |-> u, s |-> s, name |-> n']
        BY DEF Value
      <3> HIDE DEF n
      <3> QED
        BY <3>2, <3>3, <3>4
    <2>2. ASSUME NEW f, NEW p PROVE Decode(f, p)' = Decode(f, p)
      BY <2>1 DEF Decode
    <2>3. ASSUME NEW f, NEW object PROVE FieldRead(f, object)' = FieldRead(f, object)
      BY <2>2 DEF FieldRead
    <2> DEFINE M(id) == IF id = 0 THEN No ELSE Member(id, q.path)
    <2>4. Answered(q) = FieldRead(FieldOf(M(FieldType(q.tag, q.name))), q.object)
      BY <1>1 DEF Answered, Field
    <2>5. Answered(q)' = FieldRead(FieldOf(M(FieldType(q.tag, q.name))), q.object)'
      BY <1>1 DEF Answered, Field
    <2>6. \A id : Member(id, q.path)' = Member(id, q.path)
      BY SamePaths
    <2> QED
      BY <2>3, <2>4, <2>5, <2>6, SameFields
  <1>2. CASE q.fn = "value"
    <2>1. ASSUME NEW tag, NEW name PROVE RvFindType(tag, name)' = RvFindType(tag, name)
      BY SameFind DEF RvFindType
    <2>2. ASSUME NEW enum, NEW name PROVE RvEnumValue(enum, name)' = RvEnumValue(enum, name)
      BY <2>1, SameKinds, SameEnums DEF RvEnumValue, RvEnum
    <2>3. Answered(q) = RvEnumValue(q.enum, q.name) /\ Answered(q)' = RvEnumValue(q.enum, q.name)'
      BY <1>2 DEF Answered
    <2> QED
      BY <2>2, <2>3
  <1> QED
    BY <1>1, <1>2

(***************************************************************************)
(* The inductive invariant.  A profile is built in steps, and nothing else  *)
(* happens meanwhile; questions and walks only find a whole one.            *)
(***************************************************************************)
StepsInv ==
    /\ guest \in Guests
    /\ step \in 0..Ready
    /\ step <= 4 => sym = NoTable
    /\ step >= 5 => sym # NoTable
    /\ step <= 6 => btf = NoBtf
    /\ step >= 7 => btf # NoBtf
    /\ step \in 1..Steps => ask = NoAsk
    /\ pc # "idle" => step = Ready
    /\ ask # NoAsk => step = Ready \/ ask.fn = "prof"

LoadedInv ==
    /\ ImageIn(guest, img)
    /\ sym # NoTable => Believed(sym, img.start)
    /\ BtfIn(btf)

AnswersInv ==
    /\ ask.fn = "symat" => SymAtTrue(ask, answer)
    /\ ask.fn = "sym" => SymTrue(ask, answer)
    /\ ask.fn \in {"field", "value"} => \E q \in guest.asks : ask = q /\ answer = Answered(q)

(* Only walks of trees and xarrays open nodes.                              *)
StackInv == call.fn \notin {"rbtree", "idr"} \/ rc = "refused" => stack = <<>>

ProfileInv == StepsInv /\ LoadedInv /\ AnswersInv
KernelInv  == ProfileInv /\ WalkInv /\ TreeInv /\ EntriesInv /\ StackInv

LEMMA KernelInvInit == KernelInit => KernelInv
  <1> SUFFICES ASSUME KernelInit PROVE KernelInv
    OBVIOUS
  <1>1. StepsInv
    BY DEF KernelInit, StepsInv, Ready, Steps, NoAsk, WalksInit
  <1>2. ImageIn(guest, img) /\ BtfIn(btf)
    BY DEF KernelInit, ImageIn, NoImage, BtfIn, NoBtf
  <1>3. LoadedInv
    BY <1>2 DEF KernelInit, LoadedInv
  <1>4. AnswersInv
    BY DEF KernelInit, AnswersInv, NoAsk
  <1>5. WalkInv /\ TreeInv /\ EntriesInv /\ StackInv
    BY InvInit DEF KernelInit, WalksInit, NoCall, TreeInv, EntriesInv, StackInv
  <1> QED
    BY <1>1, <1>3, <1>4, <1>5 DEF KernelInv, ProfileInv

(* No profile: the state after a failure, a detach or the start of a load.  *)
Dropped == sym' = NoTable /\ btf' = NoBtf /\ img' = NoImage /\ guest' = guest

LEMMA DroppedLoaded == ASSUME Dropped PROVE LoadedInv'
  <1>1. ImageIn(guest', img')
    BY DEF Dropped, ImageIn, NoImage
  <1>2. BtfIn(btf')
    BY DEF Dropped, BtfIn, NoBtf
  <1> QED
    BY <1>1, <1>2 DEF LoadedInv, Dropped

LEMMA FailsKeeps ==
    ASSUME ProfileInv, step \in 1..Steps, Fails
    PROVE  ProfileInv'
  <1>1. StepsInv'
    BY DEF ProfileInv, StepsInv, Fails, Ready, Steps, walkVars
  <1>2. LoadedInv'
    BY DroppedLoaded DEF Fails, Dropped
  <1>3. AnswersInv'
    BY DEF Fails, AnswersInv
  <1> QED
    BY <1>1, <1>2, <1>3 DEF ProfileInv

LEMMA RvProfKeeps ==
    ASSUME ProfileInv, RvProf
    PROVE  ProfileInv'
  <1>1. StepsInv'
    BY DEF ProfileInv, StepsInv, RvProf, Idle, Ready, Steps, walkVars
  <1>2. LoadedInv'
    BY DroppedLoaded DEF RvProf, Dropped
  <1>3. AnswersInv'
    BY DEF RvProf, AnswersInv, NoAsk
  <1> QED
    BY <1>1, <1>2, <1>3 DEF ProfileInv

LEMMA RvDetachKeeps ==
    ASSUME ProfileInv, RvDetach
    PROVE  ProfileInv'
  <1>1. StepsInv'
    BY DEF ProfileInv, StepsInv, RvDetach, Idle, Ready, Steps, walkVars
  <1>2. LoadedInv'
    BY DroppedLoaded DEF RvDetach, Dropped
  <1>3. AnswersInv'
    BY DEF RvDetach, AnswersInv, NoAsk
  <1> QED
    BY <1>1, <1>2, <1>3 DEF ProfileInv

(* A step that passes leaves the walks alone and answers nothing.           *)
LEMMA PassesAnswers ==
    ASSUME ProfileInv, step \in 1..Steps, Passes
    PROVE  AnswersInv'
  <1>1. ask = NoAsk /\ ask' = ask
    BY DEF ProfileInv, StepsInv, Passes
  <1> QED
    BY <1>1 DEF AnswersInv, NoAsk

LEMMA StepKeeps ==
    ASSUME ProfileInv, KprofInit
    PROVE  ProfileInv'
  <1>0. step \in 1..Steps /\ step \in Nat
    BY DEF KprofInit, PauseAndLstar, LoadImage, LoadSymbols, CheckBanner, LoadTypes, CheckInitTask,
           Resume, Steps
  <1>1. CASE Fails
    BY <1>0, <1>1, FailsKeeps
  <1>2. CASE PauseAndLstar /\ ~Fails
    <2>1. step \in {1, 2} /\ Passes /\ UNCHANGED <<img, sym, btf>>
      BY <1>2 DEF PauseAndLstar
    <2>2. StepsInv'
      BY <2>1 DEF ProfileInv, StepsInv, Passes, Ready, Steps, walkVars
    <2>3. LoadedInv'
      BY <2>1 DEF ProfileInv, LoadedInv, Passes
    <2> QED
      BY <1>0, <2>1, <2>2, <2>3, PassesAnswers DEF ProfileInv
  <1>3. CASE LoadImage /\ ~Fails
    <2>1. step = 3 /\ Passes /\ img' = KimgLoad(guest) /\ UNCHANGED <<sym, btf>>
      BY <1>3 DEF LoadImage
    <2>2. StepsInv'
      BY <2>1 DEF ProfileInv, StepsInv, Passes, Ready, Steps, walkVars
    <2>3. ImageIn(guest', img')
      BY <2>1, ImageLoads DEF ProfileInv, StepsInv, Passes
    <2>4. LoadedInv'
      BY <2>1, <2>3 DEF ProfileInv, LoadedInv, StepsInv
    <2> QED
      BY <1>0, <2>1, <2>2, <2>4, PassesAnswers DEF ProfileInv
  <1>4. CASE LoadSymbols /\ ~Fails
    <2>1. /\ step = 4 /\ Passes /\ sym' # NoTable /\ sym' = KsymLoad(guest, img, CfgFromScan)
          /\ UNCHANGED <<img, btf>>
      BY <1>4 DEF LoadSymbols
    <2>2. StepsInv'
      BY <2>1 DEF ProfileInv, StepsInv, Passes, Ready, Steps, walkVars
    <2>3. Believed(sym', img.start)
      BY <2>1, SymbolsLoad DEF ProfileInv, LoadedInv
    <2>4. LoadedInv'
      BY <2>1, <2>3 DEF ProfileInv, LoadedInv, Passes
    <2> QED
      BY <1>0, <2>1, <2>2, <2>4, PassesAnswers DEF ProfileInv
  <1>5. CASE CheckBanner /\ ~Fails
    <2>1. step = 5 /\ Passes /\ UNCHANGED <<img, sym, btf>>
      BY <1>5 DEF CheckBanner
    <2>2. StepsInv'
      BY <2>1 DEF ProfileInv, StepsInv, Passes, Ready, Steps, walkVars
    <2>3. LoadedInv'
      BY <2>1 DEF ProfileInv, LoadedInv, Passes
    <2> QED
      BY <1>0, <2>1, <2>2, <2>3, PassesAnswers DEF ProfileInv
  <1>6. CASE LoadTypes /\ ~Fails
    <2>1. /\ step = 6 /\ Passes /\ btf' = Locate(guest, img) /\ btf' # NoBtf
          /\ UNCHANGED <<img, sym>>
      BY <1>6 DEF LoadTypes
    <2>2. StepsInv'
      BY <2>1 DEF ProfileInv, StepsInv, Passes, Ready, Steps, walkVars
    <2>3. BtfIn(btf')
      BY <2>1, TypesLocate DEF ProfileInv, StepsInv
    <2>4. LoadedInv'
      BY <2>1, <2>3 DEF ProfileInv, LoadedInv, Passes
    <2> QED
      BY <1>0, <2>1, <2>2, <2>4, PassesAnswers DEF ProfileInv
  <1>7. CASE CheckInitTask /\ ~Fails
    <2>1. step = 7 /\ Passes /\ UNCHANGED <<img, sym, btf>>
      BY <1>7 DEF CheckInitTask
    <2>2. StepsInv'
      BY <2>1 DEF ProfileInv, StepsInv, Passes, Ready, Steps, walkVars
    <2>3. LoadedInv'
      BY <2>1 DEF ProfileInv, LoadedInv, Passes
    <2> QED
      BY <1>0, <2>1, <2>2, <2>3, PassesAnswers DEF ProfileInv
  <1>8. CASE Resume /\ ~Fails
    <2>1. step = 8 /\ Passes /\ img' = [img EXCEPT !.runs = <<>>] /\ UNCHANGED <<sym, btf>>
      BY <1>8 DEF Resume
    <2>2. StepsInv'
      BY <2>1 DEF ProfileInv, StepsInv, Passes, Ready, Steps, walkVars
    <2>3. img'.start = img.start /\ img'.end = img.end /\ DOMAIN img'.runs = {}
      BY <2>1
    <2>4. LoadedInv'
      BY <2>1, <2>3 DEF ProfileInv, LoadedInv, Passes, ImageIn
    <2> QED
      BY <1>0, <2>1, <2>2, <2>4, PassesAnswers DEF ProfileInv
  <1> QED
    BY <1>1, <1>2, <1>3, <1>4, <1>5, <1>6, <1>7, <1>8 DEF KprofInit

LEMMA AskKeeps ==
    ASSUME ProfileInv, Ask
    PROVE  ProfileInv'
  <1>1. PICK q \in guest.asks :
            /\ ask' = q
            /\ answer' = IF q.fn \in {"sym", "symat", "ksyms"} THEN SymbolAnswer(q) ELSE Answered(q)
    BY DEF Ask
  <1>2. step = Ready /\ pc = "idle" /\ UNCHANGED <<guest, img, step, sym, btf, pc>>
    BY DEF Ask, Idle, walkVars
  <1>3. StepsInv'
    BY <1>2 DEF ProfileInv, StepsInv, Ready, Steps
  <1>4. LoadedInv'
    BY <1>2 DEF ProfileInv, LoadedInv
  <1>5. Believed(sym, img.start) /\ img.start \in Nat /\ img.end \in Nat
    BY <1>2 DEF ProfileInv, StepsInv, LoadedInv, ImageIn, Ready, Steps
  <1>6. ASSUME q.fn = "symat" PROVE SymAtTrue(q, answer')
    <2>1. answer' = RvSymAt(img, q.va)
      BY <1>1, <1>6 DEF SymbolAnswer
    <2>2. q.va \in Int
      BY <1>6, GuestAsks DEF ProfileInv, StepsInv
    <2> QED
      BY <1>5, <2>1, <2>2, LookupByAddress
  <1>7. ASSUME q.fn = "sym" PROVE SymTrue(q, answer')
    <2>1. answer' = RvSym(q.name)
      BY <1>1, <1>7 DEF SymbolAnswer
    <2> QED
      BY <1>5, <2>1, LookupByName
  <1>8. ASSUME q.fn \in {"field", "value"} PROVE answer' = Answered(q)'
    <2>1. answer' = Answered(q)
      BY <1>1, <1>8
    <2> QED
      BY <1>2, <1>8, <2>1, SameAnswers
  <1>9. (ask.fn \in {"field", "value"} => \E p \in guest.asks : ask = p /\ answer = Answered(p))'
    <2>1. ask' = q /\ guest' = guest /\ q \in guest.asks
      BY <1>1, <1>2
    <2> QED
      BY <1>8, <2>1
  <1>10. AnswersInv'
    BY <1>1, <1>2, <1>6, <1>7, <1>9 DEF AnswersInv, SymAtTrue, SymTrue
  <1> QED
    BY <1>3, <1>4, <1>10 DEF ProfileInv

LEMMA AnswersKeeps ==
    ASSUME ProfileInv, Answers
    PROVE  ProfileInv'
  <1>1. StepsInv'
    BY DEF ProfileInv, StepsInv, Answers, NoAsk, Ready, Steps, walkVars
  <1>2. LoadedInv'
    BY DEF ProfileInv, LoadedInv, Answers
  <1>3. AnswersInv'
    BY DEF Answers, AnswersInv, NoAsk
  <1> QED
    BY <1>1, <1>2, <1>3 DEF ProfileInv

(* What leaves the profile alone keeps it, if a walk goes on or is begun    *)
(* with a whole profile only.                                               *)
LEMMA AsideKeeps ==
    ASSUME ProfileInv, UNCHANGED Aside, pc' # "idle" => step = Ready
    PROVE  ProfileInv'
  <1>1. UNCHANGED <<guest, img, step, sym, btf, ask, answer>>
    BY DEF Aside
  <1>2. StepsInv'
    BY <1>1 DEF ProfileInv, StepsInv
  <1>3. LoadedInv'
    BY <1>1 DEF ProfileInv, LoadedInv
  <1>4. ASSUME NEW q, q.fn \in {"field", "value"} PROVE Answered(q)' = Answered(q)
    BY <1>1, <1>4, SameAnswers
  <1>5. (ask.fn \in {"field", "value"} => \E q \in guest.asks : ask = q /\ answer = Answered(q))'
    BY <1>1, <1>4 DEF ProfileInv, AnswersInv
  <1>6. AnswersInv'
    BY <1>1, <1>5 DEF ProfileInv, AnswersInv, SymAtTrue, SymTrue
  <1> QED
    BY <1>2, <1>3, <1>6 DEF ProfileInv

LEMMA WalkingKeeps ==
    ASSUME ProfileInv, WalkInv, WalkCall \/ WalkOn \/ WalkTaken
    PROVE  ProfileInv'
  <1>1. UNCHANGED Aside
    BY DEF WalkCall, WalkOn, WalkTaken
  <1>2. CASE WalkCall
    BY <1>1, <1>2, AsideKeeps DEF WalkCall
  <1>3. CASE WalkOn
    <2>1. pc # "idle"
      BY <1>3 DEF WalkOn, WalkStep, Refused, ProbesForever, BudgetGone, AtNode, ReadLink, LinksEnd,
                  ReadRb, PopRb, ReadXa, XaSlot, XaReturn
    <2> QED
      BY <1>1, <2>1, AsideKeeps DEF ProfileInv, StepsInv
  <1>4. CASE WalkTaken
    BY <1>1, <1>4, AsideKeeps DEF WalkTaken, Taken
  <1> QED
    BY <1>2, <1>3, <1>4

(* Walks go by the offsets the types of the guest have.                     *)
LEMMA WalksAreAny ==
    ASSUME ProfileInv, WalkCall \/ WalkOn \/ WalkTaken
    PROVE  AnyWalk
  <1> DEFINE none == [fn \in {"list", "hlist"} |-> {}]
  <1>1. Numeric(none)
    BY DEF Numeric
  <1>2. CASE WalkOn \/ WalkTaken
    <2>1. WalksNext(none, FALSE, FALSE, {})
      BY <1>2 DEF WalkOn, WalkTaken, WalksNext
    <2> HIDE DEF none
    <2> QED
      BY <1>1, <2>1 DEF AnyWalk
  <1>3. CASE WalkCall
    <2> DEFINE offsets == [fn \in {"list", "hlist"} |->
                              OffsetsOf(IF fn = "list" THEN "list_head" ELSE "hlist_node")]
               percpu == {PerCpu(n) : n \in PerCpuVars}
    <2>1. Typed
      BY <1>3 DEF WalkCall, Typed, ProfileInv, StepsInv, LoadedInv, BtfIn, Ready, Steps
    <2>2. Numeric(offsets)
      BY <2>1, OffsetsAreNumbers DEF Numeric
    <2>3. Call(offsets, RbLayout, IdrLayout, percpu)
      BY <1>3 DEF WalkCall
    <2>4. WalksNext(offsets, RbLayout, IdrLayout, percpu)
      BY <2>3 DEF WalksNext
    <2> HIDE DEF offsets, percpu
    <2> QED
      BY <2>2, <2>4 DEF AnyWalk
  <1> QED
    BY <1>2, <1>3

LEMMA StackKeeps ==
    ASSUME WalkInv, StackInv, AnyWalk
    PROVE  StackInv'
  <1>1. PICK offsets, rb, idr, percpu : WalksNext(offsets, rb, idr, percpu)
    BY DEF AnyWalk
  <1>2. CASE Taken
    BY <1>2 DEF Taken, StackInv
  <1>3. CASE WalkStep
    <2>1. CASE Refused \/ ProbesForever \/ BudgetGone \/ LinksEnd \/ ReadLink
      <3>1. stack' = stack /\ call' = call /\ (rc' = "refused" => rc = "refused")
        BY <2>1 DEF Refused, ProbesForever, BudgetGone, LinksEnd, ReadLink, Return, Unusable
      <3> QED
        BY <3>1 DEF StackInv
    <2>2. CASE ReadRb \/ PopRb \/ ReadXa \/ XaSlot \/ XaReturn
      <3>1. call.fn \in {"rbtree", "idr"} /\ rc = "ok"
        BY <2>2 DEF ReadRb, PopRb, ReadXa, XaSlot, XaReturn, WalkInv, WalkShape
      <3>2. call' = call /\ rc' # "refused"
        BY <2>2, <3>1 DEF ReadRb, PopRb, ReadXa, XaSlot, XaReturn, Return, Unusable
      <3> QED
        BY <3>1, <3>2 DEF StackInv
    <2> QED
      BY <1>3, <2>1, <2>2 DEF WalkStep
  <1>4. CASE Call(offsets, rb, idr, percpu)
    <2>1. stack' = stack /\ pc = "idle"
      <3>1. ASSUME NEW fn, NEW root, NEW off, NEW max, NEW limited,
                   WalkLinks(fn, root, off, max, limited)
            PROVE  stack' = stack /\ pc = "idle"
        BY <3>1 DEF WalkLinks, Answer, Begin
      <3>2. ASSUME NEW root, NEW max, NEW limited, WalkRbtree(rb, root, max, limited)
            PROVE  stack' = stack /\ pc = "idle"
        BY <3>2 DEF WalkRbtree, Answer, Begin
      <3>3. ASSUME NEW root, NEW base, NEW max, NEW limited, WalkIdr(idr, root, base, max, limited)
            PROVE  stack' = stack /\ pc = "idle"
        BY <3>3 DEF WalkIdr, Answer, Begin
      <3>4. ASSUME NEW vas, ReadMany(vas)
            PROVE  stack' = stack /\ pc = "idle"
        BY <3>4 DEF ReadMany, Answer, Begin
      <3>5. ASSUME NEW known, NEW s, NEW cpu, PercpuAddr(known, s, cpu)
            PROVE  stack' = stack /\ pc = "idle"
        BY <3>5 DEF PercpuAddr, Answer, Begin
      <3> QED
        BY <1>4, <3>1, <3>2, <3>3, <3>4, <3>5 DEF Call
    <2>2. stack = <<>>
      BY <2>1 DEF WalkInv, WalkShape
    <2> QED
      BY <2>1, <2>2 DEF StackInv
  <1> QED
    BY <1>1, <1>2, <1>3, <1>4 DEF WalksNext

LEMMA StandsStill ==
    ASSUME WalkInv, TreeInv, EntriesInv, StackInv, UNCHANGED walkVars
    PROVE  WalkInv' /\ TreeInv' /\ EntriesInv' /\ StackInv'
  <1>1. WalkInv'
    BY InvStutters
  <1>2. TreeInv'
    BY TreeStays DEF walkVars
  <1>3. EntriesInv'
    BY EntriesStay
  <1>4. StackInv'
    BY DEF walkVars, StackInv
  <1> QED
    BY <1>1, <1>2, <1>3, <1>4

LEMMA KernelStep ==
    ASSUME KernelInv, [KernelNext]_kernelVars
    PROVE  KernelInv'
  <1>1. CASE RvProf \/ KprofInit \/ RvDetach \/ Ask \/ Answers
    <2>1. UNCHANGED walkVars
      BY <1>1 DEF RvProf, KprofInit, RvDetach, Ask, Answers, PauseAndLstar, LoadImage, LoadSymbols,
                  CheckBanner, LoadTypes, CheckInitTask, Resume, Fails, Passes
    <2>2. ProfileInv'
      BY <1>1, RvProfKeeps, StepKeeps, RvDetachKeeps, AskKeeps, AnswersKeeps DEF KernelInv
    <2> QED
      BY <2>1, <2>2, StandsStill DEF KernelInv
  <1>2. CASE WalkCall \/ WalkOn \/ WalkTaken
    <2>1. AnyWalk
      BY <1>2, WalksAreAny DEF KernelInv
    <2>2. WalkInv' /\ TreeInv' /\ EntriesInv' /\ StackInv'
      BY <2>1, InvStep, TreeStep, EntriesStep, StackKeeps DEF KernelInv
    <2> QED
      BY <1>2, <2>2, WalkingKeeps DEF KernelInv
  <1>3. CASE UNCHANGED kernelVars
    <2>1. UNCHANGED walkVars /\ UNCHANGED Aside /\ pc' = pc
      BY <1>3 DEF kernelVars, walkVars, Aside
    <2>2. ProfileInv'
      BY <2>1, AsideKeeps DEF KernelInv, ProfileInv, StepsInv
    <2> QED
      BY <2>1, <2>2, StandsStill DEF KernelInv
  <1> QED
    BY <1>1, <1>2, <1>3 DEF KernelNext

(* The invariant of a kernel that is profiled, asked and walked: the steps   *)
(* of kprof_init in their order, what each leaves loaded, what the questions *)
(* answer, and what holds of any walk over its memory (kprof.c, rv_kern.c).   *)
THEOREM Kernels == KernelSpec => []KernelInv
  BY KernelInvInit, KernelStep, PTL DEF KernelSpec

(***************************************************************************)
(* What follows from it.                                                    *)
(***************************************************************************)
LEMMA TypedKernel == KernelInv => TypeOK
  <1> SUFFICES ASSUME KernelInv PROVE TypeOK
    OBVIOUS
  <1>1. /\ pc \in {"idle", "links", "rb", "xa", "slots", "probing", "done"}
        /\ rc \in {"ok", "wild", "cap", "cycle", "budget", "unread", "torn", "refused"}
    BY DEF KernelInv, WalkInv, WalkShape
  <1>2. ASSUME NEW s \in ToSet(sym)
        PROVE  s.addr \in 0..(U64 - 1) /\ Len(s.name) \in 1..(MaxName - 2)
    <2>1. PICK i \in DOMAIN sym : s = sym[i]
      BY DEF ToSet
    <2>2. sym # NoTable
      BY DEF NoTable
    <2>3. SymbolIn(sym[i])
      BY <2>2 DEF KernelInv, ProfileInv, LoadedInv, Believed
    <2> QED
      BY <2>1, <2>3 DEF SymbolIn
  <1>3. btf.n = 0 \/ btf.n = Len(btf.types) + 1
    BY DEF KernelInv, ProfileInv, LoadedInv, BtfIn
  <1>4. Len(stack) <= RbMaxDepth \/ call.fn = "idr"
    <2>1. RbMaxDepth \in Nat
      BY WalkBounds
    <2>2. CASE call.fn = "rbtree" /\ rc # "refused"
      BY <2>2 DEF KernelInv, WalkInv, RbInv
    <2>3. CASE call.fn # "idr" /\ ~(call.fn = "rbtree" /\ rc # "refused")
      <3>1. stack = <<>>
        BY <2>3 DEF KernelInv, StackInv
      <3> QED
        BY <2>1, <3>1
    <2> QED
      BY <2>2, <2>3
  <1>5. /\ step \in 0..Ready
        /\ step = 0 => sym = NoTable /\ btf = NoBtf
        /\ step >= 5 => sym # NoTable
        /\ step >= 7 => btf # NoBtf
        /\ pc # "idle" \/ ask # NoAsk => step = Ready \/ ask.fn = "prof"
    BY DEF KernelInv, ProfileInv, StepsInv
  <1> QED
    BY <1>1, <1>2, <1>3, <1>4, <1>5 DEF TypeOK

(* Every variable is in its range, and a profile is whole or absent: a      *)
(* question or a walk never finds one that is being built (kprof.c, the     *)
(* bind lock of rv_kern.c).                                                 *)
THEOREM ProfilesWhole == KernelSpec => []TypeOK
  BY Kernels, TypedKernel, PTL

(* A table of symbols that is used rises from its first symbol to its last  *)
(* and begins with the image, whatever the image holds (ksym.c:316, 329).   *)
THEOREM TablesSound == KernelSpec => []TableIsSound
  <1>1. KernelInv => TableIsSound
    <2> SUFFICES ASSUME KernelInv, sym # NoTable
                 PROVE  /\ \A i, j \in DOMAIN sym : i < j => sym[i].addr <= sym[j].addr
                        /\ \E i \in DOMAIN sym : sym[i].name = TextName /\ sym[i].addr = img.start
      BY DEF TableIsSound
    <2>1. Believed(sym, img.start)
      BY DEF KernelInv, ProfileInv, LoadedInv
    <2> QED
      BY <2>1 DEF Believed, Rises, HasText
  <1> QED
    BY <1>1, Kernels, PTL

(* Halving a table of any length gives the last symbol at or below an       *)
(* address, and gives one for every address of the image (ksym.c).          *)
THEOREM LookupsTrue == KernelSpec => []LookupsAgree
  <1>1. KernelInv => LookupsAgree
    BY DEF KernelInv, ProfileInv, AnswersInv, SymAtTrue, SymTrue, LookupsAgree
  <1> QED
    BY <1>1, Kernels, PTL

(* A field that is read is the bits BTF puts it at, read as its type says,   *)
(* whatever chains of typedefs, nested anonymous members and bitfields lead  *)
(* to it, and a field that is refused has no place, no readable type, or     *)
(* lies outside; an enumerator's value has a name that has that value        *)
(* (kfield.c, btf.c, the rv_field and rv_enum calls of rv_kern.c).           *)
THEOREM FieldsSound == KernelSpec => []FieldsTrue
  <1>1. ASSUME KernelInv, ask.fn \in {"field", "value"}
        PROVE  Typed /\ ask \in guest.asks /\ guest \in Guests /\ answer = Answered(ask)
    <2>1. guest \in Guests /\ BtfIn(btf)
      BY <1>1 DEF KernelInv, ProfileInv, StepsInv, LoadedInv
    <2>2. \E q \in guest.asks : ask = q /\ answer = Answered(q)
      BY <1>1 DEF KernelInv, ProfileInv, AnswersInv
    <2>3. step = Ready
      <3>1. ask # NoAsk
        BY <1>1 DEF NoAsk
      <3> QED
        BY <1>1, <3>1 DEF KernelInv, ProfileInv, StepsInv
    <2>4. btf # NoBtf
      BY <1>1, <2>3 DEF KernelInv, ProfileInv, StepsInv, Ready, Steps
    <2> QED
      BY <2>1, <2>2, <2>4 DEF Typed, BtfIn
  <1>2. ASSUME KernelInv, ask.fn = "field"
        PROVE  LET id == FieldType(ask.tag, ask.name)
               IN  FieldTrue(ask, answer, IF id = 0 THEN No ELSE PlaceOf(id, ask.path))
    <2>1. Typed /\ ask \in guest.asks /\ guest \in Guests /\ answer = Answered(ask)
      BY <1>1, <1>2
    <2>2. Len(ask.path) \in Nat /\ ask.object \in Seq(Bytes)
      BY <1>2, <2>1, GuestAsks DEF Bytes
    <2>3. answer = FieldRead(Field(FieldType(ask.tag, ask.name), ask.path), ask.object)
      BY <1>2, <2>1 DEF Answered
    <2> QED
      BY <2>1, <2>2, <2>3, FieldIsTrue
  <1>3. ASSUME KernelInv, ask.fn = "value", ask.enum # NoName, answer.ok,
               OwnNames(Type(Resolve(RvEnum(ask.enum))))
        PROVE  LET again == RvEnumName(ask.enum, answer.val)
               IN  again.ok /\ EnumValue(RvEnum(ask.enum), again.name).val = answer.val
    <2> DEFINE id == RvEnum(ask.enum)
               again == RvEnumName(ask.enum, answer.val)
    <2>1. Typed /\ answer = Answered(ask)
      BY <1>1, <1>3
    <2>2. answer = RvEnumValue(ask.enum, ask.name)
      BY <1>3, <2>1 DEF Answered
    <2>3. id # 0 /\ answer = EnumValue(id, ask.name)
      BY <1>3, <2>2 DEF RvEnumValue, No
    <2>4. id \in Ids
      BY <2>1, RvEnumIs
    <2>5. OwnNames(Type(Resolve(id)))
      BY <1>3
    <2> HIDE DEF id
    <2>6. EnumName(id, answer.val) # NoName /\ EnumValue(id, EnumName(id, answer.val)).val = answer.val
      BY <1>3, <2>1, <2>3, <2>4, <2>5, ValueHasName
    <2>7. again.name = EnumName(id, answer.val) /\ again.ok = (again.name # NoName)
      BY <2>3 DEF RvEnumName, id
    <2> QED
      BY <2>6, <2>7 DEF id
  <1>4. KernelInv => FieldsTrue
    BY <1>2, <1>3 DEF FieldsTrue
  <1> QED
    BY <1>4, Kernels, PTL

(* The walks of a kernel answer what is there, as any walk does.            *)
THEOREM KernelWalksReal == KernelSpec => []FoundIsReal
  <1>1. KernelInv => FoundIsReal
    BY WalkInvReal DEF KernelInv
  <1> QED
    BY <1>1, Kernels, PTL

(* A walk of a kernel that succeeds answers what it walked, whole: a list is *)
(* a chain to its end, a tree has every node that was read, in order, and an *)
(* idr every entry a lookup finds, by its id.                                *)
THEOREM KernelWalksComplete == KernelSpec => []Complete
  <1>1. ASSUME KernelInv, call.fn \in {"list", "hlist"} PROVE Complete
    <2> SUFFICES ASSUME pc = "done", rc = "ok" PROVE IsChain
      BY <1>1 DEF Complete
    <2>1. Linked /\ node = End
      BY <1>1 DEF KernelInv, WalkInv, LinksInv
    <2> QED
      BY <2>1 DEF Linked, IsChain
  <1>2. ASSUME KernelInv, call.fn = "rbtree" PROVE Complete
    BY <1>2, TreeDone DEF KernelInv, Complete
  <1>3. ASSUME KernelInv, call.fn = "idr" PROVE Complete
    BY <1>3, EntriesDone DEF KernelInv, Complete
  <1>4. KernelInv => Complete
    BY <1>1, <1>2, <1>3, Zenon DEF Complete
  <1> QED
    BY <1>4, Kernels, PTL
=============================================
