---------------------------- MODULE KernelImage ----------------------------
(* The copy of the guest's kernel image (impl/kern/kimg.c) everything else   *)
(* is decoded from.  Guest memory is counted in cells of four bytes; a guest *)
(* is a record [mapped, cells, ...]: the pages that can be read, and what is *)
(* at an address.                                                            *)
EXTENDS Integers, Sequences, FiniteSets, SequencesExt, FiniteSetsExt, TLC

CONSTANTS
    PageCells,      \* cells of a page
    ChunkPages,     \* pages of a 2 MiB chunk
    AreaStart,      \* the area the kernel is mapped in
    AreaEnd

ChunkCells == PageCells * ChunkPages

ASSUME ImageBounds ==
    /\ {PageCells, ChunkPages} \subseteq Nat \ {0}
    /\ AreaStart \in Nat /\ AreaEnd \in Nat
    /\ AreaStart % ChunkCells = 0 /\ AreaEnd % ChunkCells = 0

PageOf(va) == va \div PageCells
PagesAt(chunk) == {PageOf(chunk) + k : k \in 0..(ChunkPages - 1)}

(* Down from the anchor while the chunk below is mapped.                     *)
FindStart(guest, anchor) ==
    LET here == (anchor \div ChunkCells) * ChunkCells
        Below == {va \in AreaStart..here : /\ va % ChunkCells = 0
            /\ \A c \in va..(here - 1) : c % ChunkCells = 0 => PageOf(c) \in guest.mapped}
    IN  Min(Below)

(* Up to the first chunk with no page that can be read.                      *)
FindEnd(guest, start) ==
    LET Empty == {va \in start..(AreaEnd - 1) : /\ va % ChunkCells = 0
                                                /\ PagesAt(va) \cap guest.mapped = {}}
    IN  IF Empty = {} THEN AreaEnd ELSE Min(Empty)

(* kimg_build_runs: the present pages, as maximal runs in address order.     *)
Runs(guest, start, end) ==
    LET Present == guest.mapped \cap PageOf(start)..(PageOf(end) - 1)
        Firsts  == {p \in Present : p - 1 \notin Present}
        Length(p) == Min({n \in 1..(PageOf(end) - p) : p + n \notin Present})
    IN  [i \in 1..Cardinality(Firsts) |->
            LET p == CHOOSE q \in Firsts : Cardinality({r \in Firsts : r < q}) = i - 1
            IN  [va |-> p * PageCells, len |-> Length(p) * PageCells]]

NoImage == [start |-> 0, end |-> 0, runs |-> <<>>]

KimgLoad(guest) ==
    LET start == FindStart(guest, guest.anchor)
        end   == FindEnd(guest, start)
    IN  IF guest.anchor \notin AreaStart..(AreaEnd - 1) \/ end = start THEN NoImage
        ELSE [start |-> start, end |-> end, runs |-> Runs(guest, start, end)]

(* The run that has all of len cells from va, and whether there is one.      *)
InRun(run, va, len) == va >= run.va /\ va + len <= run.va + run.len
Copied(img, va, len) == \E i \in DOMAIN img.runs : InRun(img.runs[i], va, len)
RunAt(img, va) == img.runs[CHOOSE i \in DOMAIN img.runs : InRun(img.runs[i], va, 1)]
=============================================================================
