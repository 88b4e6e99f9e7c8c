------------------------------ MODULE MCKernel ------------------------------
(* Guests for Kernel: images laid out as kernels of each layout and mode     *)
(* build them, the same with one cell changed or one page unmapped, images   *)
(* with many type tables, and guests whose structures are walked.            *)
EXTENDS Kernel

CONSTANT unmapped

Strs == <<"", "a", "b", "s", "t", "e", "char", "task_struct", "comm", "l", "list_head", "hlist_node",
          "rb_node", "__rb_parent_color", "rb_right", "rb_left", "idr", "idr_rt", "xa_head",
          "idr_base", "xa_node", "shift", "offset", "parent", "slots">>
Str(n) == (CHOOSE i \in DOMAIN Strs : Strs[i] = n) - 1

---------------------------------------------------------------------------
(* The tables of an image.  Names are sequences of tokens; the characters    *)
(* they stand for are numbers.                                               *)
Start  == AreaStart + ChunkCells
TokenStrings == <<<<5>>, <<7>>, <<6>>, <<6, 5>>, <<7, 6>>, <<5, 7>>, <<5, 5>>, <<6, 7>>>>
Chars(tokens) == FlattenSeq([k \in DOMAIN tokens |-> TokenStrings[tokens[k] + 1]])
Even(s) == IF Len(s) % 2 = 0 THEN s ELSE Append(s, 0)
Each(s, Op(_)) == [k \in DOMAIN s |-> Op(s[k])]

Named(tokens, addr) == [tokens |-> tokens, addr |-> addr]
Encoded(s) == (IF Len(s.tokens) < LongEntry THEN <<Len(s.tokens)>>
               ELSE <<LongEntry + (Len(s.tokens) % LongEntry), Len(s.tokens) \div LongEntry>>) \o s.tokens
Decoded(s) == [addr |-> s.addr, type |-> Chars(s.tokens)[1], name |-> Tail(Chars(s.tokens))]

Tables(layout, mode, syms) ==
    LET n       == Len(syms)
        entries == Each(syms, Encoded)
        at(i)   == Len(FlattenSeq(SubSeq(entries, 1, i - 1)))
        names   == Even(FlattenSeq(entries))
        markers == Even([k \in 1..Ceil(n) |-> at((k - 1) * Every + 1)])
        tokens  == Even(FlattenSeq(Each(TokenStrings, LAMBDA t : Append(t, 0))))
        index   == [k \in DOMAIN TokenStrings |->
                      Len(FlattenSeq(SubSeq(TokenStrings, 1, k - 1))) + k - 1]
        seqs    == Even([i \in 1..n |-> n - i])
        offset(s) == IF mode = "relative" THEN s.addr - Start
                     ELSE IF s.addr < Start THEN s.addr ELSE U32 - 1 - (s.addr - Start)
        offsets == Even(Each(syms, offset)) \o <<Start, 0>>
        count   == <<n, 0>>
    IN  CASE layout = "v5"   -> offsets \o count \o names \o markers \o tokens \o index
          [] layout = "v6_2" -> offsets \o count \o names \o markers \o seqs \o tokens \o index
          [] layout = "v6_4" -> count \o names \o markers \o tokens \o index \o offsets \o seqs

(* The image: a stray row of digits, then the tables.                        *)
TablesAt == Start + 16
Placed(s, at) == [va \in at..(at + Len(s) - 1) |-> s[va - at + 1]]
Image(tables) ==
    Placed(<<0, 7, 0, 6, 0, 7>>, Start) @@ Placed(tables, TablesAt)
    @@ [va \in Start..(Start + 2 * ChunkCells - 1) |-> 0]

---------------------------------------------------------------------------
(* Type tables.                                                              *)
Ty(kind, name, st) == [kind |-> kind, name |-> Str(name), kflag |-> FALSE, st |-> st, items |-> <<>>]
Num(name, st, bits, boff, signed, char) ==
    Ty("int", name, st) @@ [bits |-> bits, boff |-> boff, signed |-> signed, char |-> char]
Item(name, type, off, width) == [name |-> Str(name), type |-> type, off |-> off, width |-> width]
Comp(kind, name, kflag, items) == [Ty(kind, name, 4) EXCEPT !.kflag = kflag, !.items = items]
Struct(name, size, items) == [Comp("struct", name, FALSE, items) EXCEPT !.st = size]
En(kind, st, kflag, items) == [Ty(kind, "e", st) EXCEPT !.kflag = kflag, !.items = items]
Val(name, v) == [name |-> Str(name), val |-> v]
Arr(elem, n) == Ty("array", "", 0) @@ [elem |-> elem, index |-> 1, nelems |-> n]

TaskTypes(n) == <<Num("char", 1, 2, 0, FALSE, FALSE), Arr(n + 1, 3),
                  Struct("task_struct", 4, <<Item("comm", n + 2, 2, 0)>>)>>

Ints == <<Num("char", 1, 2, 0, FALSE, FALSE), Num("a", 2, 4, 0, TRUE, FALSE),
         Num("a", 2, 2, 1, TRUE, FALSE), Num("a", 8, 16, 0, TRUE, FALSE)>>
Outers == <<Comp("struct", "s", FALSE, <<Item("a", 1, 0, 0), Item("b", 3, 4, 0)>>),
           Comp("struct", "s", TRUE, <<Item("b", 3, 3, 2), Item("a", 1, 5, 3)>>),
           Comp("union", "s", FALSE, <<Item("", 3, 2, 0), Item("a", 4, 0, 0)>>),
           Comp("struct", "s", FALSE, <<Item("", 4, 2, 0), Item("", 3, 4, 0)>>),
           Comp("struct", "t", FALSE, <<Item("a", 2, 2, 0), Item("b", 1, 1, 0)>>)>>
Inners == <<Comp("struct", "t", TRUE, <<Item("a", 1, 2, 0), Item("", 4, 4, 0)>>),
           Comp("union", "", FALSE, <<Item("a", 4, 1, 0), Item("b", 1, 2, 0)>>),
           Ty("typedef", "s", 4), Ty("const", "", 3), Ty("ptr", "", 2), Arr(1, 3), Ty("fwd", "s", 0),
           En("enum", 2, TRUE, <<Val("a", 255), Val("b", 1)>>),
           En("enum", 1, FALSE, <<Val("a", 3), Val("b", 1)>>), Ty("func_proto", "", 9)>>
Others == <<Comp("struct", "", FALSE, <<Item("b", 1, 0, 0), Item("", 3, 2, 0)>>),
           Ty("typedef", "b", 3), Ty("volatile", "", 1), En("enum64", 8, TRUE, <<Val("a", 65535)>>),
           En("enum64", 2, FALSE, <<Val("b", 7), Val("a", 65535)>>), Ty("var", "", 2)>>

(* What the walkers look up, and the same with a link and the slots wrong.   *)
WalkTypes(link, slots) ==
    <<Num("a", 8, 16, 0, FALSE, FALSE), Ty("ptr", "", 0), Struct(link, 16, <<Item("a", 2, 0, 0)>>),
      Struct("hlist_node", 16, <<Item("a", 2, 0, 0)>>),
      Struct("l", 48, <<Item("a", 3, 32, 0), Item("b", 4, 64, 0)>>),
      Struct("rb_node", 24, <<Item("__rb_parent_color", 1, 0, 0), Item("rb_right", 2, 16, 0),
                              Item("rb_left", 2, 32, 0)>>),
      Struct("", 8, <<Item("xa_head", 2, 0, 0)>>),
      Struct("idr", 16, <<Item("idr_rt", 7, 0, 0), Item("idr_base", 1, 16, 0)>>),
      Struct("xa_node", 40, <<Item("shift", 1, 0, 0), Item("offset", 1, 16, 0), Item("parent", 2, 32, 0),
                              Item("slots", 10, 48, 0)>>), Arr(2, slots)>>

Length(types) == Starts(types)[Len(types)]
Blob(types) ==
    LET all == types \o TaskTypes(Len(types))
    IN  [hdr |-> [good |-> TRUE, hdrLen |-> HdrLen, zeroes |-> TRUE, typeOff |-> 0,
                  typeLen |-> Length(all), strOff |-> Length(all), strLen |-> Len(Strs)],
         terminated |-> TRUE, types |-> all, strs |-> Strs]
Truncated(blob) == [blob EXCEPT !.hdr.typeLen = @ - 4]

---------------------------------------------------------------------------
(* Guests.  The symbols of one with all that is looked up, and of a small    *)
(* one; a per-cpu variable lies below the image or above the text.           *)
Text   == Named(<<0, 2>>, Start)
Banner == Named(<<0, 2, 2>>, Start + 6)
Init   == Named(<<0, 3>>, Start + 8)
Few    == <<Text, Banner, Init>>
Many(mode) ==
    LET var == <<0, 7>>
        all == <<Text, Banner, Init, Named(<<0, 0, 0>>, Start + 10), Named(<<0, 1>>, Start + 12),
                 Named(<<0, 0>>, Start + 14), Named(<<0, 3>>, Start + 14)>>
        stop == Named(<<0, 0, 2, 0, 2>>, Start + 127)
    IN  IF mode = "percpu" THEN <<Named(var, 3)>> \o all \o <<stop>>
        ELSE all \o <<Named(var, Start + 120), stop>>

Release(layout, mode) ==
    CASE layout = "v5" /\ mode = "percpu"     -> [major |-> 5, minor |-> 15, smp |-> TRUE]
      [] layout = "v5" /\ mode = "relative"   -> [major |-> 4, minor |-> 6, smp |-> FALSE]
      [] layout = "v6_2" /\ mode = "percpu"   -> [major |-> 6, minor |-> 3, smp |-> TRUE]
      [] layout = "v6_2" /\ mode = "relative" -> [major |-> 6, minor |-> 2, smp |-> FALSE]
      [] layout = "v6_4" /\ mode = "percpu"   -> [major |-> 6, minor |-> 14, smp |-> TRUE]
      [] layout = "v6_4" /\ mode = "relative" -> [major |-> 6, minor |-> 15, smp |-> TRUE]
BannerOf(layout, mode) == Release(layout, mode) @@ [linux |-> TRUE, terminated |-> TRUE, release |-> TRUE]

Built(layout, mode, syms, blobs) ==
    [mapped |-> {PageOf(Start) + k : k \in 0..(2 * ChunkPages - 1)},
     cells |-> Image(Tables(layout, mode, syms)),
     blobs |-> blobs,
     banners |-> ((Start + 1) :> [BannerOf(layout, mode) EXCEPT !.linux = FALSE])
                 @@ ((Start + 6) :> BannerOf(layout, mode)),
     anchor |-> Start + ChunkCells + 5, task |-> <<3, 1, 2, 0, 3>>,
     asks |-> {}, walked |-> FALSE, intact |-> TRUE,
     symbols |-> Each(syms, Decoded), btfAt |-> Start + 10]

Layouts == {"v5", "v6_2", "v6_4"} \X {"percpu", "relative"}
Magics == ((Start + 3) :> Truncated(Blob(WalkTypes("list_head", 2)))) @@ ((Start + 10) :> Blob(<<>>))

SymbolAsks ==
    {[fn |-> "sym", name |-> n] : n \in {<<6>>, <<6, 5>>, <<6, 7>>, <<5, 6, 5, 6>>, <<7, 7>>}}
    \cup {[fn |-> "symat", va |-> Start + d] : d \in {-1, 0, 5, 6, 14, 119, 127, 128}}
    \cup {[fn |-> "ksyms", first |-> i, max |-> 3] : i \in {0, 7, 9}}

Kernels ==
    [n \in {"many", "few"} \X Layouts |->
        [Built(n[2][1], n[2][2], IF n[1] = "many" THEN Many(n[2][2]) ELSE Few, Magics)
            EXCEPT !.asks = SymbolAsks]]

(* One thing changed in what a kernel built.  Small cells stay bytes.        *)
Damaged(l) == [Kernels[<<"many", l>>] EXCEPT !.intact = FALSE]

Changed(c, k) == IF c < NTokens THEN <<(c + 1) % NTokens, 5>>[k] ELSE <<c + 1, U32 - 3>>[k]
CellsChanged ==
    [n \in {"cell"} \X Layouts \X (TablesAt..(Start + 127)) \X (1..2) |->
        [Damaged(n[2]) EXCEPT !.cells[n[3]] = Changed(@, n[4])]]

Blobs == <<Truncated(Blob(<<>>)), [Blob(<<>>) EXCEPT !.terminated = FALSE],
           [Blob(<<>>) EXCEPT !.hdr.strOff = 4], [Blob(<<>>) EXCEPT !.hdr.strLen = 1000],
           Blob(<<Ty("typedef", "a", 5)>>)>>
Tasks == <<<<3, 3, 2, 0, 3>>, <<3, 1, 2>>, <<3, 1, 2, 3>>>>
Banners(l) ==
    LET b == BannerOf(l[1], l[2])
    IN  <<[b EXCEPT !.linux = FALSE], [b EXCEPT !.terminated = FALSE], [b EXCEPT !.release = FALSE],
          [b EXCEPT !.smp = ~@], [b EXCEPT !.minor = 0], [b EXCEPT !.minor = 5]>>

PartsChanged ==
    [n \in {"page"} \X Layouts \X (0..3) |->
        [Damaged(n[2]) EXCEPT !.mapped = @ \ {PageOf(Start) + n[3]}]]
    @@ [n \in {"blob"} \X Layouts \X (DOMAIN Blobs) |->
        [Damaged(n[2]) EXCEPT !.blobs = (Start + 10) :> Blobs[n[3]]]]
    @@ [n \in {"task"} \X Layouts \X (DOMAIN Tasks) |-> [Damaged(n[2]) EXCEPT !.task = Tasks[n[3]]]]
    @@ [n \in {"banner"} \X Layouts \X (1..6) |->
        [Damaged(n[2]) EXCEPT !.banners[Start + 6] = Banners(n[2])[n[3]]]]
    @@ [n \in {"second"} \X Layouts \X Layouts |->
        [Damaged(n[2]) EXCEPT !.banners = @ @@ ((Start + 4) :> BannerOf(n[3][1], n[3][2]))]]
    @@ [n \in {"anchor"} \X Layouts \X {0} |-> [Damaged(n[2]) EXCEPT !.anchor = AreaEnd]]

Long  == <<1, 2, 3, 0, 2, 1, 3, 3, 0, 1, 2, 3>>
Short == <<3, 3, 0, 1, 3, 2>>
FieldAsks ==
    {[fn |-> "field", tag |-> "", name |-> n, path |-> p, object |-> o] :
        n \in {"s", "t"}, p \in {<<"a">>, <<"b">>, <<"a", "b">>, <<"b", "a">>}, o \in {Long, Short}}
    \cup {[fn |-> "field", tag |-> "struct", name |-> "s", path |-> p, object |-> Long] :
        p \in {<<"a">>, <<"b">>}}
    \cup {[fn |-> "struct", name |-> "s", room |-> 5, object |-> <<1, 2, 3, 0, 2>>]}
    \cup {[fn |-> "size", tag |-> "", name |-> n] : n \in {"s", "t", "b"}}
    \cup {[fn |-> "value", enum |-> e, name |-> n] : e \in {"", "e"}, n \in {"a", "b"}}
    \cup {[fn |-> "name", enum |-> e, val |-> v] : e \in {"s", "e"}, v \in {-1, 1, 3}}

Typed ==
    [n \in {"types"} \X (DOMAIN Ints) \X (DOMAIN Outers) \X (DOMAIN Inners) \X (DOMAIN Others) |->
        [Built("v6_4", "relative", Few,
               (Start + 10) :> Blob(<<Ints[n[2]], Outers[n[3]], Inners[n[4]], Others[n[5]]>>))
            EXCEPT !.asks = FieldAsks, !.intact = FALSE]]

Walked ==
    LET g(mode, syms, link, slots) ==
            [Built("v6_4", mode, syms, (Start + 10) :> Blob(WalkTypes(link, slots)))
                EXCEPT !.walked = TRUE]
    IN  [n \in {"walk"} \X {"percpu"} |-> g(n[2], Many(n[2]), "list_head", 2)]
        @@ (<<"no links">> :> g("percpu", Few, "a", 3))

MCDigits       == <<7, 0>>
MCTextName     == <<6>>
MCLinuxBanner  == <<6, 6>>
MCInitTask     == <<6, 5>>
MCNrCpuIds     == <<7>>
MCPerCpuOffset == <<5>>
MCStartBtf     == <<5, 5>>
MCStopBtf      == <<5, 6, 5, 6>>
MCPerCpuVars   == {<<6, 7>>}
MCSwapper      == <<1, 2>>
MCLinkMembers  == {<<"l", "a">>, <<"l", "b">>}

MCGuests == UNION {Range(f) : f \in {Kernels, CellsChanged, PartsChanged, Typed, Walked}}

---------------------------------------------------------------------------
(* Structures that may be anything: cyclic, cut, crossed, wild.  Root is the *)
(* head; Wild is no kernel address; Leaf is a pointer no node is at.         *)
Root  == 8192
Nd(k) == 8192 + 64 * k
Wild  == 8
Leaf  == 8192 + 4
Ptrs  == {0, Wild, Root, Nd(1), Nd(2), Nd(3)}
AnyWords == [a \in {Root, Wild} |-> Ptrs \cup {Nd(1) + 2, Leaf, 3, 6}]
AnyLinks == [a \in {Root, Nd(1), Nd(2), Nd(3)} |-> Ptrs]

Rb(parents, lefts, rights) == [parent : parents, left : lefts, right : rights]
AnyTrees == (Nd(1) :> Rb({0}, {0, Wild, Nd(2)}, {0, Nd(1), Nd(3)}))
    @@ (Nd(2) :> Rb({0, Nd(1)}, {0, Nd(3)}, {0, Nd(3), Nd(4)}))
    @@ (Nd(3) :> Rb({Nd(1), Nd(2)}, {0, Nd(4)}, {0, Nd(1), Nd(4)}))
    @@ (Nd(4) :> Rb({Nd(2), Nd(3)}, {0, Nd(2)}, {0}))

Xa(shifts, offsets, parents, slots) ==
    {[shift |-> s, offset |-> o, parent |-> p, slots |-> <<x, y>>] :
        s \in shifts, o \in offsets, p \in parents, x \in slots, y \in slots}
AnyXaNodes == (Nd(1) :> Xa({0, 1, 2, 3}, {0}, {0}, {0, 6, Leaf, Nd(2) + 2, Nd(3) + 2}))
    @@ (Nd(2) :> Xa({0, 1}, {0, 1}, {Nd(1)}, {0, 3, Leaf}))
    @@ (Nd(3) :> Xa({0}, {0, 1}, {Nd(1), Nd(2)}, {0, Leaf, Nd(1) + 2}))
    @@ (Nd(4) :> Xa({0}, {1}, {Nd(2)}, {Leaf}))
=============================================================================
