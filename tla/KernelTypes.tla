---------------------------- MODULE KernelTypes ----------------------------
(* BTF, the kernel's description of its own types: the blob found in the     *)
(* copied image and checked (impl/kern/btf.c), and the struct fields, sizes  *)
(* and enumerators looked up in it (btf.c, impl/kern/kfield.c and the rv_*   *)
(* calls over them).  A blob is any guest bytes that carry the magic.        *)
(*                                                                           *)
(* A type of the section is a record [kind, name, kflag, st, items, elem,    *)
(* index, nelems, bits, boff, signed, char]: name an offset into the strings,*)
(* st its size-or-type word, items its members, enumerators, parameters or   *)
(* variables.  Widths are counted in bytes of ByteBits bits.                 *)
EXTENDS KernelSymbols, Binary

CONSTANTS
    StartBtf, StopBtf,  \* the names of __start_BTF and __stop_BTF
    CellBytes,  \* bytes of a cell of the image
    MaxDepth,   \* of a chain of types (btf.c:13)
    ByteBits,   \* bits of a byte
    MaxBlob,    \* the largest blob (btf.c:12)
    MaxSize,    \* INT64_MAX
    MaxField,   \* UINT32_MAX
    MaxStruct   \* KWALK_MAX_STRUCT

ASSUME TypeBounds ==
    /\ MaxDepth \in Nat /\ ByteBits \in Nat \ {0}
    /\ MaxSize \in Nat
    /\ MaxField \in Nat /\ MaxField >= 8
    /\ MaxStruct \in Nat /\ MaxStruct >= 9

VARIABLE btf        \* the parsed types, or NoBtf

NoName == ""        \* the name of what has none, or a name not given
NoBtf == [n |-> 0, types |-> <<>>, strs |-> <<>>, va |-> 0, len |-> 0, bySymbol |-> FALSE]
Bits(bytes) == bytes * ByteBits

---------------------------------------------------------------------------
(* The header: what it claims has to fit what is there.                      *)
HdrLen == 24
TypeEnd(h) == h.typeOff + h.typeLen
StrEnd(h)  == h.strOff + h.strLen
Total(h)   == h.hdrLen + Max({TypeEnd(h), StrEnd(h)})

CheckHdr(h, avail) ==
    /\ avail >= HdrLen
    /\ h.good                                   \* magic, version, flags
    /\ h.hdrLen >= HdrLen /\ h.hdrLen <= avail
    /\ h.hdrLen > HdrLen => h.zeroes            \* bytes past the known ones
    /\ h.typeOff % 4 = 0 /\ h.typeLen % 4 = 0
    /\ h.strLen # 0
    /\ h.typeOff >= StrEnd(h) \/ h.strOff >= TypeEnd(h)
    /\ Total(h) <= avail /\ Total(h) <= MaxBlob

---------------------------------------------------------------------------
Modifiers  == {"typedef", "const", "volatile", "restrict", "type_tag"}
Referring  == Modifiers \cup {"ptr", "func", "var", "decl_tag"}
Composite  == {"struct", "union"}
Enums      == {"enum", "enum64"}
Sized      == {"int", "float", "datasec"} \cup Composite \cup Enums
Kinds      == Referring \cup Sized \cup {"array", "fwd", "func_proto"}

(* Bytes of a type after its first twelve.                                   *)
ExtraLen(t) ==
    LET vlen == Len(t.items)
    IN  CASE t.kind \in {"int", "var", "decl_tag"} -> 4
          [] t.kind = "array" -> 12
          [] t.kind \in Composite \cup {"datasec", "enum64"} -> 12 * vlen
          [] t.kind \in {"enum", "func_proto"} -> 8 * vlen
          [] OTHER -> 0

(* How many types the section holds: it has to end where a type does.        *)
Starts(types) ==
    LET At[k \in 0..Len(types)] ==
            IF k = 0 THEN 0 ELSE At[k - 1] + 12 + ExtraLen(types[k])
    IN  At

Counts(h, types) ==
    {k \in 0..Len(types) : /\ Starts(types)[k] = h.typeLen
                           /\ \A j \in 1..k : types[j].kind \in Kinds}

(* check_refs: every name lies in the strings, every type is one of the n.   *)
PowersOfTwo == {1, 2, 4, 8, 16}

CheckRefs(t, n, strLen) ==
    LET Names == {t.name} \cup
                 IF t.kind \in Composite \cup Enums \cup {"func_proto"}
                 THEN {m.name : m \in ToSet(t.items)} ELSE {}
        Refs  == (IF t.kind \in Referring \cup {"func_proto"} THEN {t.st} ELSE {}) \cup
                 (IF t.kind = "array" THEN {t.elem, t.index} ELSE {}) \cup
                 (IF t.kind \in Composite \cup {"func_proto", "datasec"}
                  THEN {m.type : m \in ToSet(t.items)} ELSE {})
    IN  /\ \A s \in Names : s < strLen
        /\ \A r \in Refs : r < n
        /\ t.kind = "int" =>
              /\ t.st \in PowersOfTwo
              /\ t.bits \in 1..Bits(16) /\ t.boff + t.bits <= Bits(t.st)

(* parse_owned: all of the blob is believed, or none of it.                  *)
Parse(blob) ==
    LET h == blob.hdr
        counts == Counts(h, blob.types)
        count == CHOOSE k \in counts : TRUE
    IN  IF /\ CheckHdr(h, Total(h))
           /\ blob.terminated
           /\ counts # {}
           /\ \A id \in 1..count : CheckRefs(blob.types[id], count + 1, h.strLen)
        THEN [NoBtf EXCEPT !.n = count + 1, !.types = SubSeq(blob.types, 1, count),
                           !.strs = blob.strs, !.len = Total(h)]
        ELSE NoBtf

(* try_blob: the blob at an address of the image, if all of it is there.     *)
TryBlob(guest, img, va, most) ==
    LET run  == RunAt(img, va)
        room == Min({run.va + run.len - va, most}) * CellBytes
    IN  IF ~Copied(img, va, 1) \/ va \notin DOMAIN guest.blobs THEN NoBtf
        ELSE IF ~CheckHdr(guest.blobs[va].hdr, room) THEN NoBtf
        ELSE LET got == Parse(guest.blobs[va])
             IN  IF got = NoBtf THEN NoBtf ELSE [got EXCEPT !.va = va]

(* locate: where the symbols say, or the largest blob that parses on its     *)
(* own, the first of them.                                                   *)
Magic(h) == h.good /\ h.hdrLen = HdrLen

Locate(guest, img) ==
    LET start == ByName(sym, StartBtf)
        stop  == ByName(sym, StopBtf)
        named == IF start # 0 /\ stop # 0 /\ sym[stop].addr > sym[start].addr
                 THEN TryBlob(guest, img, sym[start].addr, sym[stop].addr - sym[start].addr)
                 ELSE NoBtf
        Found == {va \in DOMAIN guest.blobs :
                    Magic(guest.blobs[va].hdr) /\ TryBlob(guest, img, va, MaxBlob) # NoBtf}
        size(va) == Total(guest.blobs[va].hdr)
        best == CHOOSE va \in Found : \A other \in Found :
                    size(va) > size(other) \/ (size(va) = size(other) /\ va <= other)
    IN  IF named # NoBtf THEN [named EXCEPT !.bySymbol = TRUE]
        ELSE IF Found = {} THEN NoBtf ELSE TryBlob(guest, img, best, MaxBlob)

---------------------------------------------------------------------------
(* Queries.  Type 0 is void.                                                 *)
Void == [kind |-> "void", name |-> 0, kflag |-> FALSE, st |-> 0, items |-> <<>>]
Ids     == 0..(btf.n - 1)
Type(id) == IF id = 0 THEN Void ELSE btf.types[id]
Kind(id) == Type(id).kind
NameOf(t) == btf.strs[t.name + 1]

(* btf_find: the lowest id, a forward declaration only if nothing else.      *)
Find(name, kind) ==
    LET Named == {id \in Ids \ {0} : /\ NameOf(btf.types[id]) = name
                                     /\ kind \in {"any", Kind(id)}}
        Defs  == {id \in Named : kind # "any" \/ Kind(id) # "fwd"}
    IN  IF name = NoName \/ Named = {} THEN 0
        ELSE Min(IF Defs # {} THEN Defs ELSE Named)

(* btf_resolve: through typedefs and qualifiers, MaxDepth types at most.     *)
Resolve(id) ==
    LET R[left \in 0..MaxDepth] == [t \in Ids |->
            IF left = 0 THEN 0
            ELSE IF Kind(t) \in Modifiers THEN R[left - 1][Type(t).st] ELSE t]
    IN  R[MaxDepth][id]

(* btf_size; -1 for what has none.                                           *)
ArraySize(es, n) == IF es < 0 \/ es * n > MaxSize THEN -1 ELSE es * n

SizeFrom(sizes, t) ==
    CASE Kind(t) \in Sized -> Type(t).st
      [] Kind(t) = "ptr" -> 8
      [] Kind(t) = "array" -> ArraySize(sizes[Type(t).elem], Type(t).nelems)
      [] Kind(t) \in Modifiers \cup {"var"} -> sizes[Type(t).st]
      [] OTHER -> -1

Size(id) ==
    LET S[left \in 0..(MaxDepth + 1)] ==
            [t \in Ids |-> IF left = 0 THEN -1 ELSE SizeFrom(S[left - 1], t)]
    IN  S[MaxDepth + 1][id]

(* A member as declared, mt its type: without kflag, a bitfield is an int    *)
(* member whose encoding is narrower than its size.                          *)
Narrow(mt) == mt.kind = "int" /\ (mt.boff # 0 \/ mt.bits # Bits(mt.st))

DeclaredUnshifted(t, m, mt) ==
    [ok |-> TRUE, type |-> m.type, off |-> m.off,
     width |-> IF t.kflag THEN m.width ELSE IF Narrow(mt) THEN mt.bits ELSE 0]

Declared(t, m, mt) ==
    IF ~t.kflag /\ Narrow(mt)
    THEN [ok |-> TRUE, type |-> m.type, off |-> m.off + mt.boff, width |-> mt.bits]
    ELSE [ok |-> TRUE, type |-> m.type, off |-> m.off, width |-> IF t.kflag THEN m.width ELSE 0]

Shifted(m, base) == IF m.ok THEN [m EXCEPT !.off = @ + base] ELSE m

(* find_member: the first member of that name, anonymous ones searched in    *)
(* place.                                                                    *)
FindMember(id, name) ==
    LET F[left \in 0..(MaxDepth + 1)] == [s \in Ids |->
            LET Hit(t, m) ==
                    IF NameOf(m) = NoName THEN Shifted(F[left - 1][m.type], m.off)
                    ELSE IF NameOf(m) = name THEN Declared(t, m, Type(Resolve(m.type)))
                    ELSE No
                Among(t) ==
                    IF t.kind \notin Composite THEN No
                    ELSE Earliest({h \in {<<i, Hit(t, t.items[i])>> : i \in DOMAIN t.items} : h[2].ok}, No)
            IN  IF left = 0 THEN No ELSE Among(Type(Resolve(s)))]
    IN  F[MaxDepth + 1][id]

(* btf_member: a dotted path, one struct after the other; a bitfield ends it.*)
MemberIn(up, name) ==
    IF name = NoName \/ ~up.ok \/ up.width # 0 THEN No ELSE Shifted(FindMember(up.type, name), up.off)

Member(id, path) ==
    LET M[k \in 0..Len(path)] ==
            IF k = 0 THEN [ok |-> TRUE, type |-> id, off |-> 0, width |-> 0]
            ELSE MemberIn(M[k - 1], path[k])
    IN  M[Len(path)]

Pointee(id) ==
    LET t == Type(Resolve(id)) IN IF t.kind = "ptr" THEN Resolve(t.st) ELSE 0

---------------------------------------------------------------------------
(* Enumerators.  Values are the raw words of the section.                    *)
Signed(v, bits)  == IF v >= Pow2[bits - 1] THEN v - Pow2[bits] ELSE v
EnumBits(kind)   == IF kind = "enum" THEN Bits(4) ELSE Bits(8)

EnumName(id, val) ==
    LET t == Type(Resolve(id))
        Hits == {i \in DOMAIN t.items : t.items[i].val = val % Pow2[EnumBits(t.kind)]}
    IN  IF t.kind \notin Enums \/ Hits = {} THEN NoName ELSE NameOf(t.items[Min(Hits)])

EnumValue(id, name) ==
    LET t == Type(Resolve(id))
        Hits == {i \in DOMAIN t.items : NameOf(t.items[i]) = name}
        raw  == t.items[Min(Hits)].val
    IN  IF t.kind \notin Enums \/ Hits = {} THEN No
        ELSE [ok |-> TRUE, val |-> IF t.kind = "enum64" \/ t.kflag
                                   THEN Signed(raw, EnumBits(t.kind)) ELSE raw]

---------------------------------------------------------------------------
(* kfield.c: what a struct or union name means, and a field of it.           *)
FieldType(tag, name) ==
    LET struct  == Find(name, "struct")
        union   == Find(name, "union")
        typedef == Find(name, "typedef")
    IN  IF tag # NoName THEN Find(name, tag)
        ELSE IF struct # 0 THEN struct
        ELSE IF union # 0 THEN union
        ELSE IF Kind(Resolve(typedef)) \in Composite THEN typedef ELSE 0

IsChar(id) ==
    LET t == Type(Resolve(id))
    IN  t.kind = "int" /\ t.st = 1 /\ (t.char \/ NameOf(t) = "char")

FieldKind(t, width) ==
    CASE t.kind = "int" -> IF width = 0 /\ t.st > 8 THEN "bytes"
                           ELSE IF t.signed THEN "s" ELSE "u"
      [] t.kind \in Enums -> "enum"
      [] t.kind = "ptr" -> "ptr"
      [] t.kind = "array" -> IF IsChar(t.elem) THEN "cstr" ELSE "bytes"
      [] OTHER -> "bytes"

(* kfield_resolve: where a field lies and how it is decoded, or why not.     *)
FieldAt(m, rid, t, size) ==
    LET bitAt == m.off % ByteBits
    IN  IF \/ rid = 0
           \/ m.width # 0 /\ (t.kind \notin {"int"} \cup Enums \/ m.width > Bits(8))
           \/ m.width = 0 /\ (bitAt # 0 \/ size < 0 \/ size > MaxField)
        THEN No
        ELSE [ok |-> TRUE, type |-> m.type, offset |-> m.off \div ByteBits, size |-> size,
              bitOff |-> bitAt, bitSize |-> m.width, kind |-> FieldKind(t, m.width),
              signed |-> \/ t.kind = "int" /\ FieldKind(t, m.width) # "bytes" /\ t.signed
                         \/ t.kind \in Enums /\ t.kflag,
              ref |-> IF t.kind \in Enums THEN rid ELSE Pointee(rid)]

FieldOf(m) ==
    IF ~m.ok THEN No
    ELSE FieldAt(m, Resolve(m.type), Type(Resolve(m.type)),
                 IF m.width = 0 THEN Size(m.type)
                 ELSE ((m.off % ByteBits) + m.width + ByteBits - 1) \div ByteBits)

Field(id, path) == FieldOf(IF id = 0 THEN No ELSE Member(id, path))

(* The bytes as one little-endian number: read from the last to the first.   *)
Little(p) ==
    LET V[k \in 0..Len(p)] ==
            IF k = 0 THEN 0 ELSE V[k - 1] * Pow2[ByteBits] + p[Len(p) - k + 1]
    IN  V[Len(p)]

(* kfield_decode, of the field's own bytes.                                  *)
Value(f, u, s) ==
    [ok |-> TRUE, u |-> u, s |-> s,
     name |-> IF f.kind = "enum" THEN EnumName(f.ref, IF f.signed THEN s ELSE u) ELSE NoName]

Decode(f, p) ==
    LET bits == IF f.bitSize # 0 THEN f.bitSize ELSE Bits(f.size)
        u    == (Little(p) \div Pow2[f.bitOff]) % Pow2[bits]
        nuls == {i \in DOMAIN p : p[i] = 0}
    IN  IF f.kind \in {"bytes", "cstr"}
        THEN [ok |-> TRUE, bytes |-> IF f.kind = "cstr" /\ nuls # {}
                                     THEN SubSeq(p, 1, Min(nuls) - 1) ELSE p]
        ELSE IF bits = 0 \/ bits > Bits(8) THEN No
        ELSE Value(f, u, IF f.signed \/ bits = Bits(8) THEN Signed(u, bits) ELSE u)

(* kfield_read and rv_field_read: a field of a struct in guest memory.       *)
FieldRead(f, object) ==
    IF ~f.ok THEN No
    ELSE IF f.size > MaxStruct \/ f.offset + f.size > Len(object) THEN No
    ELSE Decode(f, SubSeq(object, f.offset + 1, f.offset + f.size))

(* kwalk_read_struct: a whole struct, if the caller's buffer takes it.       *)
FindStruct(name) ==
    IF Find(name, "struct") # 0 THEN Find(name, "struct")
    ELSE IF Find(name, "union") # 0 THEN Find(name, "union")
    ELSE Resolve(Find(name, "typedef"))

StructRead(name, room, object) ==
    LET id   == FindStruct(name)
        size == IF id = 0 THEN -1 ELSE Size(id)
    IN  IF size <= 0 \/ size > MaxStruct \/ size > room \/ size > Len(object) THEN No
        ELSE [ok |-> TRUE, bytes |-> SubSeq(object, 1, size)]

---------------------------------------------------------------------------
(* The calls of bind/rv_kern.c over the types.                               *)
Bare == <<"struct", "union", "typedef", "enum", "enum64", "int">>

RvFindType(tag, name) ==
    LET Hits == {i \in DOMAIN Bare : Find(name, Bare[i]) # 0}
    IN  IF tag = "enum" /\ Find(name, "enum") = 0 THEN Find(name, "enum64")
        ELSE IF tag # NoName THEN Find(name, tag)
        ELSE IF Hits = {} THEN 0 ELSE Find(name, Bare[Min(Hits)])

RvTypeSize(tag, name) ==
    LET id == RvFindType(tag, name)
    IN  IF id = 0 \/ Size(id) < 0 THEN No ELSE [ok |-> TRUE, size |-> Size(id)]

RvEnum(name) == IF RvFindType("enum", name) # 0 THEN RvFindType("enum", name)
                ELSE RvFindType(NoName, name)

(* rv_enum_value: of one enum, or the first enum that has the enumerator.    *)
RvEnumValue(enum, name) ==
    LET Holders == {id \in Ids \ {0} : Kind(id) \in Enums /\ EnumValue(id, name).ok}
    IN  IF enum # NoName THEN IF RvEnum(enum) = 0 THEN No ELSE EnumValue(RvEnum(enum), name)
        ELSE IF Holders = {} THEN No ELSE EnumValue(Min(Holders), name)

RvEnumName(enum, val) ==
    LET name == IF RvEnum(enum) = 0 THEN NoName ELSE EnumName(RvEnum(enum), val)
    IN  [ok |-> name # NoName, name |-> name]

---------------------------------------------------------------------------
Answered(q) ==
    CASE q.fn = "field" -> FieldRead(Field(FieldType(q.tag, q.name), q.path), q.object)
      [] q.fn = "struct" -> StructRead(q.name, q.room, q.object)
      [] q.fn = "size" -> RvTypeSize(q.tag, q.name)
      [] q.fn = "value" -> RvEnumValue(q.enum, q.name)
      [] q.fn = "name" -> RvEnumName(q.enum, q.val)

---------------------------------------------------------------------------
(* The layout BTF describes, said without depth-first searches: the end of a *)
(* chain of typedefs and qualifiers is the type it leads to; a name is at    *)
(* the least path of member indexes that leads to it through anonymous       *)
(* members; a value is the bits at its place.                                *)
LeadsTo(id, t, most) ==
    \E k \in 1..most : \E c \in [1..k -> Ids] :
        /\ c[1] = id /\ c[k] = t
        /\ \A j \in 1..(k - 1) : Kind(c[j]) \in Modifiers /\ c[j + 1] = Type(c[j]).st

EndOf(id) ==
    LET Ends == {t \in Ids : Kind(t) \notin Modifiers /\ LeadsTo(id, t, MaxDepth)}
    IN  IF Ends = {} THEN 0 ELSE CHOOSE t \in Ends : TRUE

Indexes == UNION {DOMAIN btf.types[id].items : id \in Ids \ {0}}
Routes  == UNION {[1..k -> Indexes] : k \in 1..(MaxDepth + 1)}

Step(at, i) ==
    LET t == Type(EndOf(at.id))
    IN  IF at.open /\ t.kind \in Composite /\ i \in DOMAIN t.items
        THEN [id |-> t.items[i].type, off |-> at.off + t.items[i].off, open |-> NameOf(t.items[i]) = NoName,
              name |-> NameOf(t.items[i]), width |-> IF t.kflag THEN t.items[i].width ELSE 0,
              old |-> ~t.kflag]
        ELSE [at EXCEPT !.open = FALSE, !.name = NoName]

Follow(id, route) ==
    LET F[k \in 0..Len(route)] ==
            IF k > 0 THEN Step(F[k - 1], route[k])
            ELSE [id |-> id, off |-> 0, open |-> TRUE, name |-> NoName, width |-> 0, old |-> FALSE]
    IN  F[Len(route)]

Earlier(p, q) ==
    \E k \in DOMAIN p \cap DOMAIN q : p[k] < q[k] /\ \A j \in 1..(k - 1) : p[j] = q[j]

(* The place of a member: where its bits start, and how many.                *)
Bitfield(m, t) ==
    LET narrow == m.old /\ Narrow(t)
    IN  [ok |-> TRUE, id |-> m.id, off |-> m.off + (IF narrow THEN t.boff ELSE 0),
         width |-> IF narrow THEN t.bits ELSE m.width]

FirstOf(id, leading) ==
    LET m == Follow(id, CHOOSE p \in leading : \A q \in leading : q = p \/ Earlier(p, q))
    IN  IF leading = {} THEN No ELSE Bitfield(m, Type(EndOf(m.id)))

Place(id, name) == FirstOf(id, {p \in Routes : Follow(id, p).name = name})

Inside(up, name) ==
    IF name = NoName \/ ~up.ok \/ up.width # 0 THEN No ELSE Shifted(Place(up.id, name), up.off)

PlaceOf(id, path) ==
    LET P[k \in 0..Len(path)] ==
            IF k = 0 THEN [ok |-> TRUE, id |-> id, off |-> 0, width |-> 0]
            ELSE Inside(P[k - 1], path[k])
    IN  P[Len(path)]

Bit(object, k) == (object[(k \div ByteBits) + 1] \div Pow2[k % ByteBits]) % 2

BitsAt(object, off, width) ==
    LET B[k \in 0..width] == IF k = 0 THEN 0 ELSE B[k - 1] + Bit(object, off + k - 1) * Pow2[k - 1]
    IN  B[width]

(* An enum of a C program: each of its enumerators has a name of its own.    *)
OwnNames(t) ==
    \A i, j \in DOMAIN t.items :
        NameOf(t.items[i]) # NoName /\ (NameOf(t.items[i]) = NameOf(t.items[j]) => i = j)

(* A field that is answered is the bits BTF puts it at, read as its type     *)
(* says, and its enumerator's name stands for that value, in the bits an     *)
(* enumerator has; a field that is not has no place, no readable type, or    *)
(* lies outside the struct (kfield.h:42-48).                                 *)
IsAt(q, a, m, t, width) ==
    LET fits  == m.off + width <= Bits(Len(q.object)) /\ width <= Bits(MaxStruct)
        scalar == t.kind \in {"int", "ptr"} \cup Enums /\ width \in 1..Bits(8)
        below  == IF t.kind = "int" THEN t.signed ELSE t.kflag
    IN  /\ scalar /\ fits /\ (m.width # 0 => t.kind # "ptr")
              /\ (m.width = 0 => m.off % ByteBits = 0) => a.ok
        /\ a.ok /\ scalar =>
              /\ a.u = BitsAt(q.object, m.off, width)
              /\ a.s = IF below \/ width = Bits(8) THEN Signed(a.u, width) ELSE a.u
              /\ a.name # NoName /\ OwnNames(t) =>
                    (EnumValue(EndOf(m.id), a.name).val - (IF below THEN a.s ELSE a.u))
                        % Pow2[EnumBits(t.kind)] = 0

FieldTrue(q, a, m) ==
    IF ~m.ok THEN ~a.ok
    ELSE IsAt(q, a, m, Type(EndOf(m.id)), IF m.width # 0 THEN m.width ELSE Bits(Size(m.id)))

FieldsTrue ==
    /\ ask.fn = "field" =>
          LET id == FieldType(ask.tag, ask.name)
          IN  FieldTrue(ask, answer, IF id = 0 THEN No ELSE PlaceOf(id, ask.path))
    /\ ask.fn = "value" /\ ask.enum # NoName /\ answer.ok
          /\ OwnNames(Type(Resolve(RvEnum(ask.enum)))) =>
          LET again == RvEnumName(ask.enum, answer.val)
          IN  again.ok /\ EnumValue(RvEnum(ask.enum), again.name).val = answer.val
=============================================================================
