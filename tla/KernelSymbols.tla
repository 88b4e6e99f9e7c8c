--------------------------- MODULE KernelSymbols ---------------------------
(* The guest's own symbol table, kallsyms, found in the copied image by the  *)
(* shape of its parts and decoded (impl/kern/ksym.c), and the lookups in it. *)
(* Every scalar of the tables is one cell; what the code aligns to 8 bytes   *)
(* is aligned to 2 cells.                                                    *)
EXTENDS KernelImage

CONSTANTS
    Digits,         \* the cells of the digit tokens, "0" to "9" in the code
    FirstDigit,     \* the token they begin with (48)
    AfterDigits,    \* the token after them (58)
    NTokens,        \* 256
    Printable,      \* the characters tokens are made of
    TextName,       \* the characters of _text
    Every,          \* a marker for every so many names (256)
    LongEntry,      \* lengths from here on take two cells (128)
    MaxSyms,
    MaxName,        \* the longest expanded name, its type counted
    U32, U64        \* 2^32 and 2^64

ASSUME SymbolBounds ==
    /\ {FirstDigit, AfterDigits, NTokens, Every, LongEntry, MaxSyms, MaxName} \subseteq Nat \ {0}
    /\ FirstDigit < AfterDigits /\ AfterDigits <= NTokens
    /\ {U32, U64} \subseteq Nat \ {0} /\ U32 <= U64
    /\ Digits \in Seq(Nat)

VARIABLES
    sym,        \* the decoded table: a sequence of [addr, type, name]
    ask,        \* what a client asks of symbols or types
    answer      \* what it got

(* What the first that succeeds of several tries at numbered places gives.   *)
Earliest(Found, none) ==
    IF Found = {} THEN none
    ELSE (CHOOSE f \in Found : \A g \in Found : f[1] <= g[1])[2]

No    == [ok |-> FALSE]
NoAsk == [fn |-> "none"]

Align(x) == x + (x % 2)
Cell(guest, va) == guest.cells[va]
ZeroPad(guest, run, from, to) ==
    /\ to >= from /\ InRun(run, from, to - from)
    /\ \A va \in from..(to - 1) : Cell(guest, va) = 0

---------------------------------------------------------------------------
(* find_tokens: the token table around a run of digits, and the index that   *)
(* has to point at the start of each of its strings.                         *)
NoTokens == [tt |-> -1, ti |-> 0]

TokenEnds(guest, run, hit) ==
    LET NulAt(from) == {va \in from..(from + MaxName + 1) : InRun(run, va, 1) /\ Cell(guest, va) = 0}
        E[t \in (AfterDigits - 1)..(NTokens - 1)] ==
            LET from == E[t - 1]
                Nuls == IF from < 0 THEN {} ELSE NulAt(from)
            IN  IF t = AfterDigits - 1 THEN hit + Len(Digits)
                ELSE IF Nuls = {} THEN -1 ELSE Min(Nuls) + 1
    IN  E[NTokens - 1]

AreTokens(guest, run, hit, ttEnd, ti) ==
    LET idx(i)  == Cell(guest, ti + i)
        from(i) == hit - idx(FirstDigit) + idx(i)
        to(i)   == IF i < NTokens - 1 THEN from(i + 1) ELSE ttEnd
    IN  /\ InRun(run, hit - 1, 1) /\ Cell(guest, hit - 1) = 0
        /\ ttEnd >= 0
        /\ ZeroPad(guest, run, ttEnd, ti)
        /\ InRun(run, ti, NTokens)
        /\ idx(0) = 0
        /\ idx(FirstDigit) <= hit - run.va
        /\ from(0) % 2 = 0
        /\ \A i \in 0..(NTokens - 1) :
             /\ to(i) > from(i)
             /\ \A va \in from(i)..(to(i) - 2) : InRun(run, va, 1) /\ Cell(guest, va) \in Printable
             /\ InRun(run, to(i) - 1, 1) /\ Cell(guest, to(i) - 1) = 0

FindTokens(guest, run, hit) ==
    LET ttEnd == TokenEnds(guest, run, hit)
        ti    == Align(ttEnd)
    IN  IF AreTokens(guest, run, hit, ttEnd, ti)
        THEN [tt |-> hit - Cell(guest, ti + FirstDigit), ti |-> ti] ELSE NoTokens

---------------------------------------------------------------------------
(* The markers lie before the token table, the names before the markers, the *)
(* number of names before the names.                                         *)
CheckMarkers(guest, run, m, count) ==
    /\ InRun(run, m, count)
    /\ Cell(guest, m) = 0
    /\ \A i \in 1..(count - 1) : Cell(guest, m + i) - Cell(guest, m + i - 1) >= 2 * Every

(* entry_len: one or two cells of length, then that many token numbers.      *)
Entry(guest, run, va) ==
    LET b0 == Cell(guest, va)
        b1 == Cell(guest, va + 1)
        long == InRun(run, va, 1) /\ b0 >= LongEntry
        hdr == IF long THEN 2 ELSE 1
        len == IF long THEN b0 - LongEntry + b1 * LongEntry ELSE b0
    IN  IF /\ InRun(run, va, hdr)
           /\ long => b1 < LongEntry
           /\ len # 0 /\ InRun(run, va + hdr, len)
        THEN [ok |-> TRUE, from |-> va + hdr, next |-> va + hdr + len]
        ELSE [ok |-> FALSE, from |-> va, next |-> va]

(* The cells of the longest entry.                                           *)
MaxEntry == 2 + (LongEntry * LongEntry - 1)

(* Where the first n entries start; nothing after a bad one.                 *)
Positions(guest, run, names, n) ==
    LET P[i \in 0..n] ==
            LET ps == P[i - 1]
                e  == Entry(guest, run, Last(ps))
            IN  IF i = 0 THEN <<names>> ELSE IF e.ok THEN Append(ps, e.next) ELSE ps
    IN  P[n]

Ceil(n) == (n + Every - 1) \div Every

(* check_names: every Every-th entry starts at its marker, and the stream    *)
(* ends where the padding before the markers begins.                         *)
CheckNames(guest, run, names, n, m, count) ==
    LET ps == Positions(guest, run, names, n)
    IN  /\ Ceil(n) = count
        /\ Len(ps) = n + 1
        /\ \A i \in 1..n : (i - 1) % Every = 0 => ps[i] - names = Cell(guest, m + (i - 1) \div Every)
        /\ Align(ps[n + 1]) = m /\ ZeroPad(guest, run, ps[n + 1], m)

(* find_names: the nearest count below the last block of names that fits.    *)
NoNames == [n |-> 0, at |-> 0, markers |-> 0, seqs |-> 0]

FindNames(guest, run, m, count, want) ==
    LET last   == Cell(guest, m + count - 1)
        Counts == IF want # 0 THEN {want} ELSE ((count - 1) * Every + 1)..(count * Every)
        top    == ((m - last - 4) \div 2) * 2
        span   == Every * MaxEntry + 2
        bottom == IF top - run.va > span THEN top - span ELSE run.va
        Fits   == {x \in bottom..top :
                    /\ x % 2 = 0
                    /\ Cell(guest, x) \in Counts /\ Cell(guest, x + 1) = 0
                    /\ CheckNames(guest, run, x + 2, Cell(guest, x), m, count)}
    IN  IF m < run.va + last + 4 \/ Fits = {} THEN NoNames
        ELSE [n |-> Cell(guest, Max(Fits)), at |-> Max(Fits), markers |-> m, seqs |-> 0]

CheckSeqs(guest, run, va, n) ==
    InRun(run, va, n) /\ \A i \in 0..(n - 1) : Cell(guest, va + i) < n

(* locate_names: from 6.2 the sequence numbers lie between markers and       *)
(* tokens, so their number is tried; else the number of markers is.          *)
Before62(guest, run, tt, count) ==
    LET m == tt - Align(count)
    IN  IF /\ m >= run.va /\ CheckMarkers(guest, run, m, count)
           /\ ZeroPad(guest, run, m + count, tt)
        THEN FindNames(guest, run, m, count, 0) ELSE NoNames

From62(guest, run, tt, n) ==
    LET s == tt - Align(n)
        m == s - Align(Ceil(n))
    IN  IF /\ m >= run.va
           /\ CheckMarkers(guest, run, m, Ceil(n)) /\ ZeroPad(guest, run, m + Ceil(n), s)
           /\ CheckSeqs(guest, run, s, n) /\ ZeroPad(guest, run, s + n, tt)
        THEN [FindNames(guest, run, m, Ceil(n), n) EXCEPT !.seqs = s] ELSE NoNames

LocateNames(guest, run, layout, tt) ==
    LET Try(k) == IF layout = "v6_2" THEN From62(guest, run, tt, k) ELSE Before62(guest, run, tt, k)
    IN  Earliest({f \in {<<k, Try(k)>> : k \in 1..MaxSyms} : f[2].n # 0}, NoNames)

---------------------------------------------------------------------------
(* expand: the strings of an entry's tokens, one after the other.            *)
Token(guest, t, i) ==
    LET from == t.tt + Cell(guest, t.ti + i)
        nul  == Min({va \in from..t.ti : Cell(guest, va) = 0})
    IN  [k \in 1..(nul - from) |-> Cell(guest, from + k - 1)]

Expanded(guest, t, entry) ==
    FlattenSeq([k \in 1..(entry.next - entry.from) |-> Token(guest, t, Cell(guest, entry.from + k - 1))])

(* A cell of kallsyms_offsets, as the kernel's addressing mode reads it.     *)
AddressOneUp(mode, base, off) ==
    IF mode = "relative" THEN (base + off) % U64
    ELSE IF off < U32 \div 2 THEN off
    ELSE (base + U32 - off) % U64

Address(mode, base, off) ==
    IF mode = "relative" THEN (base + off) % U64
    ELSE IF off < U32 \div 2 THEN off
    ELSE (base - 1 + U32 - off) % U64

ByName(table, name) ==
    LET Named == {i \in DOMAIN table : table[i].name = name}
    IN  IF Named = {} THEN 0 ELSE Min(Named)

(* decode: the whole table, which has to rise and to put _text where the     *)
(* image starts.                                                             *)
NoTable == <<>>

Spelled(guest, run, t, names) ==
    LET ps == Positions(guest, run, names.at + 2, names.n)
    IN  [i \in 1..names.n |-> Expanded(guest, t, Entry(guest, run, ps[i]))]

IsTable(table, img) ==
    LET text == ByName(table, TextName)
    IN  /\ \A i \in 2..Len(table) : table[i].addr >= table[i - 1].addr
        /\ text # 0 /\ table[text].addr = img.start

SymTable(guest, run, img, cfg, chars, offsets, relbase) ==
    LET base  == Cell(guest, relbase) + Cell(guest, relbase + 1) * U32
        table == [i \in DOMAIN chars |->
                    [addr |-> Address(cfg.addr, base, Cell(guest, offsets + i - 1)),
                     type |-> chars[i][1],
                     name |-> [k \in 1..(Len(chars[i]) - 1) |-> chars[i][k + 1]]]]
    IN  IF /\ InRun(run, relbase, 2) /\ base \in img.start..(img.end - 1)
           /\ InRun(run, offsets, Len(chars))
           /\ \A i \in DOMAIN chars : Len(chars[i]) \in 2..(MaxName - 1)
           /\ IsTable(table, img)
        THEN table ELSE NoTable

(* try_hit: from 6.4 offsets, base and sequence numbers follow the token     *)
(* index; before, offsets and base lie in front of the number of names.      *)
TryNames(guest, run, img, cfg, t, names) ==
    LET olen  == Align(names.n)
        late  == cfg.layout = "v6_4"
        offsets == IF late THEN t.ti + NTokens ELSE names.at - 2 - olen
        relbase == offsets + olen
    IN  IF names = NoNames THEN NoTable
        ELSE IF ~late /\ names.at - run.va < 2 + olen THEN NoTable
        ELSE IF ~ZeroPad(guest, run, offsets + names.n, relbase) THEN NoTable
        ELSE IF late /\ ~CheckSeqs(guest, run, relbase + 2, names.n) THEN NoTable
        ELSE SymTable(guest, run, img, cfg, Spelled(guest, run, t, names), offsets, relbase)

TryTokens(guest, run, img, cfg, t) ==
    IF t = NoTokens THEN NoTable
    ELSE TryNames(guest, run, img, cfg, t, LocateNames(guest, run, cfg.layout, t.tt))

TryHit(guest, run, img, cfg, hit) ==
    TryTokens(guest, run, img, cfg, FindTokens(guest, run, hit))

(* ksym_load: the first digits, in address order, around which all fits.     *)
DigitHits(guest, run) ==
    {va \in run.va..(run.va + run.len - Len(Digits)) :
        \A k \in DOMAIN Digits : Cell(guest, va + k - 1) = Digits[k]}

KsymLoad(guest, img, cfg) ==
    LET Hits == UNION {{<<i, va>> : va \in DigitHits(guest, img.runs[i])} : i \in DOMAIN img.runs}
    IN  Earliest({g \in {<<h[2], TryHit(guest, img.runs[h[1]], img, cfg, h[2])>> : h \in Hits} :
                    g[2] # NoTable}, NoTable)

---------------------------------------------------------------------------
(* ksym_by_addr: the last symbol at or below an address, by halving.         *)
ByAddr(table, addr) ==
    LET Above[lo \in 0..Len(table)] == [hi \in 0..Len(table) |->
            LET mid == lo + (hi - lo) \div 2
            IN  IF lo >= hi THEN lo
                ELSE IF table[mid + 1].addr <= addr THEN Above[mid + 1][hi] ELSE Above[lo][mid]]
    IN  Above[0][Len(table)]

(* rv_sym, rv_sym_at and rv_ksyms.                                           *)
RvSym(name) ==
    LET i == ByName(sym, name)
    IN  IF i = 0 THEN No ELSE [ok |-> TRUE, addr |-> sym[i].addr]

RvSymAt(img, va) ==
    LET i == IF va \in img.start..(img.end - 1) THEN ByAddr(sym, va) ELSE 0
    IN  IF i = 0 THEN No ELSE [ok |-> TRUE, sym |-> sym[i]]

RvKsyms(first, max) ==
    [ok |-> TRUE, total |-> Len(sym), syms |-> SubSeq(sym, first + 1, Min({first + max, Len(sym)}))]

---------------------------------------------------------------------------
(* The version in a banner picks layout and addressing (ksym.c:457-481).     *)
NoCfg == [layout |-> "none", addr |-> "none"]

CfgFromBanner(b) ==
    LET v == b.major * 1000 + b.minor
    IN  IF ~b.linux \/ v < 4006 THEN NoCfg
        ELSE [layout |-> IF v < 6002 THEN "v5" ELSE IF v < 6004 THEN "v6_2" ELSE "v6_4",
              addr |-> IF v < 6015 /\ b.smp THEN "percpu" ELSE "relative"]
=============================================================================
