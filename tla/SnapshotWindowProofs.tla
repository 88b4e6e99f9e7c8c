------------------------- MODULE SnapshotWindowProofs -------------------------
(***************************************************************************)
(* What holds of a handle's snapshot window for any memory and any cache.   *)
(***************************************************************************)
EXTENDS SnapshotWindow, FiniteSetTheorems, TLAPS

(* TypeOK without the size of the cache. *)
Types ==
    /\ attached \in BOOLEAN /\ prof \in BOOLEAN /\ inWindow \in BOOLEAN
    /\ cache \in [Pages -> Nat \cup {Absent}]
    /\ got \in [page : Pages \cup {Absent}, content : Nat]
    /\ paused \in BOOLEAN /\ asked \in BOOLEAN /\ stuck \in BOOLEAN
    /\ mem \in [Pages -> Nat] /\ begun \in [Pages -> Nat]
    /\ own \in SUBSET Pages /\ let \in BOOLEAN
    /\ prof => attached
    /\ inWindow => prof
    /\ Cached # {} => inWindow

Fits == Cardinality(Cached) <= MaxPages

LEMMA Halves == TypeOK <=> Types /\ Fits
  BY DEF TypeOK, Types, Fits

LEMMA WrittenType == ASSUME mem \in [Pages -> Nat], NEW P PROVE Written(P) \in [Pages -> Nat]
  BY DEF Written

LEMMA NoneCached == NoPages \in [Pages -> Nat \cup {Absent}] /\ {p \in Pages : NoPages[p] # Absent} = {}
  BY DEF NoPages

LEMMA TypesStep == Types /\ [Next]_vars => Types'
  <1> SUFFICES ASSUME Types, [Next]_vars PROVE Types'
    OBVIOUS
  <1> USE NoneCached, WrittenType DEF handle, guest, seen
  <1>1. CASE RvAttach
    BY <1>1 DEF RvAttach, Types, Cached
  <1>2. CASE RvProf
    <2>1. paused' \in BOOLEAN /\ asked' \in BOOLEAN /\ stuck' \in BOOLEAN /\ prof' \in BOOLEAN
      BY <1>2 DEF RvProf, EndsWindow, VmiResume, Types
    <2>2. got' \in [page : Pages \cup {Absent}, content : Nat]
      BY <1>2 DEF RvProf, ProfFree, Nothing
    <2> QED
      BY <1>2, <2>1, <2>2 DEF RvProf, ProfFree, Dropped, Types, Cached
  <1>3. CASE KwalkBegin
    BY <1>3 DEF KwalkBegin, Dropped, Nothing, Types, Cached
  <1>4. CASE KwalkEnd
    BY <1>4 DEF KwalkEnd, VmiResume, Dropped, Nothing, Types, Cached
  <1>5. CASE RvPause
    BY <1>5 DEF RvPause, Types, Cached
  <1>6. CASE RvResume
    BY <1>6 DEF RvResume, VmiResume, Types, Cached
  <1>7. ASSUME NEW P \in SUBSET Pages, RvDetach(P) PROVE Types'
    BY <1>7 DEF RvDetach, ProfFree, Dropped, Nothing, Types, Cached
  <1>8. ASSUME NEW P \in SUBSET Pages, RvHook(P) PROVE Types'
    BY <1>8 DEF RvHook, VmiResume, Types, Cached
  <1>9. ASSUME NEW P \in SUBSET Pages, Writes(P) PROVE Types'
    BY <1>9 DEF Writes, Types, Cached
  <1>10. ASSUME NEW p \in Pages, KwalkRead(p) PROVE Types'
    <2>1. cache' \in [Pages -> Nat \cup {Absent}] /\ (cache' # cache => inWindow)
      BY <1>10 DEF KwalkRead, CachePage, Types
    <2>2. got' \in [page : Pages \cup {Absent}, content : Nat]
      BY <1>10 DEF KwalkRead, CachePage, Types, Cached
    <2> QED
      BY <1>10, <2>1, <2>2 DEF KwalkRead, Types, Cached
  <1>11. ASSUME NEW p \in Pages, GuestWrites(p) PROVE Types'
    BY <1>11 DEF GuestWrites, Types, Cached
  <1>12. CASE UNCHANGED vars
    BY <1>12 DEF vars, Types, Cached
  <1> QED
    BY <1>1, <1>2, <1>3, <1>4, <1>5, <1>6, <1>7, <1>8, <1>9, <1>10, <1>11, <1>12 DEF Next

(* The cache grows by one page at a time, and only while there is room.     *)
LEMMA CacheMoves ==
    ASSUME Types, [Next]_vars
    PROVE  \/ cache' = cache
           \/ cache' = NoPages
           \/ Room /\ \E p \in Pages : cache' = [cache EXCEPT ![p] = mem[p]]
  BY DEF Next, vars, handle, guest, seen, RvAttach, RvProf, ProfFree, RvDetach, KwalkBegin, KwalkEnd, Dropped,
         KwalkRead, CachePage, RvHook, Writes, RvPause, RvResume, GuestWrites

LEMMA FitsStep == Types /\ Fits /\ [Next]_vars => Fits'
  <1> SUFFICES ASSUME Types, Fits, [Next]_vars PROVE Fits'
    OBVIOUS
  <1>1. CASE cache' = cache
    BY <1>1 DEF Fits, Cached
  <1>2. CASE cache' = NoPages
    <2>1. Cached' = {}
      BY <1>2 DEF Cached, NoPages
    <2> QED
      BY <2>1, FS_EmptySet, MaxPagesAssumption DEF Fits
  <1>3. ASSUME Room, NEW p \in Pages, cache' = [cache EXCEPT ![p] = mem[p]] PROVE Fits'
    <2>1. IsFiniteSet(Cached)
      BY PagesAssumption, FS_Subset DEF Cached
    <2>2. Cached' \subseteq Cached \cup {p}
      BY <1>3 DEF Cached, Types
    <2>3. Cardinality(Cached \cup {p}) <= Cardinality(Cached) + 1 /\ IsFiniteSet(Cached \cup {p})
      <3>1. /\ IsFiniteSet(Cached \cup {p})
            /\ Cardinality(Cached \cup {p}) = IF p \in Cached THEN Cardinality(Cached) ELSE Cardinality(Cached) + 1
        BY <2>1, FS_AddElement, Zenon
      <3>2. Cardinality(Cached) \in Nat
        BY <2>1, FS_CardinalityType
      <3> QED
        BY <3>1, <3>2
    <2>4. Cardinality(Cached') <= Cardinality(Cached \cup {p})
      BY <2>2, <2>3, FS_Subset
    <2>5. IsFiniteSet(Cached')
      BY <2>2, <2>3, FS_Subset
    <2>6. Cardinality(Cached) \in Nat /\ Cardinality(Cached') \in Nat /\ Cardinality(Cached \cup {p}) \in Nat
      BY <2>1, <2>3, <2>5, FS_CardinalityType
    <2> QED
      BY <1>3, <2>3, <2>4, <2>6, MaxPagesAssumption DEF Room, Fits
  <1> QED
    BY <1>1, <1>2, <1>3, CacheMoves

LEMMA TypeInit == Init => TypeOK
  <1> SUFFICES ASSUME Init PROVE TypeOK
    OBVIOUS
  <1>1. Cached = {}
    BY DEF Init, Cached, NoPages
  <1>2. Cardinality(Cached) <= MaxPages
    BY <1>1, FS_EmptySet, MaxPagesAssumption
  <1> QED
    BY <1>1, <1>2, NoneCached DEF Init, TypeOK, Nothing

(* Types, what exists only inside a window, and that the cache keeps to its *)
(* size (kwalk.c:84), for any number of pages.                              *)
THEOREM TypeCorrect == Spec => []TypeOK
  <1>1. TypeOK /\ [Next]_vars => TypeOK'
    <2> SUFFICES ASSUME TypeOK, [Next]_vars PROVE Types' /\ Fits'
      BY DEF TypeOK, Types, Fits
    <2> QED
      BY Halves, TypesStep, FitsStep
  <1> QED
    BY TypeInit, <1>1, PTL DEF Spec

-----------------------------------------------------------------------------
(* What makes a window show one instant: memory and cache are, but for what *)
(* the client wrote, what memory was when the window began.                 *)
StoodStill ==
    inWindow /\ ~let =>
        \A p \in Pages \ own : mem[p] = begun[p] /\ cache[p] \in {Absent, begun[p]}

WindowInv == WindowPaused /\ StoodStill /\ OneInstant /\ NotLeftPaused

LEMMA WindowInit == Init => WindowInv
  BY DEF Init, WindowInv, WindowPaused, StoodStill, OneInstant, NotLeftPaused

LEMMA NotWritten ==
    ASSUME Types, NEW P \in SUBSET Pages, NEW p \in Pages \ P
    PROVE  Written(P)[p] = mem[p]
  BY DEF Written, Types

LEMMA WindowStep == Types /\ WindowInv /\ [Next]_vars => WindowInv'
  <1> SUFFICES ASSUME Types, WindowInv, [Next]_vars PROVE WindowInv'
    OBVIOUS
  <1> USE DEF handle, guest, seen
  <1> USE DEF WindowInv, WindowPaused, StoodStill, OneInstant, NotLeftPaused
  <1>1. CASE RvAttach
    BY <1>1 DEF RvAttach
  <1>2. CASE RvProf
    BY <1>2 DEF RvProf, ProfFree, EndsWindow, VmiResume
  <1>3. CASE KwalkBegin
    BY <1>3, AbsentAssumption DEF KwalkBegin, Dropped, NoPages, Nothing
  <1>4. CASE KwalkEnd
    BY <1>4 DEF KwalkEnd, VmiResume
  <1>5. CASE RvPause
    BY <1>5 DEF RvPause
  <1>6. CASE RvResume
    <2>1. let' = (let \/ inWindow) /\ UNCHANGED <<handle, got, mem, begun, own>> /\ VmiResume(paused)
      BY <1>6 DEF RvResume
    <2>2. ~(inWindow' /\ ~let')
      BY <2>1
    <2>3. (~paused') \/ (paused' = paused /\ stuck' = paused)
      BY <2>1 DEF VmiResume
    <2>4. paused \in BOOLEAN /\ paused' \in BOOLEAN
      BY <2>1 DEF VmiResume, Types
    <2>5. NotLeftPaused'
      BY <2>3, <2>4, Zenon
    <2> QED
      BY <2>2, <2>5
  <1>7. ASSUME NEW P \in SUBSET Pages, RvDetach(P) PROVE WindowInv'
    BY <1>7 DEF RvDetach, ProfFree
  <1>8. ASSUME NEW P \in SUBSET Pages, RvHook(P) PROVE WindowInv'
    <2>1. UNCHANGED <<attached, prof, inWindow, cache, got, begun, let>> /\ mem' = Written(P) /\ own' = own \cup P
      BY <1>8 DEF RvHook
    <2>2. WindowPaused' /\ NotLeftPaused'
      BY <1>8, <2>1 DEF RvHook, ResumesAfter, VmiResume
    <2>3. StoodStill' /\ OneInstant'
      BY <2>1, NotWritten
    <2> QED
      BY <2>2, <2>3
  <1>9. ASSUME NEW P \in SUBSET Pages, Writes(P) PROVE WindowInv'
    BY <1>9, NotWritten DEF Writes
  <1>10. ASSUME NEW p \in Pages, KwalkRead(p) PROVE WindowInv'
    <2>1. UNCHANGED <<attached, prof, inWindow, paused, asked, stuck, mem, begun, own, let>>
      BY <1>10 DEF KwalkRead
    <2>2. ASSUME inWindow, ~let PROVE StoodStill' /\ OneInstant'
      <3>1. CachePage(p)
        BY <1>10, <2>2 DEF KwalkRead
      <3>2. got'.page = p /\ (p \notin own => got'.content = begun[p])
        BY <2>2, <3>1 DEF CachePage, Cached
      <3>3. \A q \in Pages : cache'[q] = cache[q] \/ (q = p /\ cache'[q] = mem[p])
        BY <3>1 DEF CachePage, Types
      <3> QED
        BY <2>1, <2>2, <3>2, <3>3
    <2>3. WindowPaused' /\ NotLeftPaused'
      BY <2>1
    <2> QED
      BY <2>1, <2>2, <2>3
  <1>11. ASSUME NEW p \in Pages, GuestWrites(p) PROVE WindowInv'
    BY <1>11 DEF GuestWrites
  <1>12. CASE UNCHANGED vars
    BY <1>12 DEF vars
  <1> QED
    BY <1>1, <1>2, <1>3, <1>4, <1>5, <1>6, <1>7, <1>8, <1>9, <1>10, <1>11, <1>12 DEF Next

LEMMA WindowAlways == Spec => []WindowInv
  <1>1. TypeOK => Types
    BY Halves
  <1> QED
    BY WindowInit, WindowStep, TypeCorrect, <1>1, PTL DEF Spec

(* The guest stands still in a window unless the client resumes it itself.  *)
THEOREM StandsStill == Spec => []WindowPaused
  BY WindowAlways, PTL DEF WindowInv

(* All reads of a window show the memory it began with, but for the pages   *)
(* the client wrote.                                                        *)
THEOREM ShowsOneInstant == Spec => []OneInstant
  BY WindowAlways, PTL DEF WindowInv

(* The guest is never left paused without a window, a client's pause or a   *)
(* resume that failed.                                                      *)
THEOREM LetRun == Spec => []NotLeftPaused
  BY WindowAlways, PTL DEF WindowInv
=============================================================================
