---------------------------- MODULE SnapshotWindow ----------------------------
(***************************************************************************)
(* An rv handle's snapshot window and page cache (src/src/impl/bind/rv.c,   *)
(* rv_kern.c, src/src/impl/kern/kwalk.c) and everything else that pauses    *)
(* the guest: loading the profile (kprof.c), planting a hook (rv_hook.c),   *)
(* and the client itself (rv_vmi.c).  The calls on one handle come one      *)
(* after another; the guest, when it is not paused, writes its memory       *)
(* between any two of them.                                                 *)
(*                                                                          *)
(* External: the guest, and libvmi's pause, which does not nest: one resume *)
(* ends any number of pauses (rv_hook.c:65-71 relies on that not to resume  *)
(* inside a window).  A page's content is the number of times it was        *)
(* written.                                                                 *)
(***************************************************************************)
EXTENDS Integers, FiniteSets

CONSTANTS
    Pages,      \* pages of guest memory
    MaxPages,   \* max_pages of the cache
    Absent,     \* a page that is not in the cache, or no page read
    MaxWrites   \* bound: how often a page is written

ASSUME PagesAssumption == IsFiniteSet(Pages)
ASSUME MaxPagesAssumption == MaxPages \in Nat \ {0}
ASSUME MaxWritesAssumption == MaxWrites \in Nat
ASSUME AbsentAssumption == Absent \notin Nat \cup Pages

VARIABLES
    attached,   \* whether there is a handle
    prof,       \* rv_handle_t.prof
    inWindow,   \* kwalk_t.in_window
    cache,      \* kwalk_t.pages: the content of each page cached
    got,        \* what the last kwalk_read returned: [page, content]
    paused,     \* external: whether the guest is paused
    mem,        \* external: guest memory
    begun,      \* history: memory when the window began
    own,        \* history: the pages the client wrote since
    let,        \* history: whether the client resumed the guest since
    asked,      \* history: whether the guest has not been resumed since rv_pause
    stuck       \* history: whether it has not been since a resume failed

handle == <<attached, prof, inWindow, cache>>
guest  == <<paused, asked, stuck>>
seen   == <<begun, own, let>>
vars   == <<handle, got, guest, mem, seen>>

Nothing == [page |-> Absent, content |-> 0]
NoPages == [p \in Pages |-> Absent]
Cached  == {p \in Pages : cache[p] # Absent}

Written(P) == [p \in Pages |-> IF p \in P THEN mem[p] + 1 ELSE mem[p]]
CanWrite(P) == \A p \in P : mem[p] < MaxWrites

(***************************************************************************)
(* vmi_resume, of a guest that is paused or not: it may fail.               *)
(***************************************************************************)
VmiResume(was) ==
    \/ paused' = FALSE /\ asked' = FALSE /\ stuck' = FALSE
    \/ paused' = was /\ asked' = asked /\ stuck' = was

(* cache_drop; what kwalk_end does besides. *)
Kept    == cache
Dropped == NoPages

FreedOnly  == UNCHANGED guest
EndsWindow == IF inWindow THEN VmiResume(paused) ELSE UNCHANGED guest

(***************************************************************************)
(* The handle.                                                              *)
(***************************************************************************)
RvAttach ==
    /\ ~attached
    /\ attached' = TRUE
    /\ UNCHANGED <<prof, inWindow, cache, got, guest, mem, seen>>

(* rv_prof_free *)
ProfFree ==
    /\ inWindow' = FALSE
    /\ cache' = Dropped
    /\ got' = Nothing

(* rv_prof: the old profile and its window go first.  If the guest cannot   *)
(* be paused that is all; otherwise it is resumed whatever happens, and a   *)
(* resume that fails fails the profile too.                                 *)
RvProf ==
    /\ attached
    /\ ProfFree
    /\ \/ EndsWindow /\ prof' = FALSE
       \/ VmiResume(TRUE) /\ prof' \in (IF paused' THEN {FALSE} ELSE BOOLEAN)
    /\ UNCHANGED <<attached, mem, seen>>

(* rv_detach takes the hooks out first.  libvmi lets a guest run that it no *)
(* longer watches.                                                          *)
RvDetach(P) ==
    /\ attached /\ CanWrite(P)
    /\ attached' = FALSE /\ prof' = FALSE
    /\ ProfFree
    /\ mem' = Written(P)
    /\ paused' = FALSE /\ asked' = FALSE /\ stuck' = FALSE
    /\ UNCHANGED seen

(***************************************************************************)
(* The snapshot window: rv_snapshot_begin, rv_snapshot_end, rv_read.        *)
(***************************************************************************)
(* If vmi_pause fails, nothing happens. *)
KwalkBegin ==
    /\ prof /\ ~inWindow
    /\ paused' = TRUE
    /\ cache' = Dropped
    /\ inWindow' = TRUE
    /\ got' = Nothing
    /\ begun' = mem /\ own' = {} /\ let' = FALSE
    /\ UNCHANGED <<attached, prof, mem, asked, stuck>>

KwalkEnd ==
    /\ prof /\ inWindow
    /\ cache' = Dropped
    /\ inWindow' = FALSE
    /\ VmiResume(paused)
    /\ got' = Nothing
    /\ UNCHANGED <<attached, prof, mem, seen>>

(* A page in the cache is read from there; one that is not is put there, or *)
(* read around the cache if it is full or there is no memory for it.        *)
RoomForOneMore == Cardinality(Cached) <= MaxPages
Room           == Cardinality(Cached) < MaxPages

CachePage(p) ==
    IF p \in Cached
    THEN got' = [page |-> p, content |-> cache[p]] /\ UNCHANGED cache
    ELSE /\ got' = [page |-> p, content |-> mem[p]]
         /\ \/ Room /\ cache' = [cache EXCEPT ![p] = mem[p]]
            \/ UNCHANGED cache

KwalkRead(p) ==
    /\ prof
    /\ IF inWindow THEN CachePage(p)
       ELSE got' = [page |-> p, content |-> mem[p]] /\ UNCHANGED cache
    /\ UNCHANGED <<attached, prof, inWindow, guest, mem, seen>>

(***************************************************************************)
(* Other calls that pause, resume or write.                                 *)
(***************************************************************************)
(* resume_after_hook *)
ResumesAlways == TRUE
ResumesAfter  == ~inWindow

(* rv_hook_bp and rv_hook_mem, which write the pages P (none, if the hook   *)
(* is not a breakpoint or cannot be added).                                 *)
RvHook(P) ==
    /\ attached /\ CanWrite(P)
    /\ IF ResumesAfter THEN VmiResume(TRUE) ELSE UNCHANGED guest
    /\ mem' = Written(P) /\ own' = own \cup P
    /\ UNCHANGED <<handle, got, begun, let>>

(* rv_write_virt, rv_write_phys, rv_hook_remove and the callbacks of        *)
(* rv_hook_poll write without pausing, and past the cache.                  *)
Writes(P) ==
    /\ attached /\ P # {} /\ CanWrite(P)
    /\ mem' = Written(P) /\ own' = own \cup P
    /\ UNCHANGED <<handle, got, guest, begun, let>>

RvPause ==
    /\ attached
    /\ paused' = TRUE /\ asked' = TRUE
    /\ UNCHANGED <<handle, got, stuck, mem, seen>>

RvResume ==
    /\ attached
    /\ VmiResume(paused)
    /\ let' = (let \/ inWindow)
    /\ UNCHANGED <<handle, got, mem, begun, own>>

(* External: the guest runs. *)
GuestWrites(p) ==
    /\ ~paused /\ CanWrite({p})
    /\ mem' = Written({p})
    /\ UNCHANGED <<handle, got, guest, seen>>

-----------------------------------------------------------------------------
Init ==
    /\ attached = FALSE /\ prof = FALSE /\ inWindow = FALSE
    /\ cache = NoPages /\ got = Nothing
    /\ paused = FALSE /\ stuck = FALSE
    /\ mem = [p \in Pages |-> 0]
    /\ begun = mem /\ own = {} /\ let = FALSE /\ asked = FALSE

Next ==
    \/ RvAttach \/ RvProf \/ KwalkBegin \/ KwalkEnd \/ RvPause \/ RvResume
    \/ \E P \in SUBSET Pages : RvDetach(P) \/ RvHook(P) \/ Writes(P)
    \/ \E p \in Pages : KwalkRead(p) \/ GuestWrites(p)

Spec == Init /\ [][Next]_vars

-----------------------------------------------------------------------------
(***************************************************************************)
(* Properties.                                                              *)
(***************************************************************************)
(* Every variable has its type; there is no profile without a handle, no    *)
(* window without a profile, nothing cached outside a window, and never     *)
(* more than max_pages.                                                     *)
TypeOK ==
    /\ attached \in BOOLEAN /\ prof \in BOOLEAN /\ inWindow \in BOOLEAN
    /\ cache \in [Pages -> Nat \cup {Absent}]
    /\ got \in [page : Pages \cup {Absent}, content : Nat]
    /\ paused \in BOOLEAN /\ asked \in BOOLEAN /\ stuck \in BOOLEAN
    /\ mem \in [Pages -> Nat] /\ begun \in [Pages -> Nat]
    /\ own \in SUBSET Pages /\ let \in BOOLEAN
    /\ prof => attached
    /\ inWindow => prof
    /\ Cached # {} => inWindow
    /\ Cardinality(Cached) <= MaxPages

(* The guest stands still for the whole of a window, whatever else is       *)
(* called meanwhile that pauses and resumes it for itself (rv_hook.c:65-76, *)
(* kprof.c:90-133); only the client's own rv_resume can let it run.         *)
WindowPaused == inWindow /\ ~let => paused

(* A window shows one instant: what is read in it, from the cache or around *)
(* it, is what the page held when the window began, unless the client wrote *)
(* the page itself (kwalk.h:49-51).                                         *)
OneInstant ==
    inWindow /\ ~let /\ got.page \in Pages \ own => got.content = begun[got.page]

(* Nobody leaves the guest paused: it is paused in a window, after the      *)
(* client's rv_pause, or because libvmi could not resume it, and for no     *)
(* other reason; no failed profile, hook or detach forgets it.              *)
NotLeftPaused == paused => inWindow \/ asked \/ stuck

=============================================================================
