# RootView in TLA+

RootView watches a Linux guest from outside: a C core drives libvmi and KVMI
(VM lifecycle, hooks, kernel walks), `librootview.so` exposes it, `rvprim` and
`rvtools` use it from Python, and a web server shows the result.  This directory
holds TLA+ models of its stateful parts, the TLC configurations that check them,
and TLAPS proofs of what should hold for any size.  Paths below are those of the
repository (`src/src/...` is its `src/`).

## 1. The system's parts

| Part | State it keeps | Operations | What makes it correct |
|---|---|---|---|
| Hook manager (`impl/kvmi/hook`) | slot array, `count`, shared registrations, `pending_bp`, `mem_pending[vcpu]` | add (register, breakpoint, cpuid, descriptor, mem), remove, clear, poll; callbacks on hit and on single-step | what libvmi has registered is what the slots say; no stray 0xcc; a hit breakpoint is planted again; captures are finished by the right step |
| Event ring (`impl/bind/rv_hook.c`) | `events[]`, `head`, `count`, `seq`, `dropped` | push (from callbacks), read | the newest events, in order, and every loss reported |
| Handle, snapshot window, page cache (`impl/bind/rv.c`, `rv_kern.c`, `impl/kern/kwalk.c`) | session, profile, `in_window`, pages | attach, profile, begin, end, read, detach | the guest is paused exactly while a window or an add needs it; one window shows one instant |
| Kernel walks (`impl/kern/kwalk.c`) | visited set, caps, budget | list, hlist, rbtree, xarray, idr, per-cpu | ends on any memory, and finds every node of a well-formed structure |
| Kernel profile (`kprof.c`, `kimg.c`, `ksym.c`, `btf.c`, `kfield.c`) | copied image, symbol and type tables | load in eight steps, look up, resolve and decode fields | the tables are the guest's own or there is no profile; look-ups and fields say what they hold |
| VM lifecycle (`impl/vm`) | store directory, state file, qemu process | create, start, stop, restart, destroy | one qemu per VM; the state file tells the truth |
| rvprim (`rootview/rvprim`) | one lock per library, handles | calls | calls do not overlap; no call uses a freed handle |
| rvtools (`rootview/rvtools`) | `MemWatch` hooks, page hashes | decode, watch, compare | a watch gives back the hooks it set |
| Guest pool (`engine/pool.py`) | `_guests`, `_locks`, `profile_errors`, `ready` | guest, reload, lifecycle, start, close; details without the lock | one user per handle, no handle lost, no lock kept; what is read without the lock agrees |
| Scanner and bus (`services.py`, `events.py`) | `_reported`, `_latest`, history, queues | scan, start, stop, publish, subscribe | every finding announced once; a page sees history, then live events |
| Detection (`detection.py`, `backends/libvmi.py`) | none | rules | deterministic, distinct identifiers |
| Command line, JSON, routes, pages | none of their own | | presentation |

How they interact.  libvmi calls the hook manager back while a client polls;
the callback pushes into the ring of the same handle, the client reads it.  A
breakpoint or mem hook pauses the guest unless a snapshot window already has.
The web server runs each request on a worker thread; a thread reaches a guest
only through the pool, which serialises them per guest, and lifecycle calls go
to the VM store.  The scanner asks the backend, which uses the pool, and
publishes on the bus that browsers subscribe to.

What is hard: vcpus trap concurrently and share one pending breakpoint and one
single-step switch; hooks are removed while their events are queued; adds fail
half way; the ring wraps; threads of cancelled requests run on; a guest dies
between two calls; the store has several users and no lock.  Section 6 and
`PROJECT.json` ("hazards") list each at its line.

## 2. Plan

| Order | Module | Composes | Shows | State |
|---|---|---|---|---|
| 1 | `HookManager` | client, callbacks, vcpus, libvmi | slots, registrations, bytes, recoil, captures | done, proved |
| 2 | `LossyQueue`, `EventRing` | ring refines queue | order, losses accounted | done, proved |
| 3 | `GuestPool`, `GuestDetails` | threads, locks, VM boots; a reader without the lock | one user per handle, none lost; answers agree | done, proved but for the reader |
| 4 | `SnapshotWindow` | handle, window, cache, hook pauses | guest paused in a window and left running; one instant per window | done, proved |
| 5 | `EventBus`, `LiveView` | scanner, bus, browser tabs, replay | the marker at the boundary; nothing announced goes unseen | done, proved |
| 6 | `VmLifecycle` | callers, store, libvirt, processes, crashes | a guest that runs is recorded, stopped means stopped | done, proved |
| 7 | `Binary`, `KernelWalks` | walk algorithms against what the structures hold | they end, with everything or with a reason | done, proved |
| 8 | `KernelImage`, `KernelSymbols`, `KernelTypes`, `Kernel` | decoders, the profile made of them, the walks over it | tables found and believed only if right; fields true | done, proved but for what is in an intact image |
| 9 | results of guests that stopped in `LiveView` | | stale answers | not modelled |

That an intact image is read (`IntactIsRead` of 8) stays with TLC.

## 3. Modules and the code

**`HookManager`** (`src/src/impl/kvmi/hook`).  `hooks`, `count`, `pendingBp`,
`memPending`, `on` are `hook_manager_t` (`hook_types.h:109-125`); `sent` is what
the last callback reported.  Each `hook_*_add`, `hook_remove` and
`hook_manager_clear` is one action with its error paths in the code's order:
duplicate names, full table, a page that cannot be read or written, an
infrastructure registered half and given back.  `hook_poll` runs one queued
callback (`OnBpHit`, `OnMemHit`, `OnRegHit`, `OnCpuidHit`, `OnDescHit`,
`OnSingleStep`).  External, modelled from how the code uses it: libvmi's
registrations (`shared`, `watch`), the guest's bytes and its vcpus, which
execute instructions whose effects may trap one after another and wait for an
answer (`Execute`, `cur`, `stepping`, `event`).  Left out: event payloads other
than what a capture's completion says, hook texts, and errors of libvmi while
it removes an event.  A clear or a remove runs while no callback does, as both
are called from the thread that polls.

**`LossyQueue`** is the promise of `rv_events` to its reader; **`EventRing`**
(`rv_hook.c:31-63, 145-156`) is the array with `head`, `count`, `seq` and
`dropped`, and `Held` the mapping under which it implements the queue.  `got`
(what the last read returned) and `seen` (a history of what was read or reported
lost) are for the properties only.

**`GuestPool`** (`engine/pool.py`).  A worker thread is a `job`: its place in
`_with_guest`, `lifecycle` or `_close_all`, with that method's locals.  A step
is what happens between two points where another thread, or a reader that takes no
lock, can tell the difference: taking the guest's lock, listing VMs, attaching, loading the
profile and recording its error (`LoadProfile`, `pool.py:85-89`), publishing the handle
(`Publish`, 90), using it, looking whether the guest still runs; and of `_drop_locked`
taking the handle away, closing it and forgetting the error (`Pop`, `Detach`, `Forget`,
104-107).  What a request does with its handle is either any work or the reload of
the profile (`Works`; `POST /profile`, `routers/guest.py:59-62`), which drops
the profile there was first (`rv.c:52-54`) and, when done, forgets the guest's error without
the lock (`Clear`).
Requests are let in while the pool is ready; one let in goes on when it closes.
A scan that looks at several guests is one request per guest.  The
call of a lifecycle request happens without the lock, as in the code.  External:
guests (`boot`, `known`) halt by themselves and are booted from the command
line; a handle belongs to the boot it attached to and does not work on another.
`attach` may fail at any time, `load_profile` and `fn` too.

**`GuestDetails`** puts beside the pool what `details_of` (`routers/vms.py:14-23`) reads of
it: the handle, its profile and the error, one after the other and without the guest's lock.
That is for every page and answer about a guest.  It runs on the event loop, which
is one thread, so one answer is put together at a time, and the `Clear` of a reload,
which runs there too, comes before or after; the worker threads go on between any
two of its reads.  A handle closed in between raises, and there is no answer.  An answer may
come before the pool has started or after it closed, which adds nothing to read.  `reloaded` is a
history for `AnswerAgrees`, which does not speak of a guest whose profile somebody asked to
reload: such a reload may leave neither profile nor error (section 7).

**`SnapshotWindow`** (`rv.c`, `rv_kern.c`, `kwalk.c:22-112`, and the pauses of
`kprof.c`, `rv_hook.c`, `rv_vmi.c`).  `attached`, `prof`, `inWindow`, `cache` are
the handle's; `got` is what the last read returned.  Calls on a handle follow one
another (rvprim's lock; in the server the pool's), so each is one action with the
outcomes of its pause and resume; the guest writes memory between calls whenever
it is not paused.  External: the guest, and that libvmi's pauses do not nest,
which `pause_for_hook` relies on.  A page's content is how often it was written;
`begun`, `own`, `let`, `asked` and `stuck` are history for the properties.  Reads
of several pages are reads of each, as `kwalk_read` does them.

**`EventBus`** (`events.py`) is the bus and the stream it feeds a page: history,
queues, the replay on subscribing, the ready marker; **`LiveView`** puts beside it
the scanner (`services.py`), with the outcomes of each of its awaits, and the
browser tabs: what `routers/pages.py` renders and what `app.js` does with each
event.  The server runs on one event loop, so a step is what happens between two
awaits, and what one stretch of code publishes is published at once.  An event
carries its number, which the code's events do not: it is a history, like `since`,
`at`, `dropped`, `announced`, `told`, `news` and `cut`, for the properties.  The
page's handler runs with the sending of the event it gets, so the marker's two
sides (the server's place in `sse_source` and `live` of `app.js`) are one
variable, and a dashboard whose queue is empty got it all.  A connection may
break at any moment and is opened again by `EventSource`; a keepalive changes
nothing and is left out.  The severity order of one scan's findings is left open
(`Orders`), and the guests that run may be any.  A guest found stopped between
listing and scan gives no findings, which `Scan` with an empty set is.

**`VmLifecycle`** (`impl/vm`) is one VM; VMs of other names share nothing with
it.  `dir`, `files` and `state` are its directory in the store, `proc` and
`domain` the host's processes and the one libvirt has under the VM's name, and
each caller (the command line, the web server; within one process rvprim's lock
makes calls follow one another) is somewhere in `vm_start`, `vm_stop` and so on
with that function's locals.  A step is one access to a file, to libvirt or to a
process, since nothing is locked.  `json_write_file` is one step: while a caller
is at it a reader may find the file empty, which reads as "stopped", and a write
that fails leaves it so and is not reported.  What SIGTERM does is `Ends`, which
may come at any time or not at all; SIGKILL leaves the process `dying`.
A caller may die between any two steps.  `amiss` and `alone` are histories for
the properties, which need exceptions: a start cut short between spawning and
saving (`"start"`), a create or destroy that was not finished, and calls that
overlapped.  External: the host's processes, which reuse pids, and libvirt, which
runs one domain of a name and forgets it some time after qemu ended.  rv is taken to
have the rights to signal qemu.  Sockets and the log, which no operation reads
back, are why a directory may not be removable and no more.

**`KernelWalks`** (`kwalk.c:114-527`) takes one step for each node a walk
reads: the checks of that node in the code's order (`Verdict`), the read, and
what is done with its contents.  `pc`, `node`, `parent`, `stack`, `visited`,
`steps` and `out` are the walkers' locals; the frames of `xa_node`'s recursion are
the `stack` of an idr walk.  Memory is not a variable: a read gives anything the
address may hold and `seen` remembers it.  Since no walk reads a node twice, that
covers every content of memory, and memory that changes under the walk.  A probe of a
full table is a step that leads to itself.

**`KernelImage`**, **`KernelSymbols`** and **`KernelTypes`** are the decoders:
`kimg.c`'s copy as runs of present pages; `ksym.c`'s search for the token table
by its digits, then backwards for markers, names and their number, and the
decoding and lookups; `btf.c`'s checks of header and types, its queries, and the
fields of `kfield.c` over them.  Each function is an operator; `Binary` holds the powers
of two that shifts, masks and widths are said with.  Beside them `KernelTypes` says what BTF means
without the code's searches: the end of a chain of typedefs (`EndOf`), the place of a name at
the least path of member indexes that leads to it (`Place`, `PlaceOf`), a value as the bits at
its place (`BitsAt`); `FieldsTrue` compares the two.  Guest memory
is cells: a scalar of the symbol tables, of 1, 2, 3, 4 or 8 bytes, is one cell (the
base address two), alignment to 8 bytes is to 2 cells, there are 8 tokens with
2 digits among them, and a marker for every second name, so that a table of ten
symbols has all the parts of a real one.  A blob of types is a record of its header
and its types, since nothing depends on where the bytes of one lie; bytes of the
fields read have two bits.  Names are looked up by comparing them, which is what the
hash tables do.

**`Kernel`** composes these with `KernelWalks` as `kprof.c` and `rv_kern.c` do: `img`,
`sym` and `btf` are the profile, `step` the place in `kprof_init`, `ask` and `answer`
a call of `rv_kern.c`.  Layouts the walkers need come from the type table, link
offsets and per-cpu addresses too.  The guest is one of `Guests` and stands still
while the profile is loaded, which `SnapshotWindow` shows.  `MCKernel` builds
guests as a kernel's build would, in the three layouts and two addressing modes.

Operators such as `ClaimTwice`, `NotForgotten`, `OneTooLate`, `NoReplay`, `Spared` or
`LockAnyway` are slips the code could have made; no action uses them.  They stand before the
definition they would replace, and `PROJECT.json` ("mutants") says which
property notices.

## 4. Runs

| Run | Configuration | What it shows |
|---|---|---|
| `hooks_one_vcpu` | one tracked vcpu, two slots, two names, every kind of hook, fair | with one vcpu and no removal mid-recoil the recoil is right: an unplanted breakpoint is the pending one (`UnplantedIsPending`), stepping is on when something waits for it (`PendingIsStepping`), a hit breakpoint is planted again (`Rearmed`), a capture reported complete was stepped (`CompleteMeansStepped`) |
| `hooks_smp` | two vcpus, one beyond `HOOK_MAX_VCPUS`, removals at any time, a page that may be lost | the structural invariants hold whatever the vcpus do: `TypeOK`, `HooksFindable`, `Registered` (`OwnRegistrations` and `SharedRegistrations`), `PendingCaptures`, `PendingBreakpoint`, `OwnBytes`, and `ReinjectsAfterRemovalOnly` |
| `hooks_rearm_smp` | two vcpus, two breakpoints | **violated** `UnplantedIsPending`: see section 7 |
| `hooks_stale_capture` | one vcpu, an instruction that writes two frames | **violated** `CompleteMeansStepped`: see section 7 |
| `event_ring` | three slots, two payloads, up to eight events | `NewestInOrder`, `Conservation`, `ReadsContinue`, and the refinement `QueueSpec` |
| `guest_pool` | one guest, two threads and a reader, two boots, two handles, work and reloads, fair | `UsedByOne`, `NoneLost`, `LocksReleased`; `ErrorsSettle` (a profile error without its handle is there only while a job is between the statements that make or drop both); `AnswerAgrees` (an answer about a handle the pool still has gives an error exactly if its profile did not load) |
| `guest_pool_stop` | two guests, two threads, two boots, two handles | **violated** `StopDetaches`: see section 7 |
| `snapshot_window` | two pages, a cache for one, two writes each | `WindowPaused`, `OneInstant`, `NotLeftPaused` under every order of calls, with pauses and resumes that fail |
| `live_view` | one guest, one finding, one tab, a history of two, queues of three, up to seven events | `Boundary`, `NothingUnseen`, `ReloadsForNews`, whatever is loaded, scanned, forgotten or cut off in whatever order |
| `kernel` | 2 664 guests: twelve as built, each larger one with any one cell changed or page, banner, type blob, `init_task` or anchor wrong, twelve hundred type tables, and structures of any content in four nodes; fair | `SymbolsTrue` (what was built is found, what is believed rises and starts at the image, lookups agree), `FieldsTrue` (a field is the bits BTF places it at), `Complete` and `FoundIsReal` (a walk gives all the structure holds, or a part of it that was really there), `WalkEnds`, `TypeOK` |
| `walks_small_max` | the code's own constants, a left spine of 18 nodes, a call for 4 | **violated** `WalkEnds`: see section 7 |
| `vm_lifecycle` | one VM, two callers, two pids | `Recorded` (a running guest has its directory and its pid in the state file), `StopStops` (who writes "stopped" is right), `AsCreated` (a guest boots with its own configuration), each but for the exceptions it names; without overlapping calls and with every start finished, they hold outright |

Bounds, and why they are enough.  Two slots let a slot be freed, reused and
the table be full; two names and two addresses allow a duplicate and two
breakpoints in recoil; the two vcpus are what "another vcpu" needs.  The
capture and recoil state is one variable for the manager or one per vcpu, so a
third of either adds no new conflict.  Eight events go round a ring of three
nearly three times, past every position of `head`, with every read size.  Two
boots and two handles give a handle that outlives its boot and a second one
beside it; two threads give every pair of jobs.  One guest is enough for
`guest_pool`, since guests share the threads only: locks, handles, errors and answers are each of one
guest, and a close drops guest after guest.  What two of them add, that no two share
a handle, is proved for any number (`Kept`), and with two guests and no reader TLC finds the invariants to hold too (put them in place
of the property of `guest_pool_stop.cfg`, which has that size).  A cache smaller than memory
has a page in it and one read around it in the same window, and two writes tell
the page before, during and after.  In `live_view` the history is shorter
than a run, so findings leave it, and shorter than a queue, as in the code; seven
events are what it takes to publish, replay in part, evict and replay again, the
one case in which `/introspect` reloads for a change older than the page (`cut`).
In `vm_lifecycle` one caller is
caught by the other at every step, and two pids are the ending guest's and the
next one's, each reused by strangers; with three of them the run is the same and four
times as long.
In `kernel` two layers of typedefs, anonymous members and arrays go past
`MaxDepth`, bytes of two bits let fields straddle them, and the type tables combine four
kinds of integer, five structs and ten inner and six further types, in every position a reference
can have.  Four nodes make lists and trees with a cycle, a wild or missing node,
and both too many and too deep; the xarray has two levels and a node under two
parents.  The symbols asked for include one before the first, the last, two of one
address and two of one name.  The tree's depth is bounded by the table there
(`RbMaxDepth` 3, tables of 4 and more), as the code's is not: that is what
`walks_small_max` is about.
`SeqBound`, `MaxBoots`, `MaxHandles`, `MaxWrites` and `MaxPublished` are bounds of
the runs; the proofs keep them arbitrary.

Deadlock is checked except in `live_view`, where the bound on events may leave nothing
to do.  In `guest_pool*` a thread whose attach needs a third handle can only
fail.

Fairness.  `HookManager!FairSpec`: the client keeps polling (`rvtools` and the
shell poll in a loop) and a vcpu that waits for nothing executes; neither the
choice of instruction nor any add or remove is fair.  `GuestPool!FairSpec`: a
thread that can take the next step of its job does; a lock is not fair, and no
request is ever forced to come.  `LocksReleased` needs no more, since only the
holder's own steps release it; `FairDetailsSpec` is the same beside the reader.  `KernelSpec` and `FairWalks`: a walk that can take its next step
does, since it is one loop in one call; no call is forced to come.

## 5. Proofs

`HookManagerProofs`: `TypeCorrect` for any number of vcpus, hooks and slots, then
`Findable`, `RegisteredRight`, `CapturesHeld`,
`BreakpointHeld` and `BytesKept` from one inductive invariant, `SafeInv`: their
conjunction and `SlotShapes` (a slot's kind agrees with its key, and only mem
hooks capture).  They support each other: that a removed hook leaves no pending
capture needs `HooksFindable` (the slot found is the one meant), that the byte
restored is the guest's needs `PendingBreakpoint`, and that a slot freed has no
registration needs `OwnRegistrations` for the slot reused.  `Reinjected` follows
from it.  `RecoilKnown`, `PendingStepped` and `CompleteStepped` are about recoil and
steps and do not hold in every guest.  Their hypothesis `Undisturbed` is what they need:
breakpoints on one vcpu only, one hooked thing an instruction at most and none beside a
breakpoint, pages that stay writable, no removal mid-recoil.  `hooks_one_vcpu`, which
meets it, checks that they can be broken; `hooks_rearm_smp` and `hooks_stale_capture`
refute them where it does not hold.  `StepInv` says why they hold: whoever waits for a step is being
stepped, and a vcpu being stepped is past the trap it waits for (`PastIt`), so
that the next toggle can only be its own.

`EventRingProofs`: for a ring of any positive size, `TypeCorrect`; `Ordered` and
`Accounted` from `RingInv`, whose heart is that slot `head + i` modulo the size
holds the event numbered `seq - count + i`, by lemmas on the modulus that avoid
induction; `Continues`; and `Implements`: each push or read is one of
`LossyQueue` under the mapping `Held`.

`GuestPoolProofs`: for any guests and threads, `TypeCorrect` (a lock is held by
exactly the job inside its `with`), `Exclusive`, `Kept` and `ErrorsSettled`, from
`PoolInv`.  `UsedByOne` alone is not inductive: a job that has a handle before it is
published or after it was taken from the pool must be the only one to have it, and must find no
handle published by another meanwhile (`HeldAlone`), which holds because it has the
lock.  `ErrorsSettle` needs the same: what is forgotten last is the error of a guest that
nobody can have attached again.

`SnapshotWindowProofs`: for any memory and cache, `TypeCorrect` (with the bound
on the cache, from `FiniteSetTheorems`), `StandsStill`, `ShowsOneInstant` and
`LetRun` from `WindowInv`.  What a read returned says nothing of the next, so the
invariant adds `StoodStill`: in a window, memory and every cached page are those
of the window's beginning, but for what the client wrote.

`LiveViewProofs`: for any guests, findings, pages and limits, `TypeCorrect`,
`MarkerAtBoundary`, `AllAnnouncedShown` and `ReloadsAreNews`.  `BusInv` says what the bus holds event
by event: the history is the last events published, a queue is in increasing
order beyond the last one sent, and its first `left` events are those not newer
than `since`.  The lemmas on `Newest`, `Fitting` and appending turn every
publication into "the old events, then the new ones that fit".  `SeenInv` adds that
an event of the history with a finding's number is that finding's
(`AnnouncedOK`), and that a finding owed to an open dashboard is on it or in its
queue (`SeenOK`): it is this disjunction that survives both a publication and
the delivery of one event, and subscribing restores it from `AnnouncedOK`.
`NewsInv`, for `ReloadsAreNews`, follows the count of each guest: the last scan in the
history has the count announced last, and so has, for a page to which nothing new was
said, what is queued for it and its own baseline, or else a later event of the replay
will put it right.  An event that can put it right is still to be replayed while the
marker is not sent, which is why a page that cuts its stream before it is excepted.

`VmLifecycleProofs`: for any callers and pids, `TypeCorrect`, `IsRecorded`,
`StopsBeforeSaying` and `BootsAsCreated`.  The argument is that while nothing is
amiss there is one call at most (`OneAtATime`; and a caller that thinks it is
alone is, `AloneIsAlone`), so a step need only be right for its own caller.
`Recorded` is not inductive: a caller that read the state file a while ago must
still be right about it (`Seen`: the pid it has is the running guest's, and if
it is about to write or remove files no guest runs).  `AsCreated` rests on
`Configured` (a directory without its configuration has a caller at work in it)
and `Undisturbed` (what a start that nobody disturbed has read still holds).

`KernelWalksProofs` is about `AnyWalks`: walks one after another through memory of
any content, at any numeric offset, with any layouts and per-cpu symbols; the walks
of the `kernel` run are some of these.  `WalkInv` has a part for each structure.  A list:
what was found is the chain up to the current node.  A tree: the open nodes and those found
are distinct and were read.  An xarray: from the root down each open node covers the
slot above that it was reached from (`Path`), so the ids found lie before the place the walk
is at, and rise.  From it follow `Reality` (`FoundIsReal`), `ListsComplete`, `IdsRise`,
and `OnlyTrees`: the visited tables of lists and xarrays always have a free slot, for any
bounds, so a search without end (section 7) can only come of a tree.  `TreesComplete`
needs `TreeInv` as well: for every solution of "what is under a node is what is
under its left, the node, what is under its right", the whole tree is what was found, what
is under the current node, and what waits on the stack.  That is one equation for
each step, and needs no induction; a solution exists because what was read is no deeper
than it has nodes (`Deep`: each node is one below the one it was reached from).
`XarraysComplete` goes the same way, by `EntriesInv`: for every solution of "what a node holds is what
its slots hold, at the slot's place" (`Holds`), what was found is what the slots the walk is past show
(`Scanned`), and a node that is done has shown what its slot in the node above holds (`DoneShows`).
At the end every slot of the root is past.  The solution is what `XaLoad`
finds, a lookup of one index after another: the lookups of two indexes that agree within a node agree
(`LoadAgrees`, by the lowest shift at which they would not), since every node that was read has its
children read, one level below (`Closed`).
`tlapm` cannot instantiate the library's induction rules, so `NatInduct` is stated of sets
(a set of numbers with 0 and the successor of each of its members is `Nat`) and proved from
the well-foundedness of the order; `Pow2` and the levels of a tree go by it.
`IdsFit`, which `IdsRise` and `FoundIsReal` mention, is a finding of these proofs: see section 7.

`KernelProofs`: for any guests and bounds, `ProfilesWhole` (`TypeOK`), the two parts of
`SymbolsTrue` that are about what is believed and asked, `TablesSound` (`TableIsSound`) and
`LookupsTrue` (`LookupsAgree`), `FieldsSound` (`FieldsTrue`), and for the walks over a profiled kernel `KernelWalksReal` and
`KernelWalksComplete` (`Complete`), from `KernelInv` (`Kernels`).  Its parts are what `kprof_init` has
loaded at each step (`StepsInv`, `LoadedInv`), what the last question was answered
(`AnswersInv`), and the invariants of `KernelWalksProofs`, for which every walk of a kernel
must be one of `AnyWalks`: the offsets it takes from the type table are numbers (`OffsetsAreNumbers`).  That no
question finds half a profile needs that every way a step can fail frees what is loaded, and
that a step that says yes has loaded what it should: a table is `Believed`
only after `ksym.c`'s own checks, whose neighbours in order are extended to all pairs by
`NatInduct`, and a blob of types only as the parser counted it.  `HalvingFinds` proves the binary search of
`ksym.c` for tables of any length, by the distance left.  The decoders that recurse (`ByAddr`,
`Resolve`, `FindMember`) are functions of one argument at a time, since `tlapm` reads no recursive function of two;
`LevelsExist` says once that such a function, defined level by level, exists.
`FieldsSound` compares the recursions of `btf.c` with the layout BTF describes, for types of any shape.
`EndIs`: what `Resolve` reaches is the end of a chain, by the types left.  `PlaceIs`: what `FindMember`, which goes down
into anonymous members as it meets them, finds first is at the least of the paths of indexes that lead to the name
(`RowsLead`, by the depth; the least path of a level is the first index that leads anywhere
followed by the least path below it).  `FieldBits`: bytes put together, shifted and masked are the bits at the place (`BitsAre`,
`LittleIs`), and `FieldSpans` that exactly the bytes those lie in are read.  `NameHasValue` and
`ValueHasName`: enumerators by name and by value, up to the sign.  Such answers stay true
while the profile does, because they depend on `btf` alone (`SameAnswers`).

Assumptions are the named `ASSUME`s of the component modules: positive sizes, a
history shorter than a queue, finitely many pages and subjects, the tracked vcpus
are some of the vcpus, `None` is no thread, guest or process, `Empty` is no event, masks and
instructions are well typed.  Of guests `GuestMemory`, `GuestTypes` and `GuestAsks` say
that a page that is mapped has cells, and that cells, sizes, offsets and type numbers are not negative: in the code all are
unsigned.  Enumerators and the bytes of an object read fit their width, as the words and bytes they are.
`TypeBounds` has a struct of nine bytes within `MaxStruct` (`KWALK_MAX_STRUCT` is 64 KiB) and a field of eight within `MaxField`:
a scalar spans no more.  `ImageBounds` has the area searched begin and end at a chunk, as 2 MiB divide
both ends in `kimg.c`.  `SymbolBounds` has at least one digit among the tokens, and no more tokens than
the table holds.  TLC evaluates each in the runs.

Only model-checked: `Rearmed`, `LocksReleased` and `WalkEnds` (liveness);
`GuestDetails`; and of
`Kernel` that the decoders read everything an intact guest was built with (`IntactIsRead`, the first part of `SymbolsTrue`),
which is a statement about how a kernel is built, that is about `MCKernel`.

## 6. Hazards without a property yet

`PROJECT.json` ("hazards") says of each what is in the way: results of a guest that
stopped, which stay among the standing findings or count as a clean scan;
a handle attached while the pool
closes; and `MemWatch` failing half way.  Some of what the code does is not at odds with
anything it documents and is left at that: `_reported` is never pruned
(`services.py:102`, "does not re-alert"), `/introspect` adopts a replayed count
as its baseline (`app.js:209`) and compares counts of different guests when none is
selected (`app.js:206`), and a client's own `rv_pause` is undone by the next
window, hook or profile (`kwalk.c:53`, `rv_hook.c:71`, `kprof.c:127`).  rvprim
evaluates a handle before it takes its lock (`_lib.py:51`); in the server the pool's
lock prevents that (`UsedByOne`).  And `kwalk_rbtree` counts only nodes whose left
side is open towards its depth, so a chain of right children passes as a tree,
which `kwalk.h:100-103` says it cannot.

## 7. Where the code and its documents disagree

* *A breakpoint lost to another vcpu* (`hooks_rearm_smp`).  `on_bp_hit`
  (`hook_bp.c:26`) stores the breakpoint mid-recoil in one place for all vcpus.
  If a second vcpu hits another breakpoint before the first has stepped, the
  first is overwritten and stays active but unplanted.  `hook_types.h:120-122`
  says whichever is pending *on the vcpu that stepped* gets the event.
* *A capture complete without a step* (`hooks_stale_capture`).  An instruction
  that writes two captured frames traps twice; the second hit flushes the first
  capture through `hook_mem_stepped` (`hook_mem.c:49`), which calls it complete
  if the bytes can be read.  `hook_types.h:69` says `mem_after_ok` is false when
  the step could not be had.
* *Stopping leaves a handle* (`guest_pool_stop`).  `lifecycle` (`pool.py:47-49`)
  drops the handle under the lock and stops the guest without it; a request
  waiting for the lock attaches again in between.  `tests/test_engine.py:308-309`
  asserts that the handle is closed once the stop has answered.
* *A walk that does not end* (`walks_small_max`).  `walk_visit` (`kwalk.c:176`)
  probes the visited table until it meets the address or a free slot.  The table
  has room for twice the nodes asked for, but `kwalk_rbtree` counts against that
  number only when it puts a node out (`kwalk.c:366`), so up to 96 nodes may be visited on
  the way down a left side first.  Asked for 63 or fewer, that can be more than the table holds,
  and the search of a full table never stops.  `kwalk.h:15-18` says that a
  corrupted or malicious structure ends a walk with an error rather than a hang.

Three more have no run of their own.

*Ids that come round*: it takes an xarray larger than the runs'.  `xa_node` accepts a shift of 60 (`kwalk.c:451`: a multiple of
`chunk_shift`, which is 6, below 64) and gives slot `i` of such a root the id `i << 60`
(`kwalk.c:466`), so slots 16 and up repeat the ids of slots 0 to 15.  `kwalk.h:117` says
"in id order".  No kernel builds such a tree, a corrupted one may look like it.  The
properties of ids are stated for roots whose ids fit (`IdsFit`).

*Attached and shown as not attached*.  A reload that fails has
dropped the profile there was (`rv.c:52-54`) and leaves no error, since only
`_attach` records one (`pool.py:89`; `routers/guest.py:61` lets the exception pass).
`templates/guests.html:53-55` calls a guest with neither profile nor error "not attached".
One that succeeds may do it too: `routers/guest.py:62` forgets the error after
the lock was released, when it may be the error of a newer handle.  `AnswerAgrees` without
its exception for `reloaded` shows the first within a dozen steps.

*An answer that raises*.  `details_of` reads the handle and asks
it for its profile without the lock (`routers/vms.py:15, 20`).  If a thread drops the
guest in between, the handle raises `RootviewError`, which is not the `BackendError` that the
routes and pages turn into an answer.  `backends/base.py:24-26` says callers should surface what
fails to the user rather than treat it as a crash.  This is the second outcome of `Loaded`.

## 8. Not modelled

Output, argument parsing, JSON, templates and static pages carry no protocol.
eBPF analysis (`rvtools/ebpf`) and the detection rules are pure decoders of
formats; in `LiveView` a finding is its guest and subject, as its identifier
says. libvmi, KVMI, QEMU and the guest kernel are external and appear only as
the code uses them. C memory safety and performance are outside what these
models speak of.
