----------------------------- MODULE GuestDetails -----------------------------
(***************************************************************************)
(* What the pages and the API say of a guest (details_of in                 *)
(* src/src/ui/dynamic/rootview_web/routers/vms.py): it reads the pool's     *)
(* handle, asks the handle for its profile and reads the guest's profile    *)
(* error, all without the guest's lock, while the threads of GuestPool      *)
(* attach, work, reload and drop.  It runs on the event loop, which is one  *)
(* thread: one answer is put together at a time.                            *)
(***************************************************************************)
EXTENDS GuestPool

VARIABLES
    details,   \* the answer being put together: the locals of details_of
    reloaded   \* history: the guests whose profile somebody asked to reload

detailsVars == <<vars, details, reloaded>>

Details == [pc : {"idle", "profiled", "error"},
            vm : Vms \cup {None}, g : Handles \cup {0}, loaded : BOOLEAN]

NoDetails == [pc |-> "idle", vm |-> None, g |-> 0, loaded |-> FALSE]

(* The store knew the guest when it was asked; it may be gone by now.       *)
Attachment(v) ==
    LET g == guests[v] IN
    /\ details = NoDetails
    /\ details' = [NoDetails EXCEPT !.vm = v, !.g = g,
                       !.pc = IF g # 0 THEN "profiled" ELSE "error"]

(* A handle that was closed meanwhile raises RootviewError, and there is no *)
(* answer.                                                                  *)
Loaded ==
    /\ details.pc = "profiled"
    /\ \/ /\ details.g \in open
          /\ details' = [details EXCEPT !.loaded = details.g \in profiled, !.pc = "error"]
       \/ details.g \notin open /\ details' = NoDetails

(* What the answer says if the error is read now.                           *)
ProfileError == details.vm \in errors

Answered == details.pc = "error" /\ details' = NoDetails

DetailsOf ==
    /\ Loaded \/ Answered \/ \E v \in Vms : Attachment(v)
    /\ UNCHANGED <<vars, reloaded>>

LoopBusy == details # NoDetails

(* The threads go on meanwhile, but what the reload route does after its    *)
(* job runs on the event loop too.                                          *)
Meanwhile ==
    /\ LoopBusy => \A t \in Threads : job[t].pc = "clear" => UNCHANGED job[t]
    /\ reloaded' = reloaded \cup {job'[t].vm : t \in {u \in Threads : job'[u].op = "profile"}}
    /\ UNCHANGED details

DetailsInit == Init /\ details = NoDetails /\ reloaded = {}
DetailsNext == (Next /\ Meanwhile) \/ DetailsOf

DetailsSpec == DetailsInit /\ [][DetailsNext]_detailsVars

(* Each thread goes on with its job as in FairSpec.                         *)
FairDetailsSpec == DetailsSpec /\ \A t \in Threads : WF_detailsVars(Step(t) /\ Meanwhile)

-----------------------------------------------------------------------------
(***************************************************************************)
(* Properties.                                                              *)
(***************************************************************************)
(* An answer about a handle that the pool still has tells whether its       *)
(* profile loaded, and gives an error exactly if it did not, although it is *)
(* read in three steps and without the lock.  This is why the error is      *)
(* recorded before the handle is published and forgotten after it is taken  *)
(* away (pool.py:89-90, 104-107), and the handle read before the error.     *)
(* It is claimed of guests whose profile nobody asked to reload: a reload   *)
(* that fails leaves neither profile nor error (routers/guest.py:61), and   *)
(* one that succeeds forgets the error late (62).                           *)
AnswerAgrees ==
    /\ details.pc = "error" /\ details.g # 0
    /\ guests[details.vm] = details.g /\ details.vm \notin reloaded
    => (ProfileError <=> ~details.loaded)

=============================================================================
