--------------------------- MODULE MCKernelWalks ---------------------------
(* The walkers alone, for the instances that look at one structure.          *)
EXTENDS KernelWalks

CONSTANT unmapped

Plain == [fn \in {"list", "hlist"} |-> {0, NoMember}]
WalksSpec == WalksInit /\ [][WalksNext(Plain, TRUE, TRUE, {})]_walkVars /\ FairWalks

Root  == 8192
Nd(k) == 8192 + 64 * k

(* A tree that is one left spine of Spine nodes, as it stands in the guest.  *)
Spine == 18
SpineNodes == {Nd(k) : k \in 1..Spine}
SpineTrees == [a \in SpineNodes |->
    {[parent |-> IF a = Nd(1) THEN 0 ELSE a - 64, right |-> 0,
      left |-> IF a = Nd(Spine) THEN 0 ELSE a + 64]}]
SpineWords == [a \in {Root} |-> {Nd(1)}]
Empty == <<>>
=============================================================================
