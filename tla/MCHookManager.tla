---------------------------- MODULE MCHookManager ----------------------------
(* The small guests the hook manager is checked on.                         *)
EXTENDS HookManager

CONSTANTS v1, v2, n1, n2, a1, a2, g1, g2, cr3, l1, l2, gdtr, any, none

Write(g) == [type |-> "mem", key |-> g, mode |-> "w"]
Read(g)  == [type |-> "mem", key |-> g, mode |-> "r"]
At(a, d) == [at |-> a, does |-> d]

(* One vcpu, every kind of hook; the instructions breakpoints are planted   *)
(* on touch no watched frame.                                               *)
PlainInsns == {At(a1, {}), At(a2, {}), At(none, {Write(g1)}), At(none, {Read(g1)}),
    At(none, {[type |-> "reg", key |-> cr3, mode |-> "w"]}),
    At(none, {[type |-> "cpuid", key |-> l1, mode |-> "x"]}),
    At(none, {[type |-> "desc", key |-> gdtr, mode |-> "w"]})}

(* Breakpoints on instructions that write, writes across two frames.        *)
MixedInsns == {At(a1, {}), At(a2, {Write(g1)}), At(none, {Write(g1), Write(g2)})}
SmpInsns   == {At(a1, {}), At(a2, {}), At(none, {Write(g1)})}

AllMasks  == {{"w"}, {"r", "w"}}
WriteMask == {{"w"}}
=============================================================================
