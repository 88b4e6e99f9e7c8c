SPECIFICATION FairSpec
CONSTANTS
    v1 = v1  v2 = v2  n1 = n1  n2 = n2  a1 = a1  a2 = a2  g1 = g1  g2 = g2
    cr3 = cr3  l1 = l1  l2 = l2  gdtr = gdtr  any = any  none = none
    Vcpus = {v1}
    Tracked = {v1}
    Names = {n1, n2}
    MidRecoil = FALSE
    Vaddrs = {a1, a2}
    Lost = {}
    Gfns = {g1}
    Regs = {cr3}
    Leaves = {l1}
    AnyLeaf = any
    Tables = {gdtr}
    Masks <- AllMasks
    Insns <- PlainInsns
    HookMax = 2
    None = none
INVARIANTS
    UnplantedIsPending
    PendingIsStepping
PROPERTIES
    CompleteMeansStepped
    Rearmed
