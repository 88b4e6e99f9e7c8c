SPECIFICATION Spec
CONSTANTS
    v1 = v1  v2 = v2  n1 = n1  n2 = n2  a1 = a1  a2 = a2  g1 = g1  g2 = g2
    cr3 = cr3  l1 = l1  l2 = l2  gdtr = gdtr  any = any  none = none
    Vcpus = {v1, v2}
    Tracked = {v1}
    Names = {n1, n2}
    MidRecoil = TRUE
    Vaddrs = {a1, a2}
    Lost = {a2}
    Gfns = {g1}
    Regs = {}
    Leaves = {}
    AnyLeaf = any
    Tables = {}
    Masks <- WriteMask
    Insns <- SmpInsns
    HookMax = 2
    None = none
INVARIANTS
    TypeOK
    HooksFindable
    Registered
    PendingCaptures
    PendingBreakpoint
    OwnBytes
PROPERTIES
    ReinjectsAfterRemovalOnly
