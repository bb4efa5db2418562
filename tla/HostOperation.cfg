SPECIFICATION FairSpec
CONSTANTS
    pxe = pxe
    plain = plain
    h1 = h1
    s1 = s1
    s2 = s2
    Ops = {pxe, plain}
    Hosts = {h1}
    Systems = {s1, s2}
    SystemsOf <- MCSystemsOf
    Target <- MCTarget
    Pxe = {pxe}
    None = None
    MaxChanges = 3
    MaxFaults = 1
INVARIANTS TypeOK SuccessMeansAll OnceUnlessDisturbed OverrideUsedUp
PROPERTIES FinalStatus EventuallyFinished
CHECK_DEADLOCK FALSE
