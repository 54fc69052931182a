SPECIFICATION Spec
CONSTANTS
    x1 = x1  x2 = x2  x3 = x3  l1 = l1  l2 = l2
    here = here  elsewhere = elsewhere  Nobody = Nobody
    Sandbox = {x1, x2, x3}
    Lister = {l1, l2}
    PidOf <- MCPidOf
    PortOf <- MCPortOf
    CwdOf <- MCCwdOf
INVARIANTS TypeOK LiveKept PruneComplete OwnDirTold EndsClean IInv
CONSTRAINT Small
CHECK_DEADLOCK FALSE
