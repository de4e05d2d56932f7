SPECIFICATION FairSpec
CONSTANTS
    p1 = p1
    p2 = p2
    f1 = f1
    f2 = f2
    f3 = f3
    NoProc = NoProc
    NoFile = NoFile
    Package = Package
    Procs = {p1, p2}
    Inodes = {f1, f2}
    Attempts = 3
    ReleaseWithin = 1
    MaxMishaps = 2
INVARIANT TypeOK
INVARIANT OneAgent
INVARIANT JobInstalled
PROPERTY NeverConcedesToTheDead
PROPERTY AgentInTheEnd
