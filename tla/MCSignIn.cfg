SPECIFICATION FairSpec
CONSTANTS
    s1 = s1
    s2 = s2
    o1 = o1
    SignIns = {s1, s2}
    SignOuts = {o1}
    PoolSize = 1
    Debounce = 3
INVARIANT TypeOK
 
INVARIANT WayBack
PROPERTY JobsRun
