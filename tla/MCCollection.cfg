SPECIFICATION FairSpec
CONSTANTS
    s1 = s1
    s2 = s2
    r1 = r1
    Sessions = {s1, s2}
    Randoms = {r1}
    HasMachineId = FALSE
INVARIANT TypeOK
INVARIANT KnownIsKept
INVARIANT RefusedNotReused
PROPERTY EveryCycleEnds
PROPERTY ChecksInForever
