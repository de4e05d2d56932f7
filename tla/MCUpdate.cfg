SPECIFICATION UpdateSpec
CONSTANTS
    g1 = g1
    g2 = g2
    m1 = m1
    m2 = m2
    Agents = {g1, g2}
    Mounts = {m1, m2}
    MountName = m1
    Period = 3
    Cap = 2
INVARIANT TypeOK
INVARIANT OnlyVerified
INVARIANT NeverLost
INVARIANT CopiesItsOwnImage
INVARIANT SelfTypeOK
INVARIANT OnlyChecked
PROPERTY BackUnlessMishap
PROPERTY NeverPutOff
PROPERTY AgentAfterUpdate
CHECK_DEADLOCK FALSE
