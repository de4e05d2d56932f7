SPECIFICATION FairSpec
CONSTANTS
    a = a
    b = b
    Alice = Alice
    Bob = Bob
    i1 = i1
    i2 = i2
    s1 = s1
    s2 = s2
    o1 = o1
    o2 = o2
    NoToken = NoToken
    NoName = NoName
    Tokens = {a, b}
    People = {Alice, Bob}
    HolderOf <- TwoHolders
    Revocable = {a}
    StoreMayFail = FALSE
    SignIns = {s1}
    SignOuts = {}
    Inquiries = {i1}
PROPERTY CollectsAtOnce
PROPERTY NamedInTheEnd
