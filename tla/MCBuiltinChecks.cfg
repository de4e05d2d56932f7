SPECIFICATION BuiltinSpec
CONSTANTS
    Seconds <- MCSeconds
    Schemes <- MCSchemes
    Registries <- MCRegistries
    Limits <- MCLimits
    MaxFailed = 1
    Items <- MCItems
    Storages <- MCStorages
    Desktops <- MCDesktops
    Managers <- MCManagers
    Volumes <- MCVolumes
    Policies <- MCPolicies
    Minute = 2
    KdeTimeout = 3
    XfceDelay = 2
    LightLockerLag = 3
    Unit = 2
    Forever = 7
INVARIANT ChecksTypeOK
INVARIANT WindowsYesIsBounded
INVARIANT WindowsNoIsSeen
INVARIANT YesIsTrue
 
INVARIANT OnlyReads
