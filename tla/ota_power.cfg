SPECIFICATION Spec
CONSTANTS
    u1 = u1
    u2 = u2
    v1 = v1
    v2 = v2
    v3 = v3
    n1 = n1
    n2 = n2
    junk = junk
    torn = torn
    none = none
    Urls <- OneUrl
    Versions <- ThreeVersions
    Names <- OneName
    NameOf <- NameOne
    Size <- SizesThree
    MaxRetry = 1
    MaxLength = 3
    Events = {"reboot", "republish", "network", "misc"}
    Junk = junk
    Torn = torn
    None = none
\* A device that is offered nothing is done.
CHECK_DEADLOCK FALSE
INVARIANT RecoveryFindsPackage
