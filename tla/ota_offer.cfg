SPECIFICATION Spec
CONSTANTS
    u1 = u1
    u2 = u2
    v1 = v1
    v2 = v2
    v3 = v3
    n1 = n1
    n2 = n2
    junk = junk
    torn = torn
    none = none
    Urls <- TwoUrls
    Versions <- ThreeVersions
    Names <- TwoNames
    NameOf <- NamesTwo
    Size <- SizesThree
    MaxRetry = 1
    MaxLength = 3
    Events = {}
    Junk = junk
    Torn = torn
    None = none
\* A device that is offered nothing is done.
CHECK_DEADLOCK FALSE
INVARIANT TaskMatchesOffer
