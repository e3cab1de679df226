SPECIFICATION Spec
CONSTANTS
    KnownAnnotations <- MCKnown
    OtherAnnotations <- MCOther
    Instructions <- MCInstructions
    LargeLayer = 5
    LocalPlatform <- MCLocal
    VersionOf <- MCVersions
    NamedTags <- MCNamed
    KnownArtifacts <- MCArtifacts
    Worlds <- ChildWorlds
    Matching <- MCMatching
    PAGE = 2
    RepoCap = 3
    TagCap = 3
    MaxClicks = 3
    MaxFaults = 0
    MaxPushes = 0
INVARIANT DialogResolves
CHECK_DEADLOCK FALSE
