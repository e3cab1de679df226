SPECIFICATION Spec
CONSTANTS
    KnownAnnotations <- MCKnown
    OtherAnnotations <- MCOther
    Instructions <- MCInstructions
    LargeLayer = 5
    LocalPlatform <- MCLocal
    VersionOf <- MCVersions
    NamedTags <- MCNamed
    KnownArtifacts <- MCArtifacts
    Worlds <- MCWorlds
    Matching <- MCMatching
    PAGE = 2
    RepoCap = 3
    TagCap = 3
    MaxClicks = 3
    MaxFaults = 1
    MaxPushes = 2
INVARIANTS
    TypeOK
    UrlMatchesPanel
    Coherent
    DeleteConfirmed
    LayersComplete
    AnnotationsHonest
    BestEffort
    AutoTagNewest
CHECK_DEADLOCK FALSE
