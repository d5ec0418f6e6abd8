SPECIFICATION FairSpec
CONSTANTS
    Installations <- MCInstallations
    HashOf <- MCHashOf
    Nil = Nil
    MethodArraySlots = 8
INVARIANTS TypeOK LookupFindsSource InstanceSizesAddUp SymbolsUnique RegisteredModulesComplete OverridesKept SoundSourcesLoad
PROPERTIES WorkEnds
CHECK_DEADLOCK FALSE
