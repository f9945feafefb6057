SPECIFICATION Spec
CONSTANTS
    Files = {"s", "h", "g", "o1", "o2", "o3", "all"}
    Edges = {"e1", "e2", "e3", "all"}
    Projects <- MCProjects
    Rules <- MCRules
    MaxUser = 2
    MaxBuilds = 2
    Editable = {"s", "h", "g"}
    Deletable = {"h"}
INVARIANTS
    CleanIsFresh
    BuildConverges
    CacheEntriesMatchKeys
PROPERTIES
    SourcesAreKept
