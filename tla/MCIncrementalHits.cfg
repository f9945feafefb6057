SPECIFICATION Spec
CONSTANTS
    Files = {"s", "h", "g", "o1", "o2", "o3", "all"}
    Edges = {"e1", "e2", "e3", "all"}
    Projects <- MCCachedCompile
    Rules <- MCRules
    MaxUser = 2
    MaxBuilds = 2
    Editable = {"h"}
    Deletable = {}
INVARIANT
    DepsSurviveHits
