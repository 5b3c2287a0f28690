CONSTANTS
    Gens = {"g1", "g2"}
    Asyncs = {"a1"}
    Casts <- Nestings
    MaxDepth = 4
    Faults = {}
    Objects = {"o1"}
    Values = {"v"}
    CollectionCasts <- Makings
    Arrays <- ArrayItems
    MaxEntries = 2
    MaxItems = 2
SPECIFICATION MCSpec
INVARIANTS StacksExact BodiesKept SourcesConsumed HandlesApart
