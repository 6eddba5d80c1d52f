\* A file of up to three chunks put in up to twice, above the ceiling of the
\* removal, beside an article with one chunk: a query finds three datapoints of four.
\* Documents of up to five items, some of them longer than the target.
SPECIFICATION MCSpec
CONSTANTS
    Target = 9
    MinSection = 6
    Sizes = {1, 3, 10}
    MaxItems = 5
    MaxChunks = 3
    MaxVersions = 2
    UpsertBatch = 2
    Ceiling = 2
    Sweep = 1
    TopK = 3
CHECK_DEADLOCK FALSE
INVARIANTS
    NothingLost
    ChunksFit
    HeadingIsNearest
    SectionsStayApart
    KnowledgeTypeOK
    IngestComplete
    RemovedIsGone
    LinksMatchMarkers
PROPERTIES
    RemovedIsNotCited
    IngestedIsServed
