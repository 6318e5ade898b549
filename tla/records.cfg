\* What readers ask and are shown: the chat, the owners of charts, the free layer, the
\* geometry and the gates of the texts, and the backups; the turns of a conversation,
\* what the chat remembers of a report, and the revisions of the database.
SPECIFICATION RecordsSpec
CONSTANTS
    Running = {"chat", "owners", "today", "zodiac", "text", "backups",
               "answers", "memory", "migrations"}
    e1 = e1
    e2 = e2
    e3 = e3
    x1 = x1
    x2 = x2
    y1 = y1
    y2 = y2
    \* Chat: overlapping requests, a pack and a plan, two days
    Requests = {e1, e2, e3}
    LastDay = 1
    Limit = 2
    MaxAsked = 4
    Units = 1
    HasPlan = TRUE
    \* Owners
    Browsers = {"b1"}
    Tabs = {x1, x2}
    Accounts = {y1, y2}
    Sheets = {e1, e2, e3}
    JarSize = 2
    \* Today
    Pages = {x1, x2}
    Question = TRUE
    LastDate = 3
    \* Zodiac
    Circle = 48
    Angles = {0, 8, 12, 16, 24}
    Orb <- MCOrb
    CuspLists <- MCCuspLists
    Targets = {5}
    Pace = 2
    Gate = 2
    LastSample = 4
    Group = 5
    Back = 5
    Steps = 8
    \* TextGate
    Jobs <- MCJobs
    Bodies = {"Sun", "Uranus"}
    Aspects <- MCAspects
    Rules <- MCRules
    Items <- MCItems
    Companions <- MCCompanions
    Attempts = 2
    \* Backups
    Runs = {"r1", "r2"}
    LocalDays = 0
    RemoteDays = 1
    FinalDay = 2
    MaxDumps = 3
    \* Answers: overlapping turns, one provider that streams
    Turns = {e1, e2, e3}
    Route <- MCRoute
    AtOnce = {"gateway"}
    MaxPieces = 1
    HistoryRows = 3
    HistoryWindow = 2
    \* Memory
    Indexers = {x1, x2}
    Books = {"k1"}
    Texts <- MCTexts
    Size = 4
    Overlap = 1
    MaxChunks = 4
    TopK = 1
    \* Migrations
    Drifts <- MCDrifts
    SubRows = {1, 2, 3}
    Expiries = {0, 1, 2}
    Sales = {x1, x2}
    Copies = {y1, y2}
SYMMETRY Symmetric
INVARIANTS
    RecordTypesOK
    
    
    
    
    
    MemoryKept
    MigrationsKept
PROPERTIES
    ChartsFollowReader
    FreeLayerKept
\* Each of them may stop.
CHECK_DEADLOCK FALSE
