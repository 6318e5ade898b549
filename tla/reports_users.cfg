\* Repeated clicks while requests, enqueues and jobs overlap and workers die.
SPECIFICATION FairSpec
CONSTANTS
    w1 = w1
    w2 = w2
    Workers <- WorkerSlots
    MaxReports = 2
    Clickers = {"c1", "c2", "c3"}
    Regenerate = FALSE
    Buyers = {}
    Admins = {}
    Recoverers = {}
    Retriers = {}
    ProcessMayDie = FALSE
    LostAnswers = FALSE
    MaxRetries = 1
    MaxJobs = 2
    MaxDeaths = 2
    MaxTimeouts = 0
INVARIANTS
    ClicksAreAttended
PROPERTIES
    DoneStaysDone
    ReportsEnd
\* Finished reports leave nothing to do.
CHECK_DEADLOCK FALSE
