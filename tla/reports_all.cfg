\* Two versions that users, the admin and the scripts ask for, in one session at a
\* time, while jobs overlap and time out.
SPECIFICATION Spec
CONSTANTS
    w1 = w1
    w2 = w2
    Workers <- WorkerSlots
    MaxReports = 2
    Clickers = {"u"}
    Regenerate = TRUE
    Buyers = {"u"}
    Admins = {"u"}
    Recoverers = {"u"}
    Retriers = {"u"}
    ProcessMayDie = TRUE
    LostAnswers = TRUE
    MaxRetries = 1
    MaxJobs = 1
    MaxDeaths = 1
    MaxTimeouts = 1
SYMMETRY SlotSymmetry
INVARIANTS
    DoneHasContent
\* Finished reports leave nothing to do.
CHECK_DEADLOCK FALSE
