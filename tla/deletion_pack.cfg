\* An account with two reports, whose deletion is tried twice.
SPECIFICATION DeletionSpec
CONSTANTS
    Reports = {"r1", "r2"}
    MaxRetries = 2
INVARIANTS
    Deletable
\* The account is gone, and nothing is left to do.
CHECK_DEADLOCK FALSE
