CONSTANTS
    Runners = {api, worker, other}
    Files <- MCFiles
    Legacy = {"users", "meetings"}
    MaxCrashes = 2
    Nobody = Nobody
SPECIFICATION FairSpec
INVARIANTS TypeOK RowsDescribeSchema StartedMeansMigrated
PROPERTY MigrationCompletes
CHECK_DEADLOCK FALSE
