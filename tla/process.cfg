\* One process from LoadFromEnv to its exit; any build step may fail, it may be killed.
SPECIFICATION FairSpec
INVARIANTS TypeOK LeasesReleased SharedOutliveUsers
PROPERTIES CleansUp
CHECK_DEADLOCK FALSE
