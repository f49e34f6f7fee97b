SPECIFICATION Spec
CONSTANTS
    Agent = {1, 2}
    thread_cnt = 2
    MaxReports = 2
    Lb <- MCLb
CHECK_DEADLOCK FALSE
INVARIANTS RowHoldsReport StoredOnce
PROPERTY BackOnlyAcrossThreads
