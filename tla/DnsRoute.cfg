SPECIFICATION DnsFairSpec
CONSTANTS
    Reader = {r1, r2}
    Session = {s1, s2}
    wait_time = 1
    MaxEdits = 2
    MaxTime = 2
    MaxRestarts = 1
    FirstVersion = 1
PROPERTIES ServesSnapshots TableConverges AnnouncedChangesPublished
CHECK_DEADLOCK FALSE
