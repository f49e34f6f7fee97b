SPECIFICATION ConsoleSpec
CONSTANTS
    Tab = {t1, t2}
    Session = {s1, s2}
    Db = {d1, d2}
    Modid = {m1, m2}
    SessionKeys = 2
    MaxId = 2
    MaxRequests = 4
SYMMETRY Symmetry
CHECK_DEADLOCK FALSE
INVARIANT AdmittedHasDatabase
INVARIANT ChangesAnnounced
