SPECIFICATION SubFairSpec
CONSTANTS
    Fd = {f1}
    Mod = {m1, m2}
    thread_cnt = 2
    MaxSwaps = 2
CHECK_DEADLOCK FALSE
INVARIANT BookedWhileOpen
INVARIANT OnlyEraseLosesPushes
PROPERTY PushesArrive
