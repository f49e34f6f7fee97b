SPECIFICATION FairSpec
CONSTANTS
    threadNum = {1, 3}
    MaxTasks = 1
    max_conns = 2
    OtherFds = 0
    FdLimit = 3
    MaxConns = 3
CHECK_DEADLOCK FALSE
INVARIANT NoLostWakeup
INVARIANT InOrderExactlyOnce
INVARIANT OneOwner
INVARIANT TableInStep
PROPERTY MessagesHandled
