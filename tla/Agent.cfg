SPECIFICATION FairSpec
CONSTANTS
    Mod = {m1, m2}
    PortValue = {80, 70000}
    MaxLines = 4
    InboxLimit = 2
    MaxMsgs = 3
CHECK_DEADLOCK FALSE
INVARIANT PullOnItsWay
INVARIANT OnlyDnsQueueTooEarly
PROPERTY ConnectedIsServed
PROPERTY SentAndAnswered
PROPERTY PortIsConfigured
