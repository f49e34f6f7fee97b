SPECIFICATION FairSpec
CONSTANTS
    MESSAGE_HEAD_LEN = 2
    MESSAGE_LENGTH_LIMIT = 2
    Length = {0, 1, 2, 3}
    OutLimit = 7
    SocketLimit = 3
    MaxMsgs = 3
CHECK_DEADLOCK FALSE
INVARIANT OnlyFailedBodyBreaks
INVARIANT WholeMessagesInOrder
PROPERTY Delivered
INVARIANT OnlyLongBodyCloses
