CONSTANTS
    PKG_HEAD_LEN = 1
    PKG_BODY_LEN = 5
    Clear = 2
    PtrClear = 2
    Found = {3}
    Record = 3
    Sizes = {1, 5, 6}
    MaxReply = 4
    MaxRequests = 2
    Totals = {4}
    MaxShort = 2
SPECIFICATION ExSpec
INVARIANTS ClientInStep AnswerIsOwn RequestDelivered AnswerBegun DescriptorsKept
PROPERTIES ImplementsTunnel ExchangeEnds
CHECK_DEADLOCK FALSE
