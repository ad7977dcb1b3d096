\* Two calls, each of up to four transactions, and a rival on the account.
SPECIFICATION FairSpec
CONSTANTS
    MsgLists <- MixedLists
    MaxMsgNum = 2
    MaxTxSize = 3
    RpcTimeouts <- Timeouts
    MaxGas = 100
    Adjustment = 10
    Price = 25
    Estimates <- GasUsed
    MaxCalls = 2
    MaxRivals = 2
INVARIANTS
    TypeOK
    MessagesKept
    CutAtTheLimit
    OkMeansRejected
    NoConfirmationIsTrue
    GivesUpInTime
    FeeCovered
PROPERTIES
    OneTxPerBlock
    EveryCallEnds
CHECK_DEADLOCK FALSE
