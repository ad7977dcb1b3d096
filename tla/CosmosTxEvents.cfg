\* A call of one transaction.
SPECIFICATION Spec
CONSTANTS
    MsgLists <- OneList
    MaxMsgNum = 30
    MaxTxSize = 3
    RpcTimeouts <- OneDelay
    MaxGas = 100
    Adjustment = 10
    Price = 25
    Estimates <- GasUsed
    MaxCalls = 1
    MaxRivals = 1
INVARIANTS
    OkMeansCommitted
CHECK_DEADLOCK FALSE
