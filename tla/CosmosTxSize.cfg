\* Two messages that fit a transaction each, but not together.
SPECIFICATION Spec
CONSTANTS
    MsgLists <- OneList
    MaxMsgNum = 30
    MaxTxSize = 3
    RpcTimeouts <- OneDelay
    MaxGas = 100
    Adjustment = 10
    Price = 25
    Estimates <- GasUsed
    MaxCalls = 1
    MaxRivals = 1
INVARIANTS
    SizeRespected
CHECK_DEADLOCK FALSE
