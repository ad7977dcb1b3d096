\* Three keys added, two at a time, while the chain signs and the folder is
\* listed; two stores of a configuration; transactions of up to three messages;
\* small strategies of delays, and those of the code.
CONSTANTS
    Names <- FourNames
    KeyName <- TheKey
    MaxAdds = 3
    MaxOpen = 2
    MaxStores = 2
    Txs <- UpToThree
SPECIFICATION AllSpec
INVARIANTS
    TypesOK
    AcknowledgedKeysKept
    OneKeyUnlessTouched
    ListedKeysRight
    OwnValuesRead
    LimitsKept
    DelaysCounted
PROPERTIES
    LoadsWhatWasStored
\* The adds, the stores and the delays are bounded, and a panic is the end.
CHECK_DEADLOCK FALSE
