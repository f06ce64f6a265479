SPECIFICATION FairSpec
CONSTANTS
    Workers = {w1, w2}
    First = w1
    nbrepeats = 1
    nbaccounts = 2
    init_balance = 1
    nbtxperwrk = 2
    CheckTx = 2
    MaxExceptions = 1
INVARIANTS TypeOK RoundsTogether VerdictIsTrue NobodyPassesAlone MoneyConserved NoFalseAlarm
CHECK_DEADLOCK FALSE
PROPERTY MeasureEnds
