SPECIFICATION Spec
CONSTANTS
    Workers = {w1, w2}
    First = w1
    nbrepeats = 1
    nbaccounts = 2
    init_balance = 1
    nbtxperwrk = 0
    CheckTx = 1
    MaxExceptions = 0
INVARIANT RoundTimed
CHECK_DEADLOCK FALSE
