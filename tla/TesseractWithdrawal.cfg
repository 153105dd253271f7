SPECIFICATION WithdrawalFairSpec
CONSTANTS
    Tasks = {"auto", "manual"}
    MinAmount = 1
    MaxEarned = 3
    MaxStops = 1
INVARIANT
    WithdrawalsAccounted
PROPERTY
    OnlyExecutedRowsBlock
