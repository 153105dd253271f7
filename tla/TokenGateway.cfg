SPECIFICATION MCSpec
CONSTANTS
    None = None
    EvmChains = {eth, bsc}
    Substrate = {para}
    Scale <- ScaleOf
    Transfers = {t1, t2}
    MaxAmount = 2
    MaxChanges = 3
    Supply = 2
    Float = 2
    Connected = {eth}
    Assets = {a1}
    Accounts = {alice}
    Versions = {1, 2}
    MaxCalls = 3
    MaxList = 1
CHECK_DEADLOCK FALSE
INVARIANTS
    Backed
    
    CreatedOnce
    HostsFollow

    
    
