SPECIFICATION GovernanceSpec
CONSTANTS
    EvmChains = {eth, bsc}
    Substrate = {para}
    Connected = {eth, bsc}
    Assets = {a1}
    Accounts = {alice}
    Versions = {1, 2}
    MaxCalls = 3
    MaxList = 1
    None = None
CHECK_DEADLOCK FALSE
INVARIANT InstancesAnnounced
