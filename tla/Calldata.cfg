CONSTANTS
    None = None
    Prime = 31
    Word = 4
    MaxArray = 6
    Types <- MCTypes
    Depth <- MCDepth
    MaxDepth = 5
    ValuesOf <- MCValuesOf
    Contracts <- MCContracts
    Abis <- MCAbis
    Upgrades <- MCUpgrades
    MaxCalls = 2
    MaxUpgrades = 1
    MaxFaults = 1
SPECIFICATION Spec
INVARIANTS DecodedAsWritten EncodingRestores ArgumentsShown
CHECK_DEADLOCK FALSE
