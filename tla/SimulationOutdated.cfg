CONSTANTS
    c1 = c1
    c2 = c2
    x1 = x1
    x2 = x2
    main = main
    sepolia = sepolia
    t1 = t1
    t2 = t2
    Latest = Latest
    Txs <- TwoTxs
    Rpcs <- TwoRpcs
    SimRequests <- OneRequest
    Classes <- TwoClasses
    Uses <- UsesBoth
    Tasks <- TwoTasks
    MaxBlock = 0
    MaxLapses = 1
SPECIFICATION FairCacheSpec
PROPERTY OutdatedIsDropped
