CONSTANTS
    c1 = c1
    c2 = c2
    x1 = x1
    x2 = x2
    main = main
    sepolia = sepolia
    t1 = t1
    t2 = t2
    Latest = Latest
    Txs <- TwoTxs
    Rpcs <- TwoRpcs
    SimRequests <- Mixed
    Classes <- OneClass
    Uses <- UsesNone
    Tasks <- TwoTasks
    MaxBlock = 1
    MaxLapses = 0
SPECIFICATION CacheSpec
INVARIANTS CacheTypeOK HitMatchesRequest
SYMMETRY Symmetry
