CONSTANTS
    c1 = c1
    i1 = i1
    w1 = w1
    r1 = r1
    r2 = r2
    p1 = p1
    v1 = v1
    v2 = v2
    None = None
    WalnutId = WalnutId
    Classes <- OneClass
    Inline <- InlineBuild
    Walnut <- OtherBuild
    Built <- OneClass
    Requests <- OneRequest
    Pages <- OnePage
    Ids <- TwoIds
    MaxFaults = 1
SPECIFICATION PageSpec
INVARIANTS PageTypeOK LookupIsAtomic RowsPointToBuilds StoredCodeIsShown ProvenanceIsTold
PROPERTIES CompilesEnd
