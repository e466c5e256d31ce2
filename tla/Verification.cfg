CONSTANTS
    plain = plain
    inline = inline
    old = old
    f1 = f1
    m1 = m1
    NoHash = NoHash
    Hashes <- AllClasses
    Inline <- InlineAll
    Full <- OneFull
    Minimal <- OneMinimal
    Ids <- OneEach
    Requests <- PlainAndOld
    MaxLost = 1
    MaxCrashes = 1
SPECIFICATION FairSpec
INVARIANTS VerifiedHasFile SuccessIsVerified MinimalSuccessIsStored
PROPERTIES FinalStatusStays PendingResolves
CHECK_DEADLOCK FALSE
