CONSTANTS
    server1 = server1
    server2 = server2
    cairo1 = cairo1
    cairo2 = cairo2
    Machines <- TwoServers
    Tools = {"Scarb", "Sozo"}
    Releases <- TwoReleases
    Assets <- TwoReleases
    Names <- TwoNames
    BinaryName <- BinaryNames
    MaxFailedPuts = 1
    MaxCrashes = 1
    MaxRemoved = 1
SPECIFICATION FairSpec
PROPERTIES ColdStartRestores EverythingInstalled
