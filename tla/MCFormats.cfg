\* Short inputs of crc32 and the version strings of the tests; messages with up to four
\* headers and three tokens of text; binaries of four cells, or five pieces of .rdata.
SPECIFICATION FormatsSpec
CONSTANTS
    Inputs <- MCInputs
    Token <- MCToken
    HeaderMaps <- MCHeaders
    Bodies <- MCBodies
    Platforms <- MCPlatforms
    Ids <- MCIds
    Files <- MCFiles
    Half <- MCHalf
    Wide <- MCWide
    Needle <- MCNeedle
INVARIANTS
    RemainderInv
    KnownBuildIDs
    RoundTrip
    BuildIDFound
    NewestFound
