SPECIFICATION Spec
CONSTANTS
    Paths <- MCPaths
    HostFiles <- MCHostFiles
    HostFds = {3, 4}
    HostErrors = {"EIO", "EINTERNAL"}
    Numbers = {46, 56, 57, 63, 64, 65, 66, 93, 94, 214, 222, 244}
    MaxFd = 4
    Lengths = {0, 2}
    Iovs <- MCIovs
    Word = 14
    AnonymousBase = 6
    MapLengths = {1, 5}
    MaxMaps = 2
    MaxInput = 2
    KNOWN_SYSCALL_STOP = FALSE
    UNKNOWN_SYSCALL_STOP = TRUE
INVARIANTS DescriptorsOwned BytesReported MappingsDisjoint
CHECK_DEADLOCK FALSE
