CONSTANTS
    modA = modA  modB = modB  app = app  tool = tool  debug = debug  release = release
    clang = clang
    Builder = {b1, b2}
    Program = {app, tool}
    Profile = {debug, release, clang}
    Mode <- MCMode
    Suffix <- MCSuffix
    Module = {modA, modB}
    Order <- MCOrder
    RtVersion = {0, 2}
    RtHeader <- MCRtHeader
    Text <- MCText
    Text0 <- MCText0
    Rt0 = 0
    Command <- MCCommand
    None = None
    Torn = Torn
    MaxBuilds = 3
    MaxEdits = 1
    MaxKills = 1
SPECIFICATION Spec
SYMMETRY Symmetry
CHECK_DEADLOCK FALSE
INVARIANTS
    CacheHonest
    ObjectsCurrent
    CleanBuildCurrent
