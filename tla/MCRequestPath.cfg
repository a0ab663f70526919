SPECIFICATION Spec
CONSTANTS
    LunaAutoModel = "gpt-5-luna"
    Configurations <- MCConfigurations
    Asks <- MCAsks
    Addresses = {"public", "public too", "private"}
    Public = {"public", "public too"}
    MaxRedirects = 2
    MaxImageInputs = 2
INVARIANTS
    PathTypeOK
    ImagesComeFromPublic
    FetchesBounded
    EveryRunSeesAllImages
    EffortKept
    LunaAsConfigured
    CalledModelsListed
CHECK_DEADLOCK FALSE
