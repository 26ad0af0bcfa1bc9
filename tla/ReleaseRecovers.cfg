CONSTANTS
    Installs = {1, 2}
    Schemas = {"old", "current"}
    Candidates = {3, 4}
    Broken = {1, 2, 3}
    MaxTroubles = 2
    MaxVersion = 2
SPECIFICATION ReleaseSpec
INVARIANT RecoveredIfUsable
