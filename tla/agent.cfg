SPECIFICATION AgentSpec
CONSTANTS
    Images = {good, bad}  Bad = {bad}  NoImage = NoImage
    MaxReleases = 2
    MaxFaults = 1
INVARIANTS
    FailedUpgradeRollsBack
