CONSTANTS
    Systems = {"linux", "darwin"}
    Installed = {"pasta", "slirp4netns"}
    MaxSignals = 1
SPECIFICATION FairSpec
PROPERTY KillEnds
CHECK_DEADLOCK FALSE
