CONSTANTS
    Systems = {"linux"}
    Installed = {"pasta", "slirp4netns"}
    MaxSignals = 0
SPECIFICATION Spec
INVARIANT RunsOnce
CHECK_DEADLOCK FALSE
