CONSTANTS
    Systems = {"linux", "darwin"}
    Installed = {"pasta", "slirp4netns"}
    MaxSignals = 0
SPECIFICATION Spec
INVARIANT TerminalRestored
CHECK_DEADLOCK FALSE
