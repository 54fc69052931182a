CONSTANTS
    Systems = {"linux", "darwin"}
    Installed = {"pasta", "slirp4netns"}
    MaxSignals = 2
SPECIFICATION EndingSpec
INVARIANTS TypeOK OneAtATime OwnHandshake LeavesNothing IInv
PROPERTY ComesToCleanup
CHECK_DEADLOCK FALSE
