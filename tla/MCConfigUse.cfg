CONSTANTS
    Label <- MCLabel
    Lower <- MCLower
    Star = "*"
    Empty = ""
    InNet <- MCInNet
    HomeOf <- MCHomeOf
    ShareDest <- MCShareDest
    HostDir = {"/p/claude", "/q/claude", "/p/aider", "/home/aider"}
    Expand <- MCExpand
    HostEnv = {"PATH", "TOKEN", "SECRET", "HTTP_PROXY", "SSL_CERT_FILE"}
    Default <- MCDefault
    Value <- MCValue
    AddValue <- MCAddValue
    Dest <- MCDest
    OtherDest <- MCOtherDest
    UserFile <- MCUserFile
    ProjectFiles <- MCProjectFiles
    MaxEdits = 1
    MaxAllow = 1
    MaxLog = 2
SPECIFICATION Spec
INVARIANTS TypeOK DocumentedVerdict FromLogOffers SandboxAsConfigured IInv
PROPERTIES InitNeutral AllowKeepsRest FromLogUnblocks
CHECK_DEADLOCK FALSE
