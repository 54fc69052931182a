CONSTANTS
    Label <- MCLabel
    Lower <- MCLower
    Star = "*"
    Empty = ""
    InNet <- MCInNet
    HomeOf <- MCHomeOf
    ShareDest <- MCShareDest
    HostDir = {"/p/claude", "/q/claude", "/p/aider", "/home/aider"}
    Expand <- MCExpand
    HostEnv = {"PATH", "TOKEN", "SECRET", "HTTP_PROXY", "SSL_CERT_FILE"}
    Default <- MCDefault
    Value <- MCValue
    AddValue <- MCAddValue
    Dest <- MCDest
    OtherDest <- MCOtherDest
    UserFile <- OneFile
    ProjectFiles <- OneFile
    MaxEdits = 1
    MaxAllow = 1
    MaxLog = 2
SPECIFICATION Spec
PROPERTY AllowOnlyAdds
CHECK_DEADLOCK FALSE
