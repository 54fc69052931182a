CONSTANTS
    c1 = c1
    k1 = k1
    w = w
    a = a
    b = b
    none = none
    blank = blank
    dab = dab
    nohost = nohost
    Conn = {c1}
    Ctl = {k1}
    Watcher = w
    Rule <- MCRule
    Value <- MCValue
    Parse <- MCParse
    Dest <- MCDest
    NoHost = {nohost}
    NoRule = none
    MatchRel <- MCMatch
    Config <- MCConfig
    NoCall = NoCall
    NoReply = NoReply
    NoProc = NoProc
    MaxRules = 2
SPECIFICATION FairSpec
INVARIANTS TypeOK Exclusion IInv
PROPERTIES ImplementsStore EveryCallReturns
