CONSTANTS
    c1 = c1
    c2 = c2
    c3 = c3
    c4 = c4
    a = a
    none = none
    da = da
    Conn = {c1, c2, c3, c4}
    ListenerOf <- MCListenerOf
    FirstOf <- MCFirstOf
    Together <- MCTogether
    Update <- MCUpdate
    Rule = {a}
    Value = {a}
    Parse <- MCParse
    Dest = {da}
    NoHost = {}
    NoRule = none
    MatchRel <- MCMatch
SPECIFICATION PoliteSpec
INVARIANTS TypeOK StopQuiesces Audited IInv
PROPERTIES HandlersEnd StopReturns
CHECK_DEADLOCK FALSE
