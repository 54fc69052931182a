CONSTANTS
    d = d
    x = x
    y = y
    p1 = p1
    p2 = p2
    i1 = i1
    Entry = {d, x, y}
    Default = {d}
    Cli = {p1, p2}
    AddOf <- MCAddOf
    SameDir = {p1, p2}
    Setup = {i1}
    Edit <- MCEdit
    Grain = 1
    MaxClock = 2
SPECIFICATION Spec
INVARIANT AddedStays
