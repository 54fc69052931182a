CONSTANTS
    d = d
    x = x
    y = y
    p1 = p1
    p2 = p2
    i1 = i1
    Entry = {d, x, y}
    Default = {d}
    Cli = {p1}
    AddOf <- MCAddOf
    SameDir = {p1}
    Setup = {i1}
    Edit <- MCEdit
    Grain = 2
    MaxClock = 4
SPECIFICATION Spec
INVARIANTS IInv NoMissedChange
PROPERTY Converges
