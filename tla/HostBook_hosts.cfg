CONSTANTS
    Names = {n1, n2}
    KeyNames = {k1}
    Projects = {p1}
    MaxIds = 3
    MaxEvents = 2
SPECIFICATION Spec
SYMMETRY Symm
INVARIANTS NamesAreUnique MergeKeepsBoth
PROPERTIES BindingsResolve ActsOnShown MoveKeepsHost KillsTheArmed
CHECK_DEADLOCK FALSE
