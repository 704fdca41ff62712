CONSTANTS
    Parents = {p1, p2}
    Children = {c1, c2}
    Grands = {g1}
    Nodes = {n1}
    Here = Here
    Elsewhere = Elsewhere
    MaxPivots = 1
    Null = Null
SPECIFICATION RelationsSpec
INVARIANTS WritesStayInside
CHECK_DEADLOCK FALSE
