CONSTANTS
    r1 = r1
    r2 = r2
    r3 = r3
    u1 = u1
    u2 = u2
    n1 = n1
    n2 = n2
    a1 = a1
    a2 = a2
    a3 = a3
    Null = Null
    east = east
    west = west
    Users = {u1, u2}
    Nodes = {n1, n2}
    Names = {east, west}
    AssignmentIds = {a1, a2, a3}
    Requests = {r1, r2, r3}
SYMMETRY Symmetry
SPECIFICATION Spec
INVARIANTS
    TypeOK
    AssignmentsSound
PROPERTIES
    MapSpec
