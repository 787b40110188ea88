CONSTANTS
    r1 = r1
    r2 = r2
    u1 = u1
    u2 = u2
    xray = xray
    wireguard = wireguard
    NoRow = {noRow}
    Engines = {xray, wireguard}
    Wireguard = wireguard
    Users = {u1, u2}
    Requests = {r1, r2}
SYMMETRY Symmetry
SPECIFICATION Spec
INVARIANTS
    TypeOK
    EveryFlagTookEffect
    ServedWasAllowed
