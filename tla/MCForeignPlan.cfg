CONSTANTS
    r1 = r1
    r2 = r2
    t1 = t1
    t2 = t2
    u1 = u1
    u2 = u2
    p1 = p1
    p2 = p2
    s1 = s1
    s2 = s2
    Null = Null
    basic = basic
    pro = pro
    Tenants = {t1, t2}
    Users = {u1, u2}
    Plans = {p1, p2}
    Names = {basic, pro}
    Subs = {s1, s2}
    Requests = {r1, r2}
SYMMETRY Symmetry
SPECIFICATION Spec
INVARIANTS
    PlansStayInTenant
