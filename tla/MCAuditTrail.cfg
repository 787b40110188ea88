CONSTANTS
    r1 = r1
    r2 = r2
    u1 = u1
    u2 = u2
    u3 = u3
    t1 = t1
    t2 = t2
    ro1 = ro1
    ro2 = ro2
    m1 = m1
    m2 = m2
    m3 = m3
    admin = admin
    support = support
    Null = Null
    Requests = {r1, r2}
    UserIds = {u1, u2}
    TenantIds = {t1}
    RoleIds = {ro1, ro2}
    MembershipIds = {m1}
    RoleNames = {admin, support}
    Admin = admin
SYMMETRY Symmetry
SPECIFICATION Spec
PROPERTIES
    AuditIsAppendOnly
