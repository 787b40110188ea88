CONSTANTS
    w1 = w1
    w2 = w2
    w3 = w3
    r1 = r1
    r2 = r2
    admin = admin
    ann = ann
    bob = bob
    Null = Null
    Workers = {w1, w2, w3}
    Requests = {r1, r2}
    Names = {admin, ann, bob}
    FirstSuperuser = admin
    Ids = {1, 253, 254, 506, 64514}
    MaxCrashes = 2
SPECIFICATION FairSpec
INVARIANTS
    TypeOK
    NamesAreUnique
    SuperuserIsBootstrapped
    SomeoneSurvives
    AddressesAreDistinct
PROPERTIES
    HopeIsKept
    BootServes
CHECK_DEADLOCK FALSE
