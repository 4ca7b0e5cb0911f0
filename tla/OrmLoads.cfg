\* A unit of work with any of the three ORMs.
SPECIFICATION Spec
CONSTANTS
    Pet = Pet
    User = User
    Other = Other
    p1 = p1
    p2 = p2
    u1 = u1
    o1 = o1
    user = user
    rival = rival
    friends = friends
    pets = pets
    patron = patron
    None = None
    Orms = {"django", "sqlalchemy", "peewee"}
    Models = {Pet, User, Other}
    Rows = {p1, p2, u1, o1}
    Relations = {user, rival, friends, pets, patron}
    ModelOf <- MCModelOf
    KeyOf <- MCKeyOf
    Owner <- MCOwner
    Kind <- MCKind
    Target <- MCTarget
    Qualified <- MCQualified
    Bare <- MCBare
    QualifiedOrms = {"django"}
    Whitelist <- MCWhitelist
    Windows <- MCWindows
    MaxEager = 1
    MaxCopies = 2
    MaxSteps = 3
INVARIANTS
    TypeOK
    LazyIsSound
    LazyIsComplete
    RaisingStopsTheQuery
    UnusedIsSound
    
CHECK_DEADLOCK FALSE
