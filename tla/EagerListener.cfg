SPECIFICATION Spec
CONSTANTS
    Vehicle = Vehicle
    Car = Car
    Classes = {Vehicle, Car}
    Subclass <- MCSubclass
    Pks = {1, 2}
    Fields = {owner}
    Keys = {k1, k2}
    MaxFetches = 2
INVARIANTS
    TypeOK
    ReportIsSound
    ReportIsComplete
CHECK_DEADLOCK FALSE
