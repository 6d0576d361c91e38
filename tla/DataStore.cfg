\* Two versions, three temp names, so that names collide with strays.
SPECIFICATION Spec
CONSTANTS
    Value = {v1, v2}
    TempName = {n1, n2, n3}
    TempNameAttempts = 2
    Missing = Missing
    Torn = Torn
    NoFile = NoFile
    NoCall = NoCall
    NoTemp = NoTemp
    MaxAccidents = 3
SYMMETRY Symmetry
INVARIANTS
    TypeOK
    NeverTorn
    OneStrayPerAccident
PROPERTIES
    ForeignTempsAreUntouched
    ReplacesAtomically
