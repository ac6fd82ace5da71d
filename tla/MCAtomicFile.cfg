\* Two who save and one who loads a record, with every failure.
SPECIFICATION Spec
CONSTANTS
    None = None
    Torn = Torn
    Writers = {w, x}
    Readers = {r}
    Values = {u, v}
INVARIANTS
    TypeOK
    ReadsAreWhole
PROPERTY
    ImplementsRecordRegister
SYMMETRY Interchangeable
