CONSTANTS
    None = None
    Clients = {c1, c2, c3}
    Keys = {k1}
    Values = {v1}
    MaxVersion = 2
SYMMETRY Symmetric
SPECIFICATION Spec
PROPERTIES
    ImplementsStore
