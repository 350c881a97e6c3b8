CONSTANTS
    ASNs = {1, 2, 3, 64513, 64514}
    NoAnn = NoAnn
    ASes = {1, 2, 3}
    Inputs <- MCInputs
    Rows <- MCRows
    MaxRows = 2
SPECIFICATION Spec
PROPERTY
    ImplementsGaoRexford
