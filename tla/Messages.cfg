SPECIFICATION QtMessagesSpec
CONSTANTS
    Objs = {a, b}
    Shapes <- MCShapes
    Threads = {t1, t2, t3}
    Registrars <- MCRegistrars
    FullName <- MCFullName
SYMMETRY MessagesSymmetry
INVARIANTS
    ObjectsAreValues
    TypesKnown
    QtValuesKept
