CONSTANTS
    Messages <- MCMessages
    Families <- MCFamilies
    Services = {"S", "T"}
    MethodNames = {"one", "two"}
    Types <- MCTypes
    MaxMethods = 2
SPECIFICATION GeneratorsSpec
INVARIANTS
    TablesMatchClasses
    GeneratedComplete
    NamesResolve
CHECK_DEADLOCK FALSE
