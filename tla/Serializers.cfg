SPECIFICATION SerializerSpec
CONSTANTS
    Types <- MCTypes
    Inputs <- MCInputs
    Messages <- MCMessages
    Preserving = {TRUE, FALSE}
    MaximumInputSize = {}
    EnvMaximumInputSize = {9}
    SizeLimit = 7
    WideBits = 14
    NarrowBits = 7
    Fixed32Size = 2
    Fixed64Size = 3
    JsonInputs <- MCJsonInputs
    Enumerators = {0, 1, 2}
    CustomSerializers = {"Duration", "Timestamp"}
    Wrappers = {"Wrapper"}
    NanoDigits = 2
    MilliDigits = 1
    MaxSeconds = 3
INVARIANTS
    StacksBalanced
    MeaningExact
    RoundTrips
