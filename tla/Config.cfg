SPECIFICATION ConfigSpec
CONSTANTS
    Fields <- MCFields
    Multis <- MCMultis
    Hashes <- MCHashes
    Pairs <- MCPairs
    CallReceiveSizes <- MCCallReceiveSizes
    Uris <- MCUris
    Environments <- MCEnvironments
    MinimumStreamWindow = 2
    DefaultStreamWindow = 20
    DefaultSessionWindow = 8
    MaxWindow = 100
    MinimumMetadataSize = 4
    DefaultMetadataSize = 6
    MetadataCap = 16
    DefaultReceiveSize = 10
    GrpcMaxPayloadSize = 50
    DefaultInitialBackoff = 5
    DefaultMaximumBackoff = 20
    DefaultConnectTimeout = 9
    Metadatas = {"m1", "m2"}
    Datas <- MCDatas
    QmlFields <- MCQmlFields
    MaxEdits = 3
    MaxQmlEdits = 5
    MaxFailures = 2
INVARIANTS
    OptionsAreValues
    ConfigAdmissible
    ElementsInEffect
CHECK_DEADLOCK FALSE
