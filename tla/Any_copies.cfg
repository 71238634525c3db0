SPECIFICATION Spec
CONSTANTS
    Objs = {"a", "b"}
    MsgTypes = {"M", "N"}
    Contents = {0}
INVARIANT
    AnysAreValues
