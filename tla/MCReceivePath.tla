--------------------------- MODULE MCReceivePath ---------------------------
EXTENDS ReceivePath

CONSTANT MaxSize

Plain(n)      == [size |-> n, compressed |-> FALSE, inflated |-> n, corrupt |-> FALSE]
Deflated(n)   == [size |-> 1, compressed |-> TRUE, inflated |-> n, corrupt |-> FALSE]
Broken        == [size |-> 1, compressed |-> TRUE, inflated |-> 1, corrupt |-> TRUE]

\* Empty, at the limit and beyond it, plain and compressed, and not decodable.
MCMessages ==
    {Plain(n) : n \in {0, MaxSize, MaxSize + 1}}
        \cup {Deflated(n) : n \in {0, MaxSize, MaxSize + 1}} \cup {Broken}
=============================================================================
