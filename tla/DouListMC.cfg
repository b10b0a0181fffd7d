SPECIFICATION ListSpec
CONSTANTS
    Node = {c1, c2, c3, c4}
    NULL = NULL
INVARIANTS
    CursorAtHead
PROPERTIES
    ImplementsIdleList
