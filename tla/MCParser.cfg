SPECIFICATION Spec
CONSTANTS
    Identifiers = {"a", "_"}
    Literals = {"1", "2", "k"}
    Patterns = {"1", "2"}
    Keys = {"k"}
    OutOfRange = {"2"}
    Alphabets <- MCAlphabets
INVARIANTS
    ReadAsDocumented
    SpellingsAgree
CHECK_DEADLOCK FALSE
