\* Queries of up to five tokens, readable to its end or not.
CONSTANTS
    Tokens = {"with", "a", "'p'", "+", "(", ":", ":5m", "5m"}
    Strings = {"'p'"}
    Idents = {"with", "a", ":", ":5m"}
    Colons = {":", ":5m"}
    Texts <- MCTexts
    Strip <- MCStrip
SPECIFICATION Spec
INVARIANTS
    AcceptedWhole
PROPERTIES
    ImplementsCursor
