SPECIFICATION Spec
CONSTANTS
    ann = ann
    bob = bob
    x1 = x1
    None = None
    Redacted = Redacted
    People = {ann, bob}
    Prospects = {x1}
    Matches <- MCMatches
    Sure = {ann}
    Requests = {r1, r2, r3}
CHECK_DEADLOCK FALSE
INVARIANTS TypeOK ErasedStaysErased ContactsExplained
    SomeoneMoves
SYMMETRY RequestSymmetry
