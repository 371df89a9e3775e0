SPECIFICATION Spec
CONSTANTS
    Kinds <- AllKinds
    MaxParts = 2
    MaxAdded = 2
INVARIANTS
    TypeOK
    RoundTrip
    PassesAgree
    ReadersAgree
    RewritesKeepMessage
CHECK_DEADLOCK FALSE
