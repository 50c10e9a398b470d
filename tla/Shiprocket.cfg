SPECIFICATION FairSpec
CONSTANTS
    Fulfillments <- MCFulfillments
    MaxFaults = 1
    MaxPasswords = 2
    MaxByHand = 1
    MaxVisits = 1
INVARIANTS
    TypeOK
    TrackedHasAwb
    NotAheadOfCarrier
PROPERTIES
    StatusFollows
CHECK_DEADLOCK FALSE
