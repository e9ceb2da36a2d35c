SPECIFICATION SubmissionSpec
CONSTANTS
    Conversations = {c1, c2}
    NoConversation = none
    IdentityTTL = 1
    EvidenceTTL = 2
    MaxTries = 1
    MaxTime = 2
    MaxCrashes = 1
    MaxFaults = 1
INVARIANTS
    StartedOnce
    NoLostEvidence
PROPERTIES
    SubmissionSettles
