SPECIFICATION Spec
CHECK_DEADLOCK FALSE
CONSTANTS
    Policies <- SomePolicies
    TokenShapes <- SomeShapes
    Owner = 1
    Positions = {0, 1}
    AuthTimeout = 0
    BatchTimeout = 0
    MaxSessions = 2
    MaxTokens = 1
    MaxTime = 1
    MaxUses = 2
    MaxChanges = 2
INVARIANTS TypeOK AuthorisedBeforeUse TokenNotReplayed InvalidatedForGood InfoSignedOnce
CONSTRAINT FewSteps
