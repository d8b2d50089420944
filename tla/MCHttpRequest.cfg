\* Up to three attempts, every failure, late and lost attempts.
SPECIFICATION Spec
CONSTANTS
    Configs <- SmallConfigs
    Statuses = {200, 404, 503}
    Faults = {"client", "connect", "other", "lost", "body"}
INVARIANTS
    TypeOK
    AppliedOncePerAttempt
    AnswerIsFinal
    RepeatedForCause
PROPERTIES
    LateEffectsOnlyAfterGivingUp
    Termination
