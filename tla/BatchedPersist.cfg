\* Waves of three, commits of two, seven candidates: neither size divides the rest.
SPECIFICATION Spec
CONSTANTS
    N = 7
    Parallelism = 3
    BatchSize = 2
INVARIANTS
    LossBounded
    ReportedIsWritten
PROPERTIES
    DeliversInOrder
    OnlyTheTailIsShort
CHECK_DEADLOCK FALSE
