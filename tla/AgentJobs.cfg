\* Three background jobs and two client-driven runs that may be cancelled.
SPECIFICATION FairSpec
CONSTANTS
    Jobs = {j1, j2, j3}
    Calls = {c1, c2}
    MaxTerminal = 1
INVARIANTS
    TypeOK
    OneAttendedRun
    LockHasOneOwner
    InFlightListed
    RegistryBounded
PROPERTIES
    StatusOnlyAdvances
    JobsSettle
\* Every call may have been answered, and no further one need be made.
CHECK_DEADLOCK FALSE
