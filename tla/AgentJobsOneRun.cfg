\* Is an agent run ever alone?  A cancelled optimize_task frees the lock early.
SPECIFICATION Spec
CONSTANTS
    Jobs = {j1}
    Calls = {c1}
    MaxTerminal = 1
INVARIANT OneRunAtATime
CHECK_DEADLOCK FALSE
