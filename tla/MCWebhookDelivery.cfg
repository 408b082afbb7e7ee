SPECIFICATION MCSpec
CONSTANTS
    Hook = {h1, h2}
    Job = {j1, j2}
    MaxFailures = 1
    Attempts = 2
    Workers = 2
    NoHook = NoHook
    MaxEvents = 3
INVARIANTS DeliveryInv FailuresBounded DuplicateHasCause
 
CHECK_DEADLOCK FALSE
