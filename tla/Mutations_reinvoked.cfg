SPECIFICATION Spec
CONSTANTS
    create = create
    set = set
    saga = saga
    None = None
    Requests = {set}
    StepCount <- StepsOf
    Policy <- PolicyOf
    Hooked <- HookedOf
    MaxCalls = 3
INVARIANTS ReinvokedAtMostOnce
