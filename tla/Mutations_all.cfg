SPECIFICATION Spec
CONSTANTS
    create = create
    set = set
    saga = saga
    None = None
    Requests = {create, saga}
    StepCount <- StepsOf
    Policy <- PolicyOf
    Hooked <- HookedOf
    MaxCalls = 3
INVARIANTS TypeOK ResolveOnlyCalledOnce RecordsAreTrue AnswersAreTrue StepsInOrder AnchoredRetriedOnce
PROPERTIES OnlyForward
