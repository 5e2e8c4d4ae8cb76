CONSTANT Line <- MCLine
SPECIFICATION Spec
INVARIANTS TypeOK NeverAnException HandlersDoNotNest OnlyRunningInService
PROPERTIES EveryRequestEnds ImplementsIrqLatch
