SPECIFICATION FairSpec
CONSTANT MaxFragments = 4
INVARIANT AbortedReceiveHarmless
PROPERTIES ShutdownTerminates ImplementsLifecycle
