SPECIFICATION FairSpec
CONSTANT Kinds <- AllKinds
INVARIANT StopSafe
PROPERTIES StopsEnd DrainImplementsLifecycle
