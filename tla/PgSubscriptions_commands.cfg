SPECIFICATION SubscriptionsFairSpec
CONSTANTS
    Sessions = {s1, s2}
    Boot = boot
    MaxIds = 3
    MaxThreads = 3
    MaxFailures = 2
INVARIANT Agreement
INVARIANT OneReplication
INVARIANT NoPanic
PROPERTY StopReturns
CHECK_DEADLOCK FALSE
