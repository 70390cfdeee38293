\* Three keys, batches of two: failures and a kill at every await, opens and closes.
CONSTANTS
    Keys = {1, 2, 3}
    BatchSize = 2
    MaxEnqueues = 4
    MaxFailures = 2
    MaxCrashes = 1
SPECIFICATION Spec
INVARIANTS NeverLost NoUseAfterClose
PROPERTIES DurableEventuallyStored CloseCompletes ImplementsOutbox
