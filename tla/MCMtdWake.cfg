SPECIFICATION Spec
CONSTANTS
    w0 = w0
    w1 = w1
    k0 = k0
    Writers = {w0, w1}
    Logs = {0, 1}
    LogOf <- MCLogOf
    Keys = {k0}
    Commands <- MCCommands
    BufCap = 4
    MaxEpoch = 3
    MaxWrites = 3
    MaxCheckpoints = 0
    MaxCrashes = 1
    MaxReplayCrashes = 0
CONSTRAINT UntilRecovered
INVARIANT DeltasRecycled
CHECK_DEADLOCK FALSE
