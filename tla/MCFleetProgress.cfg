\* Liveness: connections break, for good too, the helper is stopped, calls time
\* out, nonces and the local Docker fail.
CONSTANTS
    Benchmarks = {b1}
    NumNonces = 2
    Leaves = {x}
    Payloads = {b1}
    None = None
    PayloadOf <- MCPayloadOf
    HelperWorkers = 1
    LocalWorkers = 1
    RemoteWorkers = 1
    Faults = {"cut", "timeout", "signal", "gone", "nonce", "local"}
    MaxFaults = 2
SPECIFICATION FairSpec
INVARIANTS NoRuntimeWithoutProcess
PROPERTIES HandedOverIsCompleted OldSessionEnds FinishedIsCleanedUp
