\* A broken connection, refuted: the outputs under way are saved.
CONSTANTS
    Benchmarks = {b1}
    NumNonces = 2
    Leaves = {x}
    Payloads = {b1}
    None = None
    PayloadOf <- MCPayloadOf
    HelperWorkers = 2
    LocalWorkers = 0
    RemoteWorkers = 2
    Faults = {"cut"}
    MaxFaults = 1
SPECIFICATION Spec
INVARIANTS SavedBeforeExit
