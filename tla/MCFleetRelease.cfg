\* A broken connection, refuted: the slot of a concluded benchmark is freed.
CONSTANTS
    Benchmarks = {b1}
    NumNonces = 1
    Leaves = {x}
    Payloads = {b1}
    None = None
    PayloadOf <- MCPayloadOf
    HelperWorkers = 1
    LocalWorkers = 1
    RemoteWorkers = 1
    Faults = {"cut"}
    MaxFaults = 1
SPECIFICATION FairSpec
PROPERTIES ConcludedIsFreed
