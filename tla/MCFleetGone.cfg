\* A helper that is gone and a restarted master, refuted: the master goes on alone.
CONSTANTS
    Benchmarks = {b1}
    NumNonces = 1
    Leaves = {x}
    Payloads = {b1}
    None = None
    PayloadOf <- MCPayloadOf
    HelperWorkers = 1
    LocalWorkers = 1
    RemoteWorkers = 1
    Faults = {"gone", "crash"}
    MaxFaults = 2
SPECIFICATION FairSpec
PROPERTIES HandedOverIsCompleted
